--------------------------- MODULE RadioMgr_proofs ---------------------------
(***************************************************************************)
(* Proofs about RadioMgr, for every value of its bounds: type correctness, *)
(* "exactly one next step is scheduled while a switch is under way"        *)
(* (OneStepPending), and that the manager implements RadioSwitch; for      *)
(* requests that come one at a time, that the radio is the one they asked  *)
(* for until the environment sets them back (RightRadioOn), and that the   *)
(* modem is off only when Wi-Fi is up (ModemOffNeedsWifi).                 *)
(*                                                                         *)
(* The argument: whatever a helper does to the manager's record, it either *)
(* leaves the switch alone (Quiet) or does what rm_switch_to() does        *)
(* (Moves). OneStepPending is inductive once we know that SR_work is at    *)
(* most once in the queue, for the handler takes it out and must not leave *)
(* a second one behind. For the radios, Steady says what the switch has    *)
(* reached at each place of the handler: radio_enabled is set only when    *)
(* the target carries MQTT, and keeps its meaning until the next           *)
(* rm_switch_to().                                                         *)
(***************************************************************************)
EXTENDS RadioMgr, TLAPS

(* SR_work is in the queue; it is there at most once. *)
Has(q) == \E i \in 1..Len(q) : q[i] = "SR"
Once(q) == \A i, j \in 1..Len(q) : q[i] = "SR" /\ q[j] = "SR" => i = j
SROnce(r) == Once(r.queue)

(* From r to s, nothing happens to the switch. *)
Quiet(r, s) ==
    /\ s \in RmType
    /\ s.active = r.active /\ s.target = r.target /\ s.switching = r.switching
    /\ Has(s.queue) <=> Has(r.queue)
    /\ SROnce(r) => SROnce(s)

(* From r to s, somebody asks for a radio. *)
Asks(r, s) ==
    /\ s \in RmType
    /\ s.active = r.active /\ s.switching
    /\ Has(s.queue) <=> Has(r.queue) \/ ~r.switching
    /\ SROnce(r) => SROnce(s)

Moves(r, s) == Quiet(r, s) \/ Asks(r, s)

-----------------------------------------------------------------------------
(* Queues *)

LEMMA QueuedHas == \A r : Queued(r, "SR") <=> Has(r.queue)
  BY DEF Queued, Has

(* An item put at the end of the queue: SR_work is queued now if it was or if
   the item is SR_work, and it stays single if it was not queued before. *)
LEMMA AppendLemma ==
    ASSUME NEW q \in Seq(Works), NEW w \in Works
    PROVE  /\ Append(q, w) \in Seq(Works)
           /\ Has(Append(q, w)) <=> Has(q) \/ w = "SR"
           /\ Once(q) /\ (w = "SR" => ~Has(q)) => Once(Append(q, w))
<1>1. /\ Len(Append(q, w)) = Len(q) + 1
      /\ \A i \in 1..Len(q) : Append(q, w)[i] = q[i]
      /\ Append(q, w)[Len(q) + 1] = w
      /\ Len(q) \in Nat
    OBVIOUS
<1>2. \A i \in 1..Len(Append(q, w)) : i \in 1..Len(q) \/ i = Len(q) + 1
    BY <1>1
<1>3. Has(Append(q, w)) <=> Has(q) \/ w = "SR"
    BY <1>1, <1>2 DEF Has
<1>4. ASSUME Once(q), w = "SR" => ~Has(q) PROVE Once(Append(q, w))
    BY <1>1, <1>2, <1>4 DEF Has, Once
<1> QED  BY <1>3, <1>4

(* Items other than SR_work put at the end of the queue change nothing for
   SR_work. *)
LEMMA ConcatLemma ==
    ASSUME NEW q \in Seq(Works), NEW t \in Seq(Works), ~Has(t)
    PROVE  /\ q \o t \in Seq(Works)
           /\ Has(q \o t) <=> Has(q)
           /\ Once(q) => Once(q \o t)
<1>1. Len(q \o t) = Len(q) + Len(t) /\ Len(q) \in Nat /\ Len(t) \in Nat
    OBVIOUS
<1>2. \A i \in 1..Len(q) : (q \o t)[i] = q[i]
    OBVIOUS
<1>3. ASSUME NEW i \in 1..Len(q \o t), i \notin 1..Len(q)
      PROVE  (q \o t)[i] # "SR"
  <2>1. (q \o t)[i] = t[i - Len(q)] /\ i - Len(q) \in 1..Len(t)
      BY <1>1, <1>3
  <2> QED  BY <2>1 DEF Has
<1>4. Has(q \o t) <=> Has(q)
    BY <1>1, <1>2, <1>3 DEF Has
<1>5. Once(q) => Once(q \o t)
    BY <1>1, <1>2, <1>3 DEF Once
<1> QED  BY <1>4, <1>5

(* Taking the first item out of the queue: SR_work is gone if it was the first
   item and single; otherwise it stays where it was. *)
LEMMA TailLemma ==
    ASSUME NEW q \in Seq(Works), Len(q) > 0
    PROVE  /\ Tail(q) \in Seq(Works)
           /\ Head(q) # "SR" => (Has(Tail(q)) <=> Has(q))
           /\ Once(q) => Once(Tail(q))
           /\ Once(q) /\ Head(q) = "SR" => Has(q) /\ ~Has(Tail(q))
<1>1. /\ Len(Tail(q)) = Len(q) - 1
      /\ \A i \in 1..Len(Tail(q)) : Tail(q)[i] = q[i + 1]
      /\ Len(q) \in Nat /\ Head(q) = q[1]
    OBVIOUS
<1>2. \A i \in 1..Len(q) : i = 1 \/ (i - 1 \in 1..Len(Tail(q)) /\ Tail(q)[i - 1] = q[i])
    BY <1>1
<1>3. \A i \in 1..Len(Tail(q)) : i + 1 \in 1..Len(q) /\ 1 # i + 1
    BY <1>1
<1>4. ASSUME Head(q) # "SR" PROVE Has(Tail(q)) <=> Has(q)
  <2>1. ASSUME NEW i \in 1..Len(q), q[i] = "SR" PROVE Has(Tail(q))
      BY <1>1, <1>2, <1>4, <2>1 DEF Has
  <2>2. ASSUME NEW i \in 1..Len(Tail(q)), Tail(q)[i] = "SR" PROVE Has(q)
      BY <1>1, <1>3, <2>2 DEF Has
  <2> QED  BY <2>1, <2>2 DEF Has
<1>5. ASSUME Once(q) PROVE Once(Tail(q))
    BY <1>1, <1>3, <1>5 DEF Once
<1>6. ASSUME Once(q), Head(q) = "SR" PROVE Has(q) /\ ~Has(Tail(q))
    BY <1>1, <1>3, <1>6 DEF Has, Once
<1> QED  BY <1>4, <1>5, <1>6

-----------------------------------------------------------------------------
(* What the helpers do to the switch *)

LEMMA QuietRefl == ASSUME NEW r \in RmType PROVE Quiet(r, r)
  BY DEF Quiet

(* Two moves are one. *)
LEMMA MovesTrans ==
    ASSUME NEW r, NEW s, NEW t
    PROVE  /\ Quiet(r, s) /\ Quiet(s, t) => Quiet(r, t)
           /\ Moves(r, s) /\ Moves(s, t) => Moves(r, t)
<1>1. Quiet(r, s) /\ Quiet(s, t) => Quiet(r, t)
    BY DEF Quiet
<1>2. Quiet(r, s) /\ Asks(s, t) => Asks(r, t)
    BY DEF Quiet, Asks
<1>3. Asks(r, s) /\ Quiet(s, t) => Asks(r, t)
    BY DEF Quiet, Asks
<1>4. Asks(r, s) /\ Asks(s, t) => Asks(r, t)
    BY DEF Asks
<1> QED  BY <1>1, <1>2, <1>3, <1>4 DEF Moves

(* Work other than SR_work is submitted. *)
LEMMA SubmitOther ==
    ASSUME NEW r \in RmType, NEW w \in Works \ {"SR"}
    PROVE  /\ Quiet(r, [r EXCEPT !.queue = Append(@, w)])
           /\ Quiet(r, Submit(r, w))
<1> DEFINE s == [r EXCEPT !.queue = Append(@, w)]
<1>1. r.queue \in Seq(Works) /\ s.queue = Append(r.queue, w)
    BY DEF RmType
<1>2. s.queue \in Seq(Works) /\ (Has(s.queue) <=> Has(r.queue)) /\ (SROnce(r) => SROnce(s))
    BY <1>1, AppendLemma DEF SROnce
<1>3. s \in RmType /\ s.active = r.active /\ s.target = r.target /\ s.switching = r.switching
    BY <1>1, <1>2 DEF RmType
<1> HIDE DEF s
<1>4. Quiet(r, s)
    BY <1>2, <1>3 DEF Quiet
<1>5. Quiet(r, Submit(r, w))
    BY <1>4, QuietRefl DEF Submit, s
<1> QED  BY <1>4, <1>5 DEF s

(* SR_work is submitted. *)
LEMMA SubmitSR ==
    ASSUME NEW r \in RmType
    PROVE  LET s == Submit(r, "SR")
           IN  /\ s \in RmType /\ Has(s.queue) /\ (SROnce(r) => SROnce(s))
               /\ s.active = r.active /\ s.target = r.target /\ s.switching = r.switching
<1>1. CASE Queued(r, "SR")
    BY <1>1, QueuedHas DEF Submit
<1>2. CASE ~Queued(r, "SR")
  <2> DEFINE s == [r EXCEPT !.queue = Append(@, "SR")]
  <2>1. r.queue \in Seq(Works) /\ s.queue = Append(r.queue, "SR") /\ "SR" \in Works
      BY DEF RmType, Works
  <2>2. s.queue \in Seq(Works) /\ Has(s.queue) /\ (SROnce(r) => SROnce(s))
      BY <1>2, <2>1, AppendLemma, QueuedHas DEF SROnce
  <2>3. s \in RmType /\ s.active = r.active /\ s.target = r.target /\ s.switching = r.switching
      BY <2>1, <2>2 DEF RmType
  <2> QED  BY <1>2, <2>2, <2>3 DEF Submit
<1> QED  BY <1>1, <1>2

LEMMA PublishQuiet ==
    ASSUME NEW r \in RmType, NEW d, NEW e
    PROVE  Quiet(r, Publish(r, d, e))
<1> DEFINE a == IF d.ap # e.ap THEN <<"AP">> ELSE <<>>
           m == IF d.mqtt # e.mqtt THEN <<"MQTT">> ELSE <<>>
           b == IF d.broker # e.broker THEN <<"BROKER">> ELSE <<>>
           q == r.queue
           s == Publish(r, d, e)
<1>1. /\ a \in Seq(Works) /\ ~Has(a)
      /\ m \in Seq(Works) /\ ~Has(m)
      /\ b \in Seq(Works) /\ ~Has(b)
  <2>1. /\ <<"AP">> \in Seq(Works) /\ <<"MQTT">> \in Seq(Works)
        /\ <<"BROKER">> \in Seq(Works) /\ <<>> \in Seq(Works)
      BY DEF Works
  <2>2. ~Has(<<"AP">>) /\ ~Has(<<"MQTT">>) /\ ~Has(<<"BROKER">>) /\ ~Has(<<>>)
      BY DEF Has
  <2> QED  BY <2>1, <2>2
<1>2. q \in Seq(Works)
    BY DEF RmType
<1> HIDE DEF a, m, b
<1>3. q \o a \in Seq(Works) /\ (Has(q \o a) <=> Has(q)) /\ (Once(q) => Once(q \o a))
    BY <1>1, <1>2, ConcatLemma
<1>4. /\ (q \o a) \o m \in Seq(Works) /\ (Has((q \o a) \o m) <=> Has(q \o a))
      /\ Once(q \o a) => Once((q \o a) \o m)
    BY <1>1, <1>3, ConcatLemma
<1>5. /\ ((q \o a) \o m) \o b \in Seq(Works)
      /\ Has(((q \o a) \o m) \o b) <=> Has((q \o a) \o m)
      /\ Once((q \o a) \o m) => Once(((q \o a) \o m) \o b)
    BY <1>1, <1>4, ConcatLemma
<1>6. s.queue = ((q \o a) \o m) \o b
    BY DEF Publish, a, m, b, RmType
<1>7. s.active = r.active /\ s.target = r.target /\ s.switching = r.switching
    BY DEF Publish, RmType
<1>8. s \in RmType
    BY <1>5, <1>6 DEF Publish, RmType
<1> QED  BY <1>3, <1>4, <1>5, <1>6, <1>7, <1>8 DEF Quiet, SROnce

(* rm_switch_to() asks for a radio or does nothing; it does nothing to a switch
   to the same radio. *)
LEMMA SwitchToMoves ==
    ASSUME NEW r \in RmType, NEW radio \in Radios
    PROVE  /\ Moves(r, SwitchTo(r, radio))
           /\ r.switching /\ r.target = radio => Quiet(r, SwitchTo(r, radio))
<1> DEFINE s == [r EXCEPT !.enabled = FALSE, !.disabled = FALSE,
                          !.target = radio, !.switching = TRUE]
<1>1. /\ s \in RmType /\ s.active = r.active /\ s.switching /\ s.queue = r.queue
    BY DEF RmType
<1> HIDE DEF s
<1>2. CASE SwitchTo(r, radio) = r
    BY <1>2, QuietRefl DEF Moves
<1>3. CASE SwitchTo(r, radio) # r
  <2>1. ~(r.switching /\ r.target = radio)
      BY <1>3 DEF SwitchTo
  <2>2. SwitchTo(r, radio) = IF r.switching THEN s ELSE Submit(s, "SR")
      BY <1>3 DEF SwitchTo, s
  <2>3. CASE r.switching
      BY <1>1, <2>1, <2>2, <2>3 DEF Moves, Asks, SROnce
  <2>4. CASE ~r.switching
      BY <1>1, <2>1, <2>2, <2>4, SubmitSR DEF Moves, Asks, SROnce
  <2> QED  BY <2>3, <2>4
<1> QED  BY <1>2, <1>3

LEMMA PowerTypes ==
    ASSUME NEW d \in DaType
    PROVE  PowerOff(d) \in DaType /\ PowerOn(d) \in DaType
  BY DEF PowerOff, PowerOn, DaType, Tri

(* A field of the shadow gets another value. *)
LEMMA DaFields ==
    ASSUME NEW d \in DaType, NEW v \in Tri
    PROVE  /\ [d EXCEPT !.sleep = v] \in DaType
           /\ [d EXCEPT !.ap = v] \in DaType
           /\ [d EXCEPT !.mqtt = v] \in DaType
           /\ [d EXCEPT !.boot = v] \in DaType
           /\ [d EXCEPT !.broker = v] \in DaType
  BY DEF DaType

(* return_da_to_sleep() may ask for LTE, but never disturbs a switch. *)
LEMMA ReturnMoves ==
    ASSUME NEW r \in RmType, NEW d \in DaType, NEW o \in ReturnDaToSleep(r, d)
    PROVE  /\ Moves(r, o.r) /\ (r.switching => Quiet(r, o.r))
           /\ o.d \in DaType /\ o.fault \in BOOLEAN /\ o.ok \in BOOLEAN
<1> DEFINE done(q, e) == [r |-> q, d |-> e, fault |-> FALSE, ok |-> TRUE]
           refused == [r |-> r, d |-> d, fault |-> FALSE, ok |-> FALSE]
           failed == [r |-> r, d |-> d, fault |-> TRUE, ok |-> FALSE]
           off(q) == LET e == IF r.prepped THEN d ELSE PowerOff(d) IN done(Publish(q, d, e), e)
           Goal == /\ Moves(r, o.r) /\ (r.switching => Quiet(r, o.r))
                   /\ o.d \in DaType /\ o.fault \in BOOLEAN /\ o.ok \in BOOLEAN
<1>1. ASSUME o.r = r, o.d \in DaType, o.fault \in BOOLEAN, o.ok \in BOOLEAN
      PROVE Goal
  <2>1. Quiet(r, r)
      BY QuietRefl
  <2>2. Quiet(r, o.r)
      BY <1>1, <2>1
  <2>3. Moves(r, o.r)
      BY <2>2 DEF Moves
  <2> QED  BY <1>1, <2>2, <2>3
<1>2. ASSUME NEW q, q \in RmType, Moves(r, q), r.switching => Quiet(r, q), o = off(q)
      PROVE Goal
  <2>1. Quiet(q, o.r)
      BY <1>2, PublishQuiet
  <2>2. o.d \in DaType /\ o.fault \in BOOLEAN /\ o.ok \in BOOLEAN
      BY <1>2, PowerTypes
  <2>3. Moves(r, o.r)
      BY <1>2, <2>1, MovesTrans DEF Moves
  <2>4. r.switching => Quiet(r, o.r)
      BY <1>2, <2>1, MovesTrans
  <2> QED  BY <2>2, <2>3, <2>4
<1>3. CASE WifiIsConnecting(r)
  <2>1. o = done(r, d)
      BY <1>3 DEF ReturnDaToSleep
  <2> QED  BY <2>1, <1>1
<1>4. CASE ~WifiIsConnecting(r) /\ r.active # "DA"
  <2>1. o = off(r)
      BY <1>4 DEF ReturnDaToSleep
  <2>2. Quiet(r, r)
      BY QuietRefl
  <2> HIDE DEF off
  <2> QED  BY <2>1, <2>2, <1>2 DEF Moves
<1>5. CASE ~WifiIsConnecting(r) /\ r.active = "DA" /\ ~r.useSleep
  <2>1. o = done(r, [d EXCEPT !.sleep = "F"]) \/ o = failed
      BY <1>5 DEF ReturnDaToSleep
  <2>2. [d EXCEPT !.sleep = "F"] \in DaType
      BY DaFields DEF Tri
  <2>3. CASE o = done(r, [d EXCEPT !.sleep = "F"])
      BY <2>2, <2>3, <1>1
  <2>4. CASE o = failed
      BY <2>4, <1>1
  <2> QED  BY <2>1, <2>3, <2>4
<1>6. CASE /\ ~WifiIsConnecting(r) /\ r.active = "DA" /\ r.useSleep
           /\ d.sleep = "U" \/ d.ap = "T"
  <2>1. o = done(r, [d EXCEPT !.sleep = "T"]) \/ o = failed \/ o = refused
      BY <1>6 DEF ReturnDaToSleep
  <2>2. [d EXCEPT !.sleep = "T"] \in DaType
      BY DaFields DEF Tri
  <2>3. CASE o = done(r, [d EXCEPT !.sleep = "T"])
      BY <2>2, <2>3, <1>1
  <2>4. CASE o = failed
      BY <2>4, <1>1
  <2>5. CASE o = refused
      BY <2>5, <1>1
  <2> QED  BY <2>1, <2>3, <2>4, <2>5
<1>7. CASE /\ ~WifiIsConnecting(r) /\ r.active = "DA" /\ r.useSleep
           /\ d.sleep # "U" /\ d.ap # "T"
  <2>1. o = off(SwitchTo(r, "LTE"))
      BY <1>7 DEF ReturnDaToSleep
  <2>2. r.switching => r.target = "LTE"
      BY <1>7 DEF WifiIsConnecting, RmType, Radios
  <2>3. Moves(r, SwitchTo(r, "LTE")) /\ (r.switching => Quiet(r, SwitchTo(r, "LTE")))
      BY <2>2, SwitchToMoves DEF Radios
  <2>4. SwitchTo(r, "LTE") \in RmType
      BY <2>3 DEF Moves, Quiet, Asks
  <2> HIDE DEF off
  <2> QED  BY <2>1, <2>3, <2>4, <1>2
<1> QED  BY <1>3, <1>4, <1>5, <1>6, <1>7

LEMMA RetriesType == \A op \in Ops : Retries[op] \in Nat
  BY DEF Ops, Retries

(* The bookkeeping of an operation does nothing to the switch. *)
LEMMA OpQuiet ==
    ASSUME NEW r \in RmType, NEW op \in Ops, NEW f \in Nat, NEW n \in Nat
    PROVE  /\ Quiet(r, [r EXCEPT !.op = op, !.failures = f, !.polls = n])
           /\ Quiet(r, [r EXCEPT !.failures = f, !.polls = n])
           /\ Quiet(r, [r EXCEPT !.polls = n])
  BY DEF Quiet, RmType, SROnce

LEMMA StartOpQuiet ==
    ASSUME NEW r \in RmType, NEW op \in Ops, NEW s \in StartOp(r, op)
    PROVE  Quiet(r, s.r) /\ s.st \in {"STARTED", "STILL_GOING", "FAILED"}
<1>1. r.polls + 1 \in Nat /\ r.failures + 1 \in Nat /\ Retries[op] + 1 \in Nat /\ MaxPolls \in Nat
    BY RetriesType, BoundsAssumption DEF RmType
<1>2. \/ s = [r |-> [r EXCEPT !.op = op, !.failures = 0, !.polls = 0], st |-> "STARTED"]
      \/ s = [r |-> [r EXCEPT !.polls = r.polls + 1], st |-> "STILL_GOING"]
      \/ s = [r |-> [r EXCEPT !.failures = r.failures + 1, !.polls = 0], st |-> "STARTED"]
      \/ s = [r |-> [r EXCEPT !.failures = Retries[op] + 1, !.polls = MaxPolls], st |-> "FAILED"]
    BY DEF StartOp, RmType
<1>3. Quiet(r, [r EXCEPT !.op = op, !.failures = 0, !.polls = 0])
    BY OpQuiet
<1>4. /\ Quiet(r, [r EXCEPT !.polls = r.polls + 1])
      /\ Quiet(r, [r EXCEPT !.failures = r.failures + 1, !.polls = 0])
      /\ Quiet(r, [r EXCEPT !.failures = Retries[op] + 1, !.polls = MaxPolls])
    BY <1>1, OpQuiet
<1> QED  BY <1>2, <1>3, <1>4

LEMMA FailOpQuiet == ASSUME NEW r \in RmType PROVE Quiet(r, FailOp(r))
  BY BoundsAssumption DEF FailOp, Quiet, RmType, SROnce

-----------------------------------------------------------------------------
(* The inductive invariant *)

PostNoTimer == pc \in {"postWifi", "postLte"} => ~timer

IInv == TypeOK /\ OneStepPending /\ SROnce(rm) /\ PostNoTimer

LteType == [ power : BOOLEAN, mqtt : BOOLEAN ]
LeftType == [ faults : Nat, env : Nat, reqs : Nat ]

(* A step is good for the part of the state that the switch is about ... *)
GoodSwitch ==
    /\ rm' \in RmType /\ pc' \in Places /\ timer' \in BOOLEAN
    /\ OneStepPending' /\ SROnce(rm)' /\ PostNoTimer'
    /\ [Switch!Next]_(Switch!vars)

(* ... and for the rest. *)
GoodRest == da' \in DaType /\ lte' \in LteType /\ left' \in LeftType

GoodStep == GoodSwitch /\ GoodRest /\ uptime8s' \in BOOLEAN

(* switch_radios_work_handler is running, and r is the manager's record so far *)
Running(r) ==
    /\ rm.switching /\ ~timer
    /\ r \in RmType /\ r.switching /\ ~Has(r.queue) /\ r.active = rm.active

LEMMA RunningQuiet ==
    ASSUME NEW r, NEW s, Running(r), Quiet(r, s)
    PROVE  Running(s) /\ s.target = r.target
  BY DEF Running, Quiet

LEMMA RunningMoves ==
    ASSUME NEW r, NEW s, Running(r), Moves(r, s)
    PROVE  Running(s)
  BY DEF Running, Moves, Quiet, Asks

LEMMA IInvFacts ==
    ASSUME IInv
    PROVE  /\ rm \in RmType /\ da \in DaType /\ lte \in LteType /\ left \in LeftType
           /\ pc \in Places /\ timer \in BOOLEAN /\ uptime8s \in BOOLEAN
           /\ rm.queue \in Seq(Works) /\ rm.target \in Radios
  BY DEF IInv, TypeOK, LteType, LeftType, RmType

(* While the handler is blocked in the middle, it is running. *)
LEMMA InHandlerRunning ==
    ASSUME IInv, InHandler
    PROVE  Running(rm)
  BY QueuedHas, IInvFacts DEF IInv, OneStepPending, Running

(* The handler asks the timer for another run. *)
LEMMA RearmGood ==
    ASSUME NEW r, Running(r), IInv, Rearm(r)
    PROVE  GoodSwitch
<1>1. rm' = r /\ timer' = TRUE /\ pc' = "idle"
    BY DEF Rearm
<1>2. rm' \in RmType /\ pc' \in Places /\ timer' \in BOOLEAN
    BY <1>1 DEF Running, Places
<1>3. OneStepPending'
    BY <1>1, QueuedHas DEF OneStepPending, InHandler, Running
<1>4. SROnce(rm)' /\ PostNoTimer'
    BY <1>1 DEF Running, SROnce, Once, Has, PostNoTimer
<1>5. Switch!Next
    BY <1>1 DEF Running, Switch!Next, Switch!Request, RmType
<1> QED  BY <1>2, <1>3, <1>4, <1>5 DEF GoodSwitch

(* The handler blocks in the middle. *)
LEMMA BlockGood ==
    ASSUME NEW r, Running(r), IInv,
           NEW place \in {"enWifi", "enWoken", "disWifi", "disWoken", "disLte"},
           Block(r, place)
    PROVE  GoodSwitch
<1>1. rm' = r /\ timer' = FALSE /\ pc' = place
    BY DEF Block, Running, IInv, TypeOK
<1>2. rm' \in RmType /\ pc' \in Places /\ timer' \in BOOLEAN
    BY <1>1 DEF Running, Places
<1>3. OneStepPending'
    BY <1>1, QueuedHas DEF OneStepPending, InHandler, Running
<1>4. SROnce(rm)' /\ PostNoTimer'
    BY <1>1 DEF Running, SROnce, Once, Has, PostNoTimer
<1>5. Switch!Next
    BY <1>1 DEF Running, Switch!Next, Switch!Request, RmType
<1> QED  BY <1>2, <1>3, <1>4, <1>5 DEF GoodSwitch

(* The handler makes the target the active radio. *)
LEMMA CommitGood ==
    ASSUME NEW r, Running(r), r.target = rm.target, IInv, Commit(r)
    PROVE  GoodSwitch
<1> DEFINE s == [r EXCEPT !.active = r.target, !.op = "IDLE", !.switching = FALSE,
                          !.disabled = TRUE]
<1>1. /\ rm' = s /\ timer' = FALSE
      /\ pc' = IF r.target = "DA" THEN "postWifi" ELSE "postLte"
    BY DEF Commit, Block, Running, IInv, TypeOK
<1>2. /\ s \in RmType /\ s.active = rm.target /\ s.target = rm.target /\ ~s.switching
      /\ s.queue = r.queue
    BY DEF Running, RmType
<1> HIDE DEF s
<1>3. rm' \in RmType /\ pc' \in Places /\ timer' \in BOOLEAN
    BY <1>1, <1>2 DEF Places
<1>4. ~Has(rm'.queue)
    BY <1>1, <1>2 DEF Running
<1>5. OneStepPending'
    BY <1>1, <1>2, <1>4, QueuedHas DEF OneStepPending, InHandler
<1>6. SROnce(rm)' /\ PostNoTimer'
    BY <1>1, <1>4 DEF SROnce, Once, Has, PostNoTimer
<1>7. Switch!Next
    BY <1>1, <1>2 DEF Running, Switch!Next, Switch!Finish
<1> QED  BY <1>3, <1>5, <1>6, <1>7 DEF GoodSwitch

(* Any other thread, and the other work items. *)
LEMMA MovesGood ==
    ASSUME IInv, Moves(rm, rm'), timer' = timer, pc' \in Places,
           InHandler' <=> InHandler,
           pc' \in {"postWifi", "postLte"} => pc \in {"postWifi", "postLte"}
    PROVE  GoodSwitch
<1>1. rm' \in RmType /\ timer' \in BOOLEAN /\ SROnce(rm)'
    BY IInvFacts DEF Moves, Quiet, Asks, IInv, SROnce
<1>2. OneStepPending'
    BY QueuedHas DEF Moves, Quiet, Asks, IInv, OneStepPending
<1>3. PostNoTimer'
    BY DEF PostNoTimer, IInv
<1>4. CASE Quiet(rm, rm')
    BY <1>1, <1>2, <1>3, <1>4 DEF Quiet, GoodSwitch, Switch!vars
<1>5. CASE Asks(rm, rm')
  <2>1. Switch!Next
      BY <1>1, <1>5 DEF Asks, Switch!Next, Switch!Request, RmType
  <2> QED  BY <1>1, <1>2, <1>3, <2>1 DEF GoodSwitch
<1> QED  BY <1>4, <1>5 DEF Moves

LEMMA SpendType ==
    ASSUME IInv, NEW fault \in BOOLEAN, Spend(fault)
    PROVE  left' \in LeftType
  BY IInvFacts DEF Spend, LeftType

-----------------------------------------------------------------------------
(* switch_radios_work_handler() *)

LEMMA DisableOtherGood ==
    ASSUME IInv, NEW r, NEW d, Running(r), r.target = rm.target, DisableOther(r, d)
    PROVE  GoodSwitch
<1> DEFINE s == [r EXCEPT !.enabled = TRUE]
<1>1. Running(s) /\ s.target = rm.target
    BY DEF Running, RmType
<1> HIDE DEF s
<1>2. Commit(s) \/ Block(s, "disWifi") \/ Block(s, "disLte")
    BY DEF DisableOther, s
<1> QED  BY <1>1, <1>2, CommitGood, BlockGood

LEMMA TurningOffBrokerGood ==
    ASSUME IInv, NEW r, NEW d \in DaType, Running(r), TurningOffBroker(r, d)
    PROVE  GoodSwitch /\ GoodRest
<1>0. r \in RmType /\ "TURNING_OFF_BROKER" \in Ops /\ lte' \in LteType
    BY IInvFacts DEF Running, Ops, Retries, TurningOffBroker
<1>1. PICK s \in StartOp(r, "TURNING_OFF_BROKER") :
         \/ Rearm(s.r) /\ da' = d /\ (UNCHANGED left \/ Spend(TRUE))
         \/ \E refused \in BOOLEAN :
              LET d1 == [PowerOn(d) EXCEPT !.sleep = "F"]
                  d2 == IF refused THEN d1 ELSE [d1 EXCEPT !.mqtt = "F", !.broker = "F"]
              IN  \E o \in ReturnDaToSleep(Publish(s.r, d1, d2), d2) :
                    Rearm(o.r) /\ da' = o.d /\ Spend(refused \/ o.fault)
    BY DEF TurningOffBroker
<1>2. Running(s.r)
    BY <1>0, StartOpQuiet, RunningQuiet
<1>3. CASE Rearm(s.r) /\ da' = d /\ (UNCHANGED left \/ Spend(TRUE))
    BY <1>0, <1>2, <1>3, RearmGood, SpendType, IInvFacts DEF GoodRest
<1>4. ASSUME NEW refused \in BOOLEAN, NEW d1, NEW d2,
             d1 = [PowerOn(d) EXCEPT !.sleep = "F"],
             d2 = IF refused THEN d1 ELSE [d1 EXCEPT !.mqtt = "F", !.broker = "F"],
             NEW o \in ReturnDaToSleep(Publish(s.r, d1, d2), d2),
             Rearm(o.r), da' = o.d, Spend(refused \/ o.fault)
      PROVE  GoodSwitch /\ GoodRest
  <2>1. d1 \in DaType
      BY <1>4, PowerTypes, DaFields DEF Tri
  <2>2. d2 \in DaType
      BY <1>4, <2>1 DEF DaType, Tri
  <2>3. Running(Publish(s.r, d1, d2)) /\ Publish(s.r, d1, d2) \in RmType
      BY <1>2, PublishQuiet, RunningQuiet DEF Running
  <2>4. Running(o.r) /\ o.d \in DaType /\ o.fault \in BOOLEAN
      BY <2>2, <2>3, ReturnMoves, RunningMoves
  <2>5. GoodSwitch
      BY <1>4, <2>4, RearmGood
  <2>6. (refused \/ o.fault) \in BOOLEAN
      BY <2>4
  <2>7. left' \in LeftType
      BY <1>4, <2>6, SpendType
  <2> QED  BY <1>0, <1>4, <2>4, <2>5, <2>7 DEF GoodRest
<1> QED  BY <1>1, <1>3, <1>4

LEMMA PoweringModemGood ==
    ASSUME IInv, NEW r, NEW d \in DaType, Running(r), PoweringModem(r, d)
    PROVE  GoodSwitch /\ GoodRest
<1>0. r \in RmType /\ "WAIT_FOR_LTE_READY" \in Ops /\ da' \in DaType
    BY DEF Running, Ops, Retries, PoweringModem
<1>1. PICK s \in StartOp(r, "WAIT_FOR_LTE_READY") :
         /\ Rearm(s.r)
         /\ UNCHANGED left \/ Spend(TRUE)
         /\ UNCHANGED lte \/ lte' = [power |-> TRUE, mqtt |-> FALSE]
    BY DEF PoweringModem
<1>2. Running(s.r)
    BY <1>0, StartOpQuiet, RunningQuiet
<1>3. [power |-> TRUE, mqtt |-> FALSE] \in LteType
    BY DEF LteType
<1>4. lte' \in LteType /\ left' \in LeftType
    BY <1>1, <1>3, IInvFacts, SpendType
<1> QED  BY <1>0, <1>1, <1>2, <1>4, RearmGood DEF GoodRest

LEMMA EnablingLteMqttGood ==
    ASSUME IInv, NEW r, NEW d \in DaType, Running(r), EnablingLteMqtt(r, d)
    PROVE  GoodSwitch /\ GoodRest
<1>0. r \in RmType /\ "ENABLING_LTE_MQTT" \in Ops /\ da' \in DaType
    BY DEF Running, Ops, Retries, EnablingLteMqtt
<1>1. PICK s \in StartOp(r, "ENABLING_LTE_MQTT") :
         /\ Rearm(s.r)
         /\ UNCHANGED left \/ Spend(TRUE)
         /\ UNCHANGED lte \/ lte' = [lte EXCEPT !.mqtt = TRUE]
    BY DEF EnablingLteMqtt
<1>2. Running(s.r)
    BY <1>0, StartOpQuiet, RunningQuiet
<1>3. [lte EXCEPT !.mqtt = TRUE] \in LteType
    BY IInvFacts DEF LteType
<1>4. lte' \in LteType /\ left' \in LeftType
    BY <1>1, <1>3, IInvFacts, SpendType
<1> QED  BY <1>0, <1>1, <1>2, <1>4, RearmGood DEF GoodRest

LEMMA EnableLteGood ==
    ASSUME IInv, NEW r, NEW d \in DaType, Running(r), r.target = rm.target, EnableLte(r, d)
    PROVE  GoodSwitch /\ GoodRest
<1>1. \/ TurningOffBroker(r, d) \/ PoweringModem(r, d) \/ EnablingLteMqtt(r, d)
      \/ DisableOther(r, d) /\ da' = d /\ UNCHANGED <<lte, left>>
    BY DEF EnableLte
<1>2. CASE DisableOther(r, d) /\ da' = d /\ UNCHANGED <<lte, left>>
    BY <1>2, DisableOtherGood, IInvFacts DEF GoodRest
<1> QED  BY <1>1, <1>2, TurningOffBrokerGood, PoweringModemGood, EnablingLteMqttGood

LEMMA WifiEnabledGood ==
    ASSUME IInv, NEW r, NEW d \in DaType, Running(r), r.target = rm.target, WifiEnabled(r, d)
    PROVE  GoodSwitch /\ GoodRest
<1>1. \/ EnableLte(r, d)
      \/ DisableOther(r, d) /\ da' = d /\ UNCHANGED <<lte, left>>
    BY DEF WifiEnabled
<1>2. CASE DisableOther(r, d) /\ da' = d /\ UNCHANGED <<lte, left>>
    BY <1>2, DisableOtherGood, IInvFacts DEF GoodRest
<1> QED  BY <1>1, <1>2, EnableLteGood

LEMMA DaCommandGood ==
    ASSUME IInv, NEW r, NEW d \in DaType, Running(r), DaCommand(r, d)
    PROVE  GoodSwitch /\ GoodRest
<1>0. r \in RmType /\ lte' \in LteType
    BY IInvFacts DEF Running, DaCommand
<1>1. CASE Spend(TRUE) /\ Rearm(FailOp(r)) /\ UNCHANGED da
  <2>1. Running(FailOp(r))
      BY <1>0, FailOpQuiet, RunningQuiet
  <2> QED  BY <1>0, <1>1, <2>1, RearmGood, SpendType, IInvFacts DEF GoodRest
<1>2. CASE UNCHANGED left /\ Rearm(Publish(r, da, d)) /\ da' = d
  <2>1. Running(Publish(r, da, d))
      BY <1>0, PublishQuiet, RunningQuiet
  <2> QED  BY <1>0, <1>2, <2>1, RearmGood, IInvFacts DEF GoodRest
<1> QED  BY <1>1, <1>2 DEF DaCommand

LEMMA StartWifiOpGood ==
    ASSUME IInv, NEW r, Running(r), r.target = rm.target, NEW op \in Ops, StartWifiOp(r, op)
    PROVE  GoodSwitch /\ GoodRest
<1>0. r \in RmType /\ da \in DaType /\ lte \in LteType /\ left \in LeftType
    BY IInvFacts DEF Running
<1>1. CASE op = "DISABLING_LTE_MQTT"
  <2>1. CASE UNCHANGED da /\ Spend(TRUE) /\ Rearm(r) /\ UNCHANGED lte
      BY <1>0, <2>1, RearmGood, SpendType DEF GoodRest
  <2>2. CASE /\ UNCHANGED da /\ UNCHANGED left /\ lte' = [lte EXCEPT !.mqtt = FALSE]
             /\ Rearm([r EXCEPT !.queue = Append(@, "LTE")])
    <3>1. [lte EXCEPT !.mqtt = FALSE] \in LteType
        BY <1>0 DEF LteType
    <3>2. Quiet(r, [r EXCEPT !.queue = Append(@, "LTE")])
        BY <1>0, SubmitOther DEF Works
    <3>3. Running([r EXCEPT !.queue = Append(@, "LTE")])
        BY <3>2, RunningQuiet
    <3> QED  BY <1>0, <2>2, <3>1, <3>3, RearmGood DEF GoodRest
  <2> QED  BY <1>1, <2>1, <2>2 DEF StartWifiOp
<1>2. CASE op = "WAKING_DA"
  <2>1. CASE UNCHANGED lte /\ Spend(TRUE) /\ Rearm(FailOp(r)) /\ da' = PowerOn(da)
    <3>1. Running(FailOp(r))
        BY <1>0, FailOpQuiet, RunningQuiet
    <3> QED  BY <1>0, <2>1, <3>1, RearmGood, SpendType, PowerTypes DEF GoodRest
  <2>2. CASE /\ UNCHANGED lte /\ UNCHANGED left /\ Block(r, "enWoken")
             /\ da' = [PowerOn(da) EXCEPT !.sleep = "F"]
    <3>1. da' \in DaType
        BY <1>0, <2>2, PowerTypes, DaFields DEF Tri
    <3> QED  BY <1>0, <2>2, <3>1, BlockGood DEF GoodRest
  <2> QED  BY <1>2, <2>1, <2>2 DEF StartWifiOp
<1>3. CASE op = "STATE_TO_BE_KNOWN"
  <2>1. CASE UNCHANGED lte /\ Spend(TRUE) /\ Rearm(r) /\ UNCHANGED da
      BY <1>0, <2>1, RearmGood, SpendType DEF GoodRest
  <2>2. ASSUME NEW boot \in {"F", "T"}, NEW broker \in {"F", "T"}, NEW d,
               d = [da EXCEPT !.boot = IF @ = "U" THEN boot ELSE @,
                              !.broker = IF @ = "U" THEN broker ELSE @],
               da' = d, Rearm(Publish(r, da, d)), UNCHANGED lte, UNCHANGED left
        PROVE  GoodSwitch /\ GoodRest
    <3>1. d \in DaType
        BY <1>0, <2>2 DEF DaType, Tri
    <3>2. Running(Publish(r, da, d))
        BY <1>0, PublishQuiet, RunningQuiet
    <3> QED  BY <1>0, <2>2, <3>1, <3>2, RearmGood DEF GoodRest
  <2> QED  BY <1>3, <2>1, <2>2 DEF StartWifiOp
<1>4. CASE op = "TURNING_ON_BROKER_BOOT"
  <2>1. DaCommand(r, [da EXCEPT !.boot = "T"])
      BY <1>4 DEF StartWifiOp
  <2> QED  BY <1>0, <2>1, DaCommandGood, DaFields DEF Tri
<1>5. CASE op = "TURNING_ON_BROKER"
  <2>1. DaCommand(r, [da EXCEPT !.mqtt = "T"])
      BY <1>5 DEF StartWifiOp
  <2> QED  BY <1>0, <2>1, DaCommandGood, DaFields DEF Tri
<1>6. CASE op = "SLEEPING_DA"
  <2>1. PICK o \in ReturnDaToSleep(r, da) :
           IF o.ok THEN WifiEnabled(o.r, o.d)
           ELSE Spend(o.fault) /\ Rearm(FailOp(o.r)) /\ da' = o.d /\ UNCHANGED lte
      BY <1>6 DEF StartWifiOp
  <2>2. Quiet(r, o.r) /\ o.d \in DaType /\ o.fault \in BOOLEAN /\ o.ok \in BOOLEAN
      BY <1>0, ReturnMoves DEF Running
  <2>3. Running(o.r) /\ o.r.target = rm.target /\ o.r \in RmType
      BY <2>2, RunningQuiet DEF Quiet
  <2>4. CASE o.ok
      BY <2>1, <2>2, <2>3, <2>4, WifiEnabledGood
  <2>5. CASE ~o.ok
    <3>1. Running(FailOp(o.r))
        BY <2>3, FailOpQuiet, RunningQuiet
    <3> QED  BY <1>0, <2>1, <2>2, <2>5, <3>1, RearmGood, SpendType DEF GoodRest
  <2> QED  BY <2>4, <2>5
<1>7. CASE op \notin {"DISABLING_LTE_MQTT", "WAKING_DA", "STATE_TO_BE_KNOWN",
                      "TURNING_ON_BROKER_BOOT", "TURNING_ON_BROKER", "SLEEPING_DA"}
  <2>1. Rearm(r) /\ UNCHANGED <<da, lte, left>>
      BY <1>7 DEF StartWifiOp
  <2> QED  BY <1>0, <2>1, RearmGood DEF GoodRest
<1> QED  BY <1>1, <1>2, <1>3, <1>4, <1>5, <1>6, <1>7

LEMMA EnableWifiGood ==
    ASSUME IInv, EnableWifi
    PROVE  GoodSwitch /\ GoodRest
<1> DEFINE op == WifiNeeds(rm, da, pc = "enWoken")
<1>0. rm \in RmType /\ da \in DaType /\ lte \in LteType /\ left \in LeftType
    BY IInvFacts
<1>1. Running(rm)
    BY InHandlerRunning DEF EnableWifi, InHandler
<1>2. op \in Ops \cup {"NONE"}
    BY DEF WifiNeeds, Ops, Retries
<1>3. \/ op = "NONE" /\ WifiEnabled(rm, da)
      \/ /\ op # "NONE"
         /\ \E s \in StartOp(rm, op) :
              \/ s.st = "STARTED" /\ StartWifiOp(s.r, op)
              \/ s.st = "STILL_GOING" /\ Rearm(s.r) /\ UNCHANGED <<da, lte, left>>
              \/ s.st = "FAILED" /\ Rearm(SwitchTo(s.r, "LTE")) /\ UNCHANGED <<da, lte, left>>
    BY DEF EnableWifi
<1> HIDE DEF op
<1>4. CASE op = "NONE" /\ WifiEnabled(rm, da)
    BY <1>0, <1>1, <1>4, WifiEnabledGood
<1>5. ASSUME op # "NONE", NEW s \in StartOp(rm, op),
             \/ s.st = "STARTED" /\ StartWifiOp(s.r, op)
             \/ s.st = "STILL_GOING" /\ Rearm(s.r) /\ UNCHANGED <<da, lte, left>>
             \/ s.st = "FAILED" /\ Rearm(SwitchTo(s.r, "LTE")) /\ UNCHANGED <<da, lte, left>>
      PROVE  GoodSwitch /\ GoodRest
  <2>1. Running(s.r) /\ s.r.target = rm.target /\ s.r \in RmType
      BY <1>0, <1>1, <1>2, <1>5, StartOpQuiet, RunningQuiet DEF Quiet
  <2>2. CASE StartWifiOp(s.r, op)
      BY <1>2, <1>5, <2>1, <2>2, StartWifiOpGood
  <2>3. CASE Rearm(s.r) /\ UNCHANGED <<da, lte, left>>
      BY <1>0, <2>1, <2>3, RearmGood DEF GoodRest
  <2>4. CASE Rearm(SwitchTo(s.r, "LTE")) /\ UNCHANGED <<da, lte, left>>
    <3>1. Running(SwitchTo(s.r, "LTE"))
        BY <2>1, SwitchToMoves, RunningMoves DEF Radios
    <3> QED  BY <1>0, <2>4, <3>1, RearmGood DEF GoodRest
  <2> QED  BY <1>5, <2>2, <2>3, <2>4
<1> QED  BY <1>3, <1>4, <1>5

LEMMA WifiDisabledGood ==
    ASSUME IInv, NEW r, Running(r), r.target = rm.target, WifiDisabled(r)
    PROVE  GoodSwitch
<1>1. Block(r, "disLte") \/ Commit(r)
    BY DEF WifiDisabled
<1> QED  BY <1>1, BlockGood, CommitGood

LEMMA WakingToDisableGood ==
    ASSUME IInv, WakingToDisable
    PROVE  GoodSwitch /\ da' \in DaType /\ left' \in LeftType
<1>0. rm \in RmType /\ da \in DaType /\ left \in LeftType /\ "WAKING_DA" \in Ops
    BY IInvFacts DEF Ops, Retries
<1>1. Running(rm)
    BY InHandlerRunning DEF WakingToDisable, InHandler
<1>2. PICK s \in StartOp(rm, "WAKING_DA") :
         \/ Rearm(s.r) /\ UNCHANGED <<da, left>>
         \/ Spend(TRUE) /\ Rearm(FailOp(s.r)) /\ da' = PowerOn(da)
         \/ Block(s.r, "disWoken") /\ UNCHANGED left /\ da' = [PowerOn(da) EXCEPT !.sleep = "F"]
    BY DEF WakingToDisable
<1>3. Running(s.r) /\ s.r \in RmType
    BY <1>0, <1>1, StartOpQuiet, RunningQuiet DEF Quiet
<1>4. CASE Rearm(s.r) /\ UNCHANGED <<da, left>>
    BY <1>0, <1>3, <1>4, RearmGood
<1>5. CASE Spend(TRUE) /\ Rearm(FailOp(s.r)) /\ da' = PowerOn(da)
  <2>1. Running(FailOp(s.r))
      BY <1>3, FailOpQuiet, RunningQuiet
  <2> QED  BY <1>0, <1>5, <2>1, RearmGood, SpendType, PowerTypes
<1>6. CASE Block(s.r, "disWoken") /\ UNCHANGED left /\ da' = [PowerOn(da) EXCEPT !.sleep = "F"]
  <2>1. da' \in DaType
      BY <1>0, <1>6, PowerTypes, DaFields DEF Tri
  <2> QED  BY <1>0, <1>3, <1>6, <2>1, BlockGood
<1> QED  BY <1>2, <1>4, <1>5, <1>6

LEMMA StoppingWifiGood ==
    ASSUME IInv, StoppingWifi
    PROVE  GoodSwitch /\ da' \in DaType /\ left' \in LeftType
<1>0. rm \in RmType /\ da \in DaType /\ left \in LeftType /\ "SLEEPING_DA" \in Ops
    BY IInvFacts DEF Ops, Retries
<1>1. Running(rm)
    BY InHandlerRunning DEF StoppingWifi, InHandler
<1>2a. PICK refused \in BOOLEAN : \E d, r :
         /\ d = IF refused \/ da.mqtt = "F" THEN da ELSE [da EXCEPT !.mqtt = "F", !.broker = "F"]
         /\ r = Publish(rm, da, d)
         /\ \/ Spend(refused) /\ LET d2 == [d EXCEPT !.ap = "F"]
                                 IN  da' = d2 /\ Rearm(Publish(r, d, d2))
            \/ Spend(TRUE) /\ da' = d /\ Rearm(r)
            \/ Spend(refused) /\ da' = d /\ WifiDisabled(r)
            \/ \E s \in StartOp(r, "SLEEPING_DA") :
                 \/ \E o \in ReturnDaToSleep(s.r, d) :
                      /\ Spend(refused \/ o.fault) /\ da' = o.d
                      /\ WifiDisabled(o.r) \/ Rearm(FailOp(o.r))
                 \/ Spend(refused) /\ da' = d /\ Rearm(s.r)
                 \/ /\ Spend(refused)
                    /\ da' = PowerOff(d) /\ WifiDisabled(Publish(s.r, d, PowerOff(d)))
    BY DEF StoppingWifi
<1>2. PICK d, r :
         /\ d = IF refused \/ da.mqtt = "F" THEN da ELSE [da EXCEPT !.mqtt = "F", !.broker = "F"]
         /\ r = Publish(rm, da, d)
         /\ \/ Spend(refused) /\ LET d2 == [d EXCEPT !.ap = "F"]
                                 IN  da' = d2 /\ Rearm(Publish(r, d, d2))
            \/ Spend(TRUE) /\ da' = d /\ Rearm(r)
            \/ Spend(refused) /\ da' = d /\ WifiDisabled(r)
            \/ \E s \in StartOp(r, "SLEEPING_DA") :
                 \/ \E o \in ReturnDaToSleep(s.r, d) :
                      /\ Spend(refused \/ o.fault) /\ da' = o.d
                      /\ WifiDisabled(o.r) \/ Rearm(FailOp(o.r))
                 \/ Spend(refused) /\ da' = d /\ Rearm(s.r)
                 \/ /\ Spend(refused)
                    /\ da' = PowerOff(d) /\ WifiDisabled(Publish(s.r, d, PowerOff(d)))
    BY <1>2a
<1>3. d \in DaType
    BY <1>0, <1>2 DEF DaType, Tri
<1>4. Running(r) /\ r \in RmType /\ r.target = rm.target
    BY <1>0, <1>1, <1>2, PublishQuiet, RunningQuiet DEF Quiet
<1>5. CASE Spend(refused) /\ LET d2 == [d EXCEPT !.ap = "F"]
                             IN  da' = d2 /\ Rearm(Publish(r, d, d2))
  <2>1. Running(Publish(r, d, [d EXCEPT !.ap = "F"]))
      BY <1>4, PublishQuiet, RunningQuiet
  <2>2. [d EXCEPT !.ap = "F"] \in DaType
      BY <1>3, DaFields DEF Tri
  <2> QED  BY <1>5, <2>1, <2>2, RearmGood, SpendType
<1>6. CASE Spend(TRUE) /\ da' = d /\ Rearm(r)
    BY <1>3, <1>4, <1>6, RearmGood, SpendType
<1>7. CASE Spend(refused) /\ da' = d /\ WifiDisabled(r)
    BY <1>3, <1>4, <1>7, WifiDisabledGood, SpendType
<1>8. ASSUME NEW s \in StartOp(r, "SLEEPING_DA"),
             \/ \E o \in ReturnDaToSleep(s.r, d) :
                  /\ Spend(refused \/ o.fault) /\ da' = o.d
                  /\ WifiDisabled(o.r) \/ Rearm(FailOp(o.r))
             \/ Spend(refused) /\ da' = d /\ Rearm(s.r)
             \/ /\ Spend(refused)
                /\ da' = PowerOff(d) /\ WifiDisabled(Publish(s.r, d, PowerOff(d)))
      PROVE  GoodSwitch /\ da' \in DaType /\ left' \in LeftType
  <2>1. Running(s.r) /\ s.r \in RmType /\ s.r.target = rm.target
      BY <1>0, <1>4, StartOpQuiet, RunningQuiet DEF Quiet
  <2>2. ASSUME NEW o \in ReturnDaToSleep(s.r, d), Spend(refused \/ o.fault), da' = o.d,
               WifiDisabled(o.r) \/ Rearm(FailOp(o.r))
        PROVE  GoodSwitch /\ da' \in DaType /\ left' \in LeftType
    <3>1. Quiet(s.r, o.r) /\ o.d \in DaType /\ o.fault \in BOOLEAN
        BY <1>3, <2>1, ReturnMoves DEF Running
    <3>2. Running(o.r) /\ o.r \in RmType /\ o.r.target = rm.target
        BY <2>1, <3>1, RunningQuiet DEF Quiet
    <3>3. Running(FailOp(o.r))
        BY <3>2, FailOpQuiet, RunningQuiet
    <3>4. (refused \/ o.fault) \in BOOLEAN
        BY <3>1
    <3>5. left' \in LeftType
        BY <2>2, <3>4, SpendType
    <3> QED  BY <2>2, <3>1, <3>2, <3>3, <3>5, WifiDisabledGood, RearmGood
  <2>3. CASE Spend(refused) /\ da' = d /\ Rearm(s.r)
      BY <1>3, <2>1, <2>3, RearmGood, SpendType
  <2>4. CASE /\ Spend(refused)
             /\ da' = PowerOff(d) /\ WifiDisabled(Publish(s.r, d, PowerOff(d)))
    <3>1. Quiet(s.r, Publish(s.r, d, PowerOff(d)))
        BY <2>1, PublishQuiet
    <3>2. Running(Publish(s.r, d, PowerOff(d))) /\ Publish(s.r, d, PowerOff(d)).target = rm.target
        BY <2>1, <3>1, RunningQuiet DEF Quiet
    <3> QED  BY <1>3, <2>4, <3>2, WifiDisabledGood, SpendType, PowerTypes
  <2> QED  BY <1>8, <2>2, <2>3, <2>4
<1> QED  BY <1>2, <1>5, <1>6, <1>7, <1>8

LEMMA DisableLteGood ==
    ASSUME IInv, DisableLte
    PROVE  GoodSwitch /\ GoodRest
<1>0. rm \in RmType /\ da' \in DaType /\ lte \in LteType /\ left \in LeftType
    BY IInvFacts DEF DisableLte
<1>1. Running(rm)
    BY InHandlerRunning DEF DisableLte, InHandler
<1>2. CASE Commit(rm) /\ UNCHANGED <<lte, left>>
    BY <1>0, <1>1, <1>2, CommitGood DEF GoodRest
<1>3. CASE Commit(rm) /\ Spend(TRUE) /\ UNCHANGED lte
    BY <1>0, <1>1, <1>3, CommitGood, SpendType DEF GoodRest
<1>4. CASE /\ UNCHANGED left /\ lte' = [power |-> FALSE, mqtt |-> FALSE]
           /\ Commit(IF lte.mqtt THEN [rm EXCEPT !.queue = Append(@, "LTE")] ELSE rm)
  <2>1. Quiet(rm, [rm EXCEPT !.queue = Append(@, "LTE")])
      BY <1>0, SubmitOther DEF Works
  <2>2. /\ Running([rm EXCEPT !.queue = Append(@, "LTE")])
        /\ [rm EXCEPT !.queue = Append(@, "LTE")].target = rm.target
      BY <1>1, <2>1, RunningQuiet
  <2>3. GoodSwitch
      BY <1>1, <1>4, <2>2, CommitGood
  <2>4. lte' \in LteType
      BY <1>4 DEF LteType
  <2> QED  BY <1>0, <1>4, <2>3, <2>4 DEF GoodRest
<1> QED  BY <1>2, <1>3, <1>4 DEF DisableLte

(* The handler takes SR_work out of the queue, where it was alone. *)
LEMMA TakesSR ==
    ASSUME IInv, Takes("SR")
    PROVE  Running(Rest) /\ Rest.target = rm.target
<1>0. rm \in RmType /\ rm.queue \in Seq(Works) /\ Len(rm.queue) > 0 /\ Head(rm.queue) = "SR"
    BY IInvFacts DEF Takes
<1>1. Tail(rm.queue) \in Seq(Works) /\ Has(rm.queue) /\ ~Has(Tail(rm.queue))
    BY <1>0, TailLemma DEF IInv, SROnce
<1>2. Rest.queue = Tail(rm.queue) /\ Rest.target = rm.target /\ Rest.active = rm.active
      /\ Rest.switching = rm.switching
    BY <1>0 DEF Rest, RmType
<1>3. Rest \in RmType
    BY <1>0, <1>1 DEF Rest, RmType
<1>4. rm.switching /\ ~timer
    BY <1>1, QueuedHas DEF IInv, OneStepPending
<1> QED  BY <1>1, <1>2, <1>3, <1>4 DEF Running

LEMMA SwitchRadiosGood ==
    ASSUME IInv, SwitchRadios
    PROVE  GoodSwitch /\ GoodRest
<1>0. rm \in RmType /\ da \in DaType /\ lte \in LteType /\ left \in LeftType
    BY IInvFacts
<1>1. Running(Rest) /\ Rest.target = rm.target
    BY TakesSR DEF SwitchRadios
<1>2. CASE Rearm(Rest) /\ UNCHANGED <<da, lte, left>>
    BY <1>0, <1>1, <1>2, RearmGood DEF GoodRest
<1>3. CASE DisableOther(Rest, da) /\ UNCHANGED <<da, lte, left>>
    BY <1>0, <1>1, <1>3, DisableOtherGood DEF GoodRest
<1>4. CASE EnableLte(Rest, da)
    BY <1>0, <1>1, <1>4, EnableLteGood
<1>5. CASE Block(Rest, "enWifi") /\ da' = PowerOn(da) /\ UNCHANGED <<lte, left>>
    BY <1>0, <1>1, <1>5, BlockGood, PowerTypes DEF GoodRest
<1> QED  BY <1>2, <1>3, <1>4, <1>5 DEF SwitchRadios

LEMMA AfterSwitchGood ==
    ASSUME IInv, AfterSwitch
    PROVE  GoodSwitch /\ GoodRest
<1>0. rm \in RmType /\ da \in DaType /\ lte' \in LteType /\ left \in LeftType
    BY IInvFacts DEF AfterSwitch
<1>1. /\ timer' = timer /\ pc' \in Places /\ ~InHandler /\ ~InHandler'
      /\ pc' \notin {"postWifi", "postLte"}
    BY DEF AfterSwitch, InHandler, IInv, PostNoTimer, TypeOK, Places
<1>2. CASE rm' = rm /\ UNCHANGED <<da, left>>
  <2>1. Moves(rm, rm')
      BY <1>0, <1>2, QuietRefl DEF Moves
  <2> QED  BY <1>0, <1>1, <1>2, <2>1, MovesGood DEF GoodRest
<1>3. ASSUME NEW o \in ReturnDaToSleep(rm, da), rm' = o.r, da' = o.d, Spend(o.fault)
      PROVE  GoodSwitch /\ GoodRest
  <2>1. Moves(rm, rm') /\ da' \in DaType /\ o.fault \in BOOLEAN
      BY <1>0, <1>3, ReturnMoves
  <2> QED  BY <1>0, <1>1, <1>3, <2>1, MovesGood, SpendType DEF GoodRest
<1> QED  BY <1>2, <1>3 DEF AfterSwitch

-----------------------------------------------------------------------------
(* The other work items of radioMgr_work_q *)

(* Another item is taken out of the queue. *)
LEMMA RestQuiet ==
    ASSUME IInv, NEW w \in Works \ {"SR"}, Takes(w)
    PROVE  Quiet(rm, Rest) /\ pc = "idle"
<1>0. /\ rm \in RmType /\ rm.queue \in Seq(Works) /\ Len(rm.queue) > 0
      /\ Head(rm.queue) # "SR" /\ pc = "idle"
    BY IInvFacts DEF Takes
<1>1. /\ Tail(rm.queue) \in Seq(Works) /\ (Has(Tail(rm.queue)) <=> Has(rm.queue))
      /\ Once(rm.queue) => Once(Tail(rm.queue))
    BY <1>0, TailLemma
<1>2. /\ Rest.queue = Tail(rm.queue) /\ Rest.target = rm.target /\ Rest.active = rm.active
      /\ Rest.switching = rm.switching
    BY <1>0 DEF Rest, RmType
<1>3. Rest \in RmType
    BY <1>0, <1>1 DEF Rest, RmType
<1> QED  BY <1>0, <1>1, <1>2, <1>3 DEF Quiet, SROnce

(* A handler that was idle, or past rm_prepare_radio_for_use(), returns. *)
LEMMA ReturnGood ==
    ASSUME IInv, NEW r, Moves(rm, r), pc \in {"idle", "apPrepared"},
           (rm' = r /\ pc' \in {"idle", "apPrepared"} /\ UNCHANGED timer)
    PROVE  GoodSwitch
<1>1. /\ pc' \in Places /\ ~InHandler /\ ~InHandler'
      /\ pc' \notin {"postWifi", "postLte"}
    BY DEF InHandler, Places
<1> QED  BY <1>1, MovesGood

(* Flags that have nothing to do with the switch. *)
LEMMA FlagsQuiet ==
    ASSUME NEW r \in RmType, NEW b \in BOOLEAN, NEW c \in BOOLEAN
    PROVE  /\ Quiet(r, [r EXCEPT !.connecting = b])
           /\ Quiet(r, [r EXCEPT !.connecting = b, !.disconnectFirst = c])
           /\ Quiet(r, [r EXCEPT !.useWifi = b])
           /\ Quiet(r, [r EXCEPT !.useSleep = b])
           /\ Quiet(r, [r EXCEPT !.prepped = b])
           /\ Quiet(r, [r EXCEPT !.plugged = b])
           /\ Quiet(r, [r EXCEPT !.lastPlugged = b])
           /\ Quiet(r, [r EXCEPT !.useSleep = b, !.prepped = c])
  BY DEF Quiet, RmType, SROnce

LEMMA MovesType == ASSUME NEW r, NEW s, Moves(r, s) PROVE s \in RmType
  BY DEF Moves, Quiet, Asks

LEMMA QuietMoves == ASSUME NEW r, NEW s, Quiet(r, s) PROVE Moves(r, s)
  BY DEF Moves

LEMMA ConnectToApGood ==
    ASSUME IInv, ConnectToAp
    PROVE  GoodSwitch /\ GoodRest
<1>0. da \in DaType /\ lte' \in LteType /\ left \in LeftType
    BY IInvFacts DEF ConnectToAp
<1>1. Moves(rm, Rest) /\ Rest \in RmType /\ pc = "idle"
    BY RestQuiet, QuietMoves, MovesType DEF ConnectToAp, Works
<1>2. CASE Return(Rest) /\ UNCHANGED <<da, left>>
    BY <1>0, <1>1, <1>2, ReturnGood DEF Return, GoodRest
<1>3. CASE /\ Spend(TRUE) /\ Return([Rest EXCEPT !.connecting = FALSE])
           /\ da' \in {da, PowerOn(da)}
  <2>1. Moves(rm, [Rest EXCEPT !.connecting = FALSE])
      BY <1>1, FlagsQuiet, QuietMoves, MovesTrans
  <2> QED  BY <1>0, <1>1, <1>3, <2>1, ReturnGood, SpendType, PowerTypes DEF Return, GoodRest
<1>4. ASSUME UNCHANGED left, NEW d,
             d = [PowerOn(da) EXCEPT !.sleep = "F",
                                     !.ap = IF rm.disconnectFirst THEN "F" ELSE @],
             da' = d, Block(Publish(Rest, da, d), "apPrepared")
      PROVE  GoodSwitch /\ GoodRest
  <2>1. Moves(rm, Publish(Rest, da, d))
      BY <1>1, PublishQuiet, QuietMoves, MovesTrans
  <2>2. PowerOn(da) \in DaType
      BY <1>0, PowerTypes
  <2>3. d \in DaType
      BY <1>4, <2>2 DEF DaType, Tri
  <2>4. GoodSwitch
      BY <1>1, <1>4, <2>1, ReturnGood DEF Block
  <2> QED  BY <1>0, <1>4, <2>3, <2>4 DEF GoodRest
<1> QED  BY <1>2, <1>3, <1>4 DEF ConnectToAp

LEMMA ConnectedToApGood ==
    ASSUME IInv, ConnectedToAp
    PROVE  GoodSwitch /\ GoodRest
<1>0. rm \in RmType /\ da \in DaType /\ lte' \in LteType /\ left \in LeftType
    BY IInvFacts DEF ConnectedToAp
<1>1a. PICK connected \in BOOLEAN : \E d1, d2, r :
         /\ d1 = IF connected THEN [da EXCEPT !.ap = "T"] ELSE da
         /\ d2 = IF connected THEN [d1 EXCEPT !.mqtt = "U", !.broker = "U"] ELSE d1
         /\ r = IF connected THEN SwitchTo(Publish(rm, da, d1), "DA") ELSE rm
         /\ \E o \in ReturnDaToSleep(r, d2) :
              /\ Return([o.r EXCEPT !.connecting = FALSE])
              /\ da' = o.d /\ Spend(~connected \/ o.fault)
    BY DEF ConnectedToAp
<1>1. PICK d1, d2, r :
         /\ d1 = IF connected THEN [da EXCEPT !.ap = "T"] ELSE da
         /\ d2 = IF connected THEN [d1 EXCEPT !.mqtt = "U", !.broker = "U"] ELSE d1
         /\ r = IF connected THEN SwitchTo(Publish(rm, da, d1), "DA") ELSE rm
         /\ \E o \in ReturnDaToSleep(r, d2) :
              /\ Return([o.r EXCEPT !.connecting = FALSE])
              /\ da' = o.d /\ Spend(~connected \/ o.fault)
    BY <1>1a
<1>2. d1 \in DaType
    BY <1>0, <1>1, DaFields DEF Tri
<1>3. d2 \in DaType
    BY <1>1, <1>2 DEF DaType, Tri
<1>4. Moves(rm, r) /\ r \in RmType
  <2>1. Moves(rm, rm)
      BY <1>0, QuietRefl, QuietMoves
  <2>2. Moves(rm, Publish(rm, da, d1)) /\ Publish(rm, da, d1) \in RmType
      BY <1>0, PublishQuiet, QuietMoves, MovesType
  <2>3. Moves(Publish(rm, da, d1), SwitchTo(Publish(rm, da, d1), "DA"))
      BY <2>2, SwitchToMoves DEF Radios
  <2>4. Moves(rm, SwitchTo(Publish(rm, da, d1), "DA"))
      BY <2>2, <2>3, MovesTrans
  <2> QED  BY <1>1, <2>1, <2>4, MovesType
<1>5. PICK o \in ReturnDaToSleep(r, d2) :
         /\ Return([o.r EXCEPT !.connecting = FALSE])
         /\ da' = o.d /\ Spend(~connected \/ o.fault)
    BY <1>1
<1>6. Moves(r, o.r) /\ o.d \in DaType /\ o.fault \in BOOLEAN /\ o.r \in RmType
    BY <1>3, <1>4, ReturnMoves, MovesType
<1>7. Moves(rm, [o.r EXCEPT !.connecting = FALSE])
  <2>1. Moves(o.r, [o.r EXCEPT !.connecting = FALSE])
      BY <1>6, FlagsQuiet, QuietMoves
  <2> QED  BY <1>4, <1>6, <2>1, MovesTrans
<1>8. (~connected \/ o.fault) \in BOOLEAN
    BY <1>6
<1>9. left' \in LeftType
    BY <1>5, <1>8, SpendType
<1>10. GoodSwitch
    BY <1>5, <1>7, ReturnGood DEF ConnectedToAp, Return
<1> QED  BY <1>0, <1>5, <1>6, <1>9, <1>10 DEF GoodRest

LEMMA DaApEventGood ==
    ASSUME IInv, DaApEvent
    PROVE  GoodSwitch /\ GoodRest
<1>0. da \in DaType /\ lte' \in LteType /\ left \in LeftType
    BY IInvFacts DEF DaApEvent
<1>1. Moves(rm, Rest) /\ Rest \in RmType /\ pc = "idle"
    BY RestQuiet, QuietMoves, MovesType DEF DaApEvent, Works
<1>2. CASE Return(Rest) /\ UNCHANGED <<da, left>>
    BY <1>0, <1>1, <1>2, ReturnGood DEF Return, GoodRest
<1>3. ASSUME NEW r, r = SwitchTo(Rest, "LTE") \/ r = Rest, NEW o \in ReturnDaToSleep(r, da),
             Return(o.r), da' = o.d, Spend(o.fault)
      PROVE  GoodSwitch /\ GoodRest
  <2>1. Moves(Rest, SwitchTo(Rest, "LTE"))
      BY <1>1, SwitchToMoves DEF Radios
  <2>2. Moves(rm, r) /\ r \in RmType
      BY <1>1, <1>3, <2>1, MovesTrans, MovesType
  <2>3. Moves(rm, o.r) /\ o.d \in DaType /\ o.fault \in BOOLEAN
      BY <1>0, <2>2, ReturnMoves, MovesTrans
  <2> QED  BY <1>0, <1>1, <1>3, <2>3, ReturnGood, SpendType DEF Return, GoodRest
<1> QED  BY <1>2, <1>3 DEF DaApEvent

(* The events after which the manager at most asks for LTE. *)
LEMMA SimpleEventGood ==
    ASSUME IInv, NEW w \in Works \ {"SR"}, Takes(w), NEW r,
           r = SwitchTo(Rest, "LTE") \/ r = Rest,
           Return(r), UNCHANGED <<da, lte, left>>
    PROVE  GoodSwitch /\ GoodRest
<1>1. Moves(rm, Rest) /\ Rest \in RmType /\ pc = "idle"
    BY RestQuiet, QuietMoves, MovesType
<1>2. Moves(Rest, SwitchTo(Rest, "LTE"))
    BY <1>1, SwitchToMoves DEF Radios
<1>3. Moves(rm, r)
    BY <1>1, <1>2, MovesTrans
<1> QED  BY <1>1, <1>3, IInvFacts, ReturnGood DEF Return, GoodRest

LEMMA UsbBtEventGood ==
    ASSUME IInv, UsbBtEvent
    PROVE  GoodSwitch /\ GoodRest
<1> DEFINE seen == [Rest EXCEPT !.lastPlugged = rm.plugged]
           d == [da EXCEPT !.ap = "F"]
<1>0. da \in DaType /\ d \in DaType /\ lte' \in LteType /\ left \in LeftType
    BY IInvFacts, DaFields DEF UsbBtEvent, Tri
<1>1. Moves(rm, Rest) /\ Rest \in RmType /\ pc = "idle" /\ rm.plugged \in BOOLEAN
    BY RestQuiet, QuietMoves, MovesType, IInvFacts DEF UsbBtEvent, Works, RmType
<1>2. Moves(rm, seen) /\ seen \in RmType
    BY <1>1, FlagsQuiet, QuietMoves, MovesTrans, MovesType
<1>3. \/ Return(Rest) /\ UNCHANGED <<da, left>>
      \/ Return(seen) /\ UNCHANGED <<da, left>>
      \/ Return(Rest) /\ Spend(TRUE) /\ UNCHANGED da
      \/ /\ UNCHANGED left /\ da' = [PowerOn(d) EXCEPT !.sleep = "F"]
         /\ Return([seen EXCEPT !.useSleep = FALSE, !.prepped = TRUE])
      \/ \E o \in ReturnDaToSleep([seen EXCEPT !.useSleep = TRUE], d) :
           da' = o.d /\ Spend(o.fault) /\ Return([o.r EXCEPT !.prepped = FALSE])
    BY DEF UsbBtEvent
<1> HIDE DEF seen, d
<1>4. CASE Return(Rest) /\ UNCHANGED <<da, left>>
    BY <1>0, <1>1, <1>4, ReturnGood DEF Return, GoodRest
<1>5. CASE Return(seen) /\ UNCHANGED <<da, left>>
    BY <1>0, <1>1, <1>2, <1>5, ReturnGood DEF Return, GoodRest
<1>6. CASE Return(Rest) /\ Spend(TRUE) /\ UNCHANGED da
    BY <1>0, <1>1, <1>6, ReturnGood, SpendType DEF Return, GoodRest
<1>7. CASE /\ UNCHANGED left /\ da' = [PowerOn(d) EXCEPT !.sleep = "F"]
           /\ Return([seen EXCEPT !.useSleep = FALSE, !.prepped = TRUE])
  <2>1. Moves(rm, [seen EXCEPT !.useSleep = FALSE, !.prepped = TRUE])
      BY <1>2, FlagsQuiet, QuietMoves, MovesTrans
  <2>2. da' \in DaType
      BY <1>0, <1>7, PowerTypes, DaFields DEF Tri
  <2> QED  BY <1>0, <1>1, <1>7, <2>1, <2>2, ReturnGood DEF Return, GoodRest
<1>8. ASSUME NEW o \in ReturnDaToSleep([seen EXCEPT !.useSleep = TRUE], d),
             da' = o.d, Spend(o.fault), Return([o.r EXCEPT !.prepped = FALSE])
      PROVE  GoodSwitch /\ GoodRest
  <2>1. Moves(rm, [seen EXCEPT !.useSleep = TRUE]) /\ [seen EXCEPT !.useSleep = TRUE] \in RmType
      BY <1>2, FlagsQuiet, QuietMoves, MovesTrans, MovesType
  <2>2. Moves(rm, o.r) /\ o.r \in RmType /\ o.d \in DaType /\ o.fault \in BOOLEAN
      BY <1>0, <2>1, ReturnMoves, MovesTrans, MovesType
  <2>3. Moves(rm, [o.r EXCEPT !.prepped = FALSE])
      BY <2>2, FlagsQuiet, QuietMoves, MovesTrans
  <2> QED  BY <1>0, <1>1, <1>8, <2>2, <2>3, ReturnGood, SpendType DEF Return, GoodRest
<1> QED  BY <1>3, <1>4, <1>5, <1>6, <1>7, <1>8

LEMMA EventsGood ==
    ASSUME IInv, DaMqttEvent \/ DaBrokerEvent \/ LteEvent
    PROVE  GoodSwitch /\ GoodRest
<1>1. CASE DaMqttEvent
  <2>1. PICK r : (r = SwitchTo(Rest, "LTE") \/ r = Rest) /\ Return(r)
      BY <1>1 DEF DaMqttEvent
  <2> QED  BY <1>1, <2>1, SimpleEventGood DEF DaMqttEvent, Works
<1>2. CASE DaBrokerEvent
    BY <1>2, SimpleEventGood DEF DaBrokerEvent, Works
<1>3. CASE LteEvent
  <2>1. PICK r : (r = SwitchTo(Rest, "LTE") \/ r = Rest) /\ Return(r)
      BY <1>3 DEF LteEvent
  <2> QED  BY <1>3, <2>1, SimpleEventGood DEF LteEvent, Works
<1> QED  BY <1>1, <1>2, <1>3

-----------------------------------------------------------------------------
(* Other threads and interrupts *)

LEMMA TimerFiresGood ==
    ASSUME IInv, TimerFires
    PROVE  GoodSwitch
<1>1. timer /\ timer' = FALSE /\ rm' = Submit(rm, "SR") /\ pc' = pc
    BY DEF TimerFires
<1>2. /\ rm' \in RmType /\ Has(rm'.queue) /\ SROnce(rm)'
      /\ rm'.active = rm.active /\ rm'.target = rm.target /\ rm'.switching = rm.switching
    BY <1>1, SubmitSR, IInvFacts DEF IInv, SROnce
<1>3. rm.switching /\ ~InHandler
    BY <1>1 DEF IInv, OneStepPending
<1>4. OneStepPending'
    BY <1>1, <1>2, <1>3, QueuedHas DEF OneStepPending, InHandler
<1>5. PostNoTimer' /\ pc' \in Places /\ timer' \in BOOLEAN
    BY <1>1, IInvFacts DEF PostNoTimer
<1> QED  BY <1>2, <1>4, <1>5 DEF GoodSwitch, Switch!vars

(* A step of another thread changes neither pc nor the timer. *)
LEMMA ElsewhereGood ==
    ASSUME IInv, Moves(rm, rm'), UNCHANGED <<pc, timer>>
    PROVE  GoodSwitch
  BY MovesGood, IInvFacts DEF InHandler

LEMMA CallGood ==
    ASSUME IInv, NEW r, Moves(rm, r), Call(r)
    PROVE  GoodStep
<1>1. rm' = r /\ UNCHANGED <<da, lte, pc, timer, uptime8s>>
      /\ left.reqs > 0 /\ left' = [left EXCEPT !.reqs = @ - 1]
    BY DEF Call
<1>2. left' \in LeftType
    BY <1>1, IInvFacts DEF LeftType
<1> QED  BY <1>1, <1>2, ElsewhereGood, IInvFacts DEF GoodStep, GoodRest

LEMMA CallsGood ==
    ASSUME IInv,
           \/ RequestLte \/ UseConnectedAp \/ RequestConnect
           \/ WifiOff \/ WifiOn \/ PowerSourceChanges
    PROVE  GoodStep
<1>0. rm \in RmType /\ rm.queue \in Seq(Works)
    BY IInvFacts
<1>1. CASE RequestLte
    BY <1>0, <1>1, SwitchToMoves, CallGood DEF RequestLte, Radios
<1>2. CASE UseConnectedAp
    BY <1>0, <1>2, SwitchToMoves, CallGood DEF UseConnectedAp, Radios
<1>3. CASE RequestConnect
  <2>1. PICK first \in BOOLEAN :
           Call(Submit([rm EXCEPT !.connecting = TRUE, !.disconnectFirst = first], "CONNECT"))
      BY <1>3 DEF RequestConnect
  <2> DEFINE r == [rm EXCEPT !.connecting = TRUE, !.disconnectFirst = first]
  <2>2. Quiet(rm, r) /\ r \in RmType
      BY <1>0, FlagsQuiet DEF Quiet
  <2> HIDE DEF r
  <2>3. Quiet(r, Submit(r, "CONNECT"))
      BY <2>2, SubmitOther DEF Works
  <2>4. Moves(rm, Submit(r, "CONNECT"))
      BY <2>2, <2>3, MovesTrans DEF Moves
  <2> QED  BY <2>1, <2>4, CallGood DEF r
<1>4. CASE WifiOff
  <2> DEFINE r == [rm EXCEPT !.useWifi = FALSE]
  <2>1. Moves(rm, r) /\ r \in RmType
      BY <1>0, FlagsQuiet, QuietMoves, MovesType
  <2>2. Call(SwitchTo(r, "LTE")) \/ Call(r)
      BY <1>4 DEF WifiOff
  <2> HIDE DEF r
  <2>3. Moves(rm, SwitchTo(r, "LTE"))
      BY <2>1, SwitchToMoves, MovesTrans DEF Radios
  <2> QED  BY <2>1, <2>2, <2>3, CallGood
<1>5. CASE WifiOn
    BY <1>0, <1>5, FlagsQuiet, QuietMoves, CallGood DEF WifiOn
<1>6. CASE PowerSourceChanges
  <2> DEFINE r == [rm EXCEPT !.plugged = ~@]
  <2>1. Moves(rm, r) /\ r \in RmType
      BY <1>0, FlagsQuiet, QuietMoves, MovesType DEF RmType
  <2>2. Call([r EXCEPT !.queue = Append(@, "USB")])
      BY <1>0, <1>6 DEF PowerSourceChanges, RmType
  <2> HIDE DEF r
  <2>3. Moves(rm, [r EXCEPT !.queue = Append(@, "USB")])
      BY <2>1, SubmitOther, QuietMoves, MovesTrans DEF Works
  <2> QED  BY <2>2, <2>3, CallGood
<1> QED  BY <1>1, <1>2, <1>3, <1>4, <1>5, <1>6

LEMMA SetbackType ==
    ASSUME IInv, Setback
    PROVE  left' \in LeftType
  BY IInvFacts DEF Setback, LeftType

LEMMA RadiosGood ==
    ASSUME IInv, BrokerConnects \/ ApLost \/ ApBack \/ BrokerLost \/ SleepChanges \/ LteMqttLost
    PROVE  GoodStep
<1>0. rm \in RmType /\ da \in DaType /\ lte \in LteType /\ left \in LeftType /\ uptime8s \in BOOLEAN
    BY IInvFacts
<1>1. ASSUME NEW d \in DaType, DaReports(d), left' \in LeftType
      PROVE  GoodStep
  <2>1. Moves(rm, rm')
      BY <1>0, <1>1, PublishQuiet, QuietMoves DEF DaReports
  <2> QED  BY <1>0, <1>1, <2>1, ElsewhereGood DEF DaReports, GoodStep, GoodRest
<1>2. CASE BrokerConnects
  <2>1. [da EXCEPT !.broker = "T"] \in DaType
      BY <1>0, DaFields DEF Tri
  <2> QED  BY <1>0, <1>1, <1>2, <2>1 DEF BrokerConnects
<1>3. CASE ApLost
  <2>1. [da EXCEPT !.ap = "F", !.broker = "F"] \in DaType
      BY <1>0 DEF DaType, Tri
  <2> QED  BY <1>1, <1>3, <2>1, SetbackType DEF ApLost
<1>4. CASE ApBack
  <2>1. [da EXCEPT !.ap = "T"] \in DaType
      BY <1>0, DaFields DEF Tri
  <2> QED  BY <1>1, <1>4, <2>1, SetbackType DEF ApBack
<1>5. CASE BrokerLost
  <2>1. [da EXCEPT !.broker = "F"] \in DaType
      BY <1>0, DaFields DEF Tri
  <2> QED  BY <1>1, <1>5, <2>1, SetbackType DEF BrokerLost
<1>6. CASE SleepChanges
  <2>1. \A v \in Tri : [da EXCEPT !.sleep = v] \in DaType
      BY <1>0, DaFields
  <2> QED  BY <1>1, <1>6, <2>1, SetbackType DEF SleepChanges
<1>7. CASE LteMqttLost
  <2>1. Moves(rm, rm')
      BY <1>0, <1>7, SubmitOther, QuietMoves DEF LteMqttLost, Works
  <2>2. [lte EXCEPT !.mqtt = FALSE] \in LteType
      BY <1>0 DEF LteType
  <2> QED  BY <1>0, <1>7, <2>1, <2>2, ElsewhereGood, SetbackType
              DEF LteMqttLost, GoodStep, GoodRest
<1> QED  BY <1>2, <1>3, <1>4, <1>5, <1>6, <1>7

-----------------------------------------------------------------------------
(* The invariant holds at first, and every step preserves it *)

LEMMA InitIInv ==
    ASSUME Init
    PROVE  IInv /\ Switch!Init
<1>1. rm \in RmType /\ da \in DaType /\ left \in LeftType
    BY BoundsAssumption DEF Init, RmType, DaType, LeftType, Tri, Radios, Works
<1>2. lte \in LteType /\ pc \in Places /\ timer \in BOOLEAN /\ uptime8s \in BOOLEAN
    BY DEF Init, LteType, Places
<1>3. rm.queue = <<>> /\ ~rm.switching /\ ~timer /\ pc = "idle"
    BY DEF Init
<1>4. ~Has(rm.queue)
    BY <1>3 DEF Has
<1>5. OneStepPending /\ SROnce(rm) /\ PostNoTimer
    BY <1>3, <1>4, QueuedHas DEF OneStepPending, InHandler, SROnce, Once, Has, PostNoTimer
<1>6. Switch!Init
    BY DEF Init, Switch!Init, Radios
<1> QED  BY <1>1, <1>2, <1>5, <1>6 DEF IInv, TypeOK, LteType, LeftType

(* Every step preserves the invariant and is a step of RadioSwitch. *)
LEMMA NextGood ==
    ASSUME IInv, [Next]_vars
    PROVE  IInv' /\ [Switch!Next]_(Switch!vars)
<1>1. ASSUME GoodStep PROVE IInv' /\ [Switch!Next]_(Switch!vars)
    BY <1>1 DEF GoodStep, GoodSwitch, GoodRest, IInv, TypeOK, LteType, LeftType
<1>2. ASSUME GoodSwitch, GoodRest, UNCHANGED uptime8s PROVE GoodStep
    BY <1>2, IInvFacts DEF GoodStep
<1>3. CASE SwitchRadios
    BY <1>1, <1>2, <1>3, SwitchRadiosGood DEF SwitchRadios
<1>4. CASE EnableWifi
    BY <1>1, <1>2, <1>4, EnableWifiGood DEF EnableWifi
<1>5. CASE DisableWifi
  <2>1. GoodSwitch /\ GoodRest
      BY <1>5, WakingToDisableGood, StoppingWifiGood, IInvFacts DEF DisableWifi, GoodRest
  <2> QED  BY <1>1, <1>2, <1>5, <2>1 DEF DisableWifi
<1>6. CASE DisableLte
    BY <1>1, <1>2, <1>6, DisableLteGood DEF DisableLte
<1>7. CASE AfterSwitch
    BY <1>1, <1>2, <1>7, AfterSwitchGood DEF AfterSwitch
<1>8. CASE ConnectToAp
    BY <1>1, <1>2, <1>8, ConnectToApGood DEF ConnectToAp
<1>9. CASE ConnectedToAp
    BY <1>1, <1>2, <1>9, ConnectedToApGood DEF ConnectedToAp
<1>10. CASE DaApEvent
    BY <1>1, <1>2, <1>10, DaApEventGood DEF DaApEvent
<1>11. CASE DaMqttEvent \/ DaBrokerEvent \/ LteEvent
    BY <1>1, <1>2, <1>11, EventsGood DEF DaMqttEvent, DaBrokerEvent, LteEvent
<1>12. CASE UsbBtEvent
    BY <1>1, <1>2, <1>12, UsbBtEventGood DEF UsbBtEvent
<1>13. CASE TimerFires
    BY <1>1, <1>2, <1>13, TimerFiresGood, IInvFacts DEF TimerFires, GoodRest
<1>14. CASE EightSecondsUp
  <2>1. Moves(rm, rm')
      BY <1>14, IInvFacts, QuietRefl, QuietMoves DEF EightSecondsUp
  <2> QED  BY <1>1, <1>14, <2>1, ElsewhereGood, IInvFacts DEF EightSecondsUp, GoodStep, GoodRest
<1>15. CASE \/ RequestLte \/ UseConnectedAp \/ RequestConnect
            \/ WifiOff \/ WifiOn \/ PowerSourceChanges
    BY <1>1, <1>15, CallsGood
<1>16. CASE BrokerConnects \/ ApLost \/ ApBack \/ BrokerLost \/ SleepChanges \/ LteMqttLost
    BY <1>1, <1>16, RadiosGood
<1>17. CASE UNCHANGED vars
  <2>1. Moves(rm, rm')
      BY <1>17, IInvFacts, QuietRefl, QuietMoves DEF vars
  <2> QED  BY <1>1, <1>17, <2>1, ElsewhereGood, IInvFacts DEF vars, GoodStep, GoodRest
<1> QED  BY <1>3, <1>4, <1>5, <1>6, <1>7, <1>8, <1>9, <1>10, <1>11, <1>12, <1>13, <1>14,
            <1>15, <1>16, <1>17 DEF Next, WorkQueue, Others

-----------------------------------------------------------------------------
(* The right radio is on when it becomes active.  The manager's own steps see to
   it as long as the radios have no setbacks and nobody calls into the manager
   while its work queue runs. *)

(* MQTT goes over Wi-Fi; the shadow knows no broker without MQTT. *)
Carries(d) == d.power /\ d.mqtt = "T" /\ d.broker = "T"
NoGhost(d) == d.mqtt = "F" => d.broker = "F"
LteReady == lte.power /\ lte.mqtt

(* What the switch has reached at each place: radio_enabled is only set when the
   target carries MQTT, and keeps its meaning until the next rm_switch_to(). *)
Steady ==
    /\ rm.switching => ~rm.disabled
    /\ pc \in {"enWifi", "enWoken"} => rm.target = "DA" /\ ~rm.enabled /\ da.power
    /\ pc = "disLte" => rm.target = "DA" /\ rm.enabled /\ Carries(da)
    /\ pc \in {"disWifi", "disWoken"} => rm.target = "LTE" /\ rm.enabled
    /\ rm.switching /\ rm.enabled /\ pc # "disLte" => rm.target = "LTE" /\ LteReady
    /\ NoGhost(da)
    /\ pc = "postLte" => LteReady /\ (left.faults = MaxFaults => da.mqtt = "F")
    /\ pc = "postWifi" => Carries(da) /\ (left.faults = MaxFaults => ~lte.power \/ rm.plugged)

Bounded == left.env <= MaxEnv /\ left.faults <= MaxFaults
Calm == left.env = MaxEnv

(* From r to s the target and what was done for it stay the same ... *)
Keeps(r, s) ==
    /\ s.target = r.target /\ s.switching = r.switching
    /\ s.enabled = r.enabled /\ s.disabled = r.disabled

(* ... or nothing has been done yet for a new one. *)
Restarts(s) == s.switching /\ ~s.enabled /\ ~s.disabled

Tends(r, s) == Keeps(r, s) \/ Restarts(s)

LEMMA TendsTrans ==
    ASSUME NEW r, NEW s, NEW t
    PROVE  /\ Keeps(r, s) /\ Keeps(s, t) => Keeps(r, t)
           /\ Tends(r, s) /\ Tends(s, t) => Tends(r, t)
           /\ Keeps(r, s) => Tends(r, s)
           /\ Keeps(r, r)
  BY DEF Tends, Keeps, Restarts

(* What happens to a switch whose target is not enabled *)
LEMMA TendsLazily ==
    ASSUME NEW r, NEW s, NEW t, Keeps(r, s), Keeps(s, t), ~s.enabled
    PROVE  Tends(r, t) /\ ~t.enabled
  BY DEF Tends, Keeps

(* Fields of the record that are not about the switch *)
LEMMA FieldsKeep ==
    ASSUME NEW r \in RmType, NEW v, NEW w, NEW x
    PROVE  /\ Keeps(r, [r EXCEPT !.queue = v])
           /\ Keeps(r, [r EXCEPT !.op = v, !.failures = w, !.polls = x])
           /\ Keeps(r, [r EXCEPT !.failures = v, !.polls = w])
           /\ Keeps(r, [r EXCEPT !.polls = v])
           /\ Keeps(r, [r EXCEPT !.connecting = v])
           /\ Keeps(r, [r EXCEPT !.connecting = v, !.disconnectFirst = w])
           /\ Keeps(r, [r EXCEPT !.useWifi = v])
           /\ Keeps(r, [r EXCEPT !.useSleep = v])
           /\ Keeps(r, [r EXCEPT !.prepped = v])
           /\ Keeps(r, [r EXCEPT !.lastPlugged = v])
           /\ Keeps(r, [r EXCEPT !.plugged = v])
           /\ Keeps(r, [r EXCEPT !.plugged = v, !.queue = w])
           /\ Keeps(r, [r EXCEPT !.useSleep = v, !.prepped = w])
  BY DEF Keeps, RmType

LEMMA HelpersKeep ==
    ASSUME NEW r \in RmType
    PROVE  /\ \A w : Keeps(r, Submit(r, w))
           /\ \A d, e : Keeps(r, Publish(r, d, e))
           /\ Keeps(r, FailOp(r))
           /\ \A op \in Ops : \A s \in StartOp(r, op) : Keeps(r, s.r)
<1>1. \A w : Keeps(r, Submit(r, w))
    BY FieldsKeep, TendsTrans DEF Submit
<1>2. \A d, e : Keeps(r, Publish(r, d, e))
    BY FieldsKeep DEF Publish
<1>3. Keeps(r, FailOp(r))
    BY FieldsKeep DEF FailOp
<1>4. ASSUME NEW op \in Ops, NEW s \in StartOp(r, op)  PROVE Keeps(r, s.r)
  <2>1. \/ s.r = [r EXCEPT !.op = op, !.failures = 0, !.polls = 0]
        \/ s.r = [r EXCEPT !.polls = r.polls + 1]
        \/ s.r = [r EXCEPT !.failures = r.failures + 1, !.polls = 0]
        \/ s.r = [r EXCEPT !.failures = Retries[op] + 1, !.polls = MaxPolls]
      BY DEF StartOp, RmType
  <2>2. CASE s.r = [r EXCEPT !.op = op, !.failures = 0, !.polls = 0]
      BY <2>2 DEF Keeps, RmType
  <2>3. CASE s.r = [r EXCEPT !.polls = r.polls + 1]
      BY <2>3, FieldsKeep
  <2>4. CASE s.r = [r EXCEPT !.failures = r.failures + 1, !.polls = 0]
      BY <2>4 DEF Keeps, RmType
  <2>5. CASE s.r = [r EXCEPT !.failures = Retries[op] + 1, !.polls = MaxPolls]
      BY <2>5 DEF Keeps, RmType
  <2> QED  BY <2>1, <2>2, <2>3, <2>4, <2>5
<1> QED  BY <1>1, <1>2, <1>3, <1>4

LEMMA SwitchToTends ==
    ASSUME NEW r \in RmType, NEW radio \in Radios
    PROVE  /\ Tends(r, SwitchTo(r, radio))
           /\ r.switching /\ r.target = radio => Keeps(r, SwitchTo(r, radio))
<1> DEFINE s == [r EXCEPT !.enabled = FALSE, !.disabled = FALSE,
                          !.target = radio, !.switching = TRUE]
<1>1. s \in RmType /\ Restarts(s)
    BY DEF RmType, Restarts
<1> HIDE DEF s
<1>2. Restarts(Submit(s, "SR"))
    BY <1>1, HelpersKeep DEF Restarts, Keeps
<1>3. SwitchTo(r, radio) \in {r, s, Submit(s, "SR")}
    BY DEF SwitchTo, s
<1>4. r.switching /\ r.target = radio => SwitchTo(r, radio) = r
    BY DEF SwitchTo
<1> QED  BY <1>1, <1>2, <1>3, <1>4, TendsTrans DEF Tends

LEMMA PowerKeeps ==
    ASSUME NEW d \in DaType
    PROVE  /\ PowerOn(d).mqtt = d.mqtt /\ PowerOn(d).broker = d.broker /\ PowerOn(d).power
           /\ PowerOff(d).mqtt \in {d.mqtt, "F"}
           /\ NoGhost(d) => NoGhost(PowerOff(d)) /\ NoGhost(PowerOn(d))
  BY DEF PowerOn, PowerOff, DaType, NoGhost, Tri

(* return_da_to_sleep() during a switch to Wi-Fi does nothing; it turns MQTT off
   or leaves it. *)
LEMMA ReturnTends ==
    ASSUME NEW r \in RmType, NEW d \in DaType, NEW o \in ReturnDaToSleep(r, d)
    PROVE  /\ Tends(r, o.r) /\ (r.switching => Keeps(r, o.r))
           /\ o.d.mqtt \in {d.mqtt, "F"} /\ (NoGhost(d) => NoGhost(o.d))
           /\ r.switching /\ r.target = "DA" => o.d = d /\ o.ok
<1> DEFINE done(q, e) == [r |-> q, d |-> e, fault |-> FALSE, ok |-> TRUE]
           refused == [r |-> r, d |-> d, fault |-> FALSE, ok |-> FALSE]
           failed == [r |-> r, d |-> d, fault |-> TRUE, ok |-> FALSE]
           off(q) == LET e == IF r.prepped THEN d ELSE PowerOff(d) IN done(Publish(q, d, e), e)
           Goal == /\ Tends(r, o.r) /\ (r.switching => Keeps(r, o.r))
                   /\ o.d.mqtt \in {d.mqtt, "F"} /\ (NoGhost(d) => NoGhost(o.d))
<1>1. ASSUME o.r = r, o.d = d \/ \E v : o.d = [d EXCEPT !.sleep = v]  PROVE Goal
  <2>1. o.d.mqtt = d.mqtt /\ o.d.broker = d.broker
      BY <1>1 DEF DaType
  <2> QED  BY <1>1, <2>1, TendsTrans DEF NoGhost
<1>2. ASSUME NEW q \in RmType, Tends(r, q), r.switching => Keeps(r, q), o = off(q)  PROVE Goal
  <2>1. Keeps(q, o.r)
      BY <1>2, HelpersKeep
  <2>2. o.d.mqtt \in {d.mqtt, "F"} /\ (NoGhost(d) => NoGhost(o.d))
      BY <1>2, PowerKeeps
  <2> HIDE DEF off
  <2> QED  BY <1>2, <2>1, <2>2, TendsTrans
<1>3. ASSUME WifiIsConnecting(r)  PROVE Goal
  <2>1. o = done(r, d)
      BY <1>3 DEF ReturnDaToSleep
  <2> QED  BY <2>1, <1>1
<1>4. ASSUME ~WifiIsConnecting(r)  PROVE Goal
  <2>1. \/ r.active # "DA" /\ o = off(r)
        \/ o = done(r, [d EXCEPT !.sleep = "F"]) \/ o = done(r, [d EXCEPT !.sleep = "T"])
        \/ o = failed \/ o = refused
        \/ o = off(SwitchTo(r, "LTE"))
      BY <1>4 DEF ReturnDaToSleep
  <2>2. ~(r.switching /\ r.target = "DA")
      BY <1>4 DEF WifiIsConnecting
  <2>3. r.switching => r.target = "LTE"
      BY <2>2 DEF RmType, Radios
  <2>4. /\ Tends(r, SwitchTo(r, "LTE")) /\ (r.switching => Keeps(r, SwitchTo(r, "LTE")))
        /\ SwitchTo(r, "LTE") \in RmType
      BY <2>3, SwitchToTends, SwitchToMoves DEF Radios, Moves, Quiet, Asks
  <2>5. Tends(r, r) /\ Keeps(r, r)
      BY TendsTrans
  <2> HIDE DEF off
  <2>6. CASE o = off(r)
      BY <2>2, <2>5, <2>6, <1>2
  <2>7. CASE o = off(SwitchTo(r, "LTE"))
      BY <2>2, <2>4, <2>7, <1>2
  <2>8. CASE \/ o = done(r, [d EXCEPT !.sleep = "F"]) \/ o = done(r, [d EXCEPT !.sleep = "T"])
             \/ o = failed \/ o = refused
    <3>1. o.r = r
        BY <2>8
    <3>2. o.d = d \/ o.d = [d EXCEPT !.sleep = "F"] \/ o.d = [d EXCEPT !.sleep = "T"]
        BY <2>8
    <3>3. o.d = d \/ \E v : o.d = [d EXCEPT !.sleep = v]
        BY <3>2
    <3> QED  BY <1>1, <3>1, <3>3
  <2> QED  BY <2>1, <2>6, <2>7, <2>8
<1>5. r.switching /\ r.target = "DA" => o.d = d /\ o.ok
  <2>1. r.switching /\ r.target = "DA" => o = done(r, d)
      BY DEF ReturnDaToSleep, WifiIsConnecting
  <2> QED  BY <2>1
<1>6. /\ Tends(r, o.r) /\ (r.switching => Keeps(r, o.r))
      /\ o.d.mqtt \in {d.mqtt, "F"} /\ (NoGhost(d) => NoGhost(o.d))
    BY <1>3, <1>4
<1> QED  BY <1>5, <1>6

(* What a step of the work queue does to the bounds, and to the modem. *)
Spends == left' = left \/ left' = [left EXCEPT !.faults = left.faults - 1]
ModemStaysOn == lte.power => lte'.power

LEMMA SpendSpends ==
    ASSUME NEW fault, Spend(fault)
    PROVE  Spends
  BY DEF Spend, Spends

(* A fault that was spent leaves fewer than there were at first. *)
LEMMA SpentFault ==
    ASSUME IInv, Bounded, NEW fault, fault = TRUE, Spend(fault)
    PROVE  left'.faults # MaxFaults
  BY IInvFacts, BoundsAssumption DEF Spend, Bounded, LeftType

(* The handler is idle again, or ends up past rm_prepare_radio_for_use(). *)
LEMMA IdleSteady ==
    ASSUME Steady, NEW r, Tends(rm, r), rm' = r, pc' \in {"idle", "apPrepared"}, NoGhost(da'),
           \/ pc # "disLte" /\ (LteReady => LteReady')
           \/ r.switching => ~r.enabled
    PROVE  Steady'
<1>1. rm'.switching => ~rm'.disabled
    BY DEF Steady, Tends, Keeps, Restarts
<1>2. rm'.switching /\ rm'.enabled => rm'.target = "LTE" /\ LteReady'
    BY DEF Steady, Tends, Keeps, Restarts
<1> QED  BY <1>1, <1>2 DEF Steady, NoGhost, Carries

(* The target becomes the active radio. *)
LEMMA CommitSteady ==
    ASSUME NEW r \in RmType, Commit(r), NoGhost(da'),
           r.target = "LTE" => LteReady' /\ (left'.faults = MaxFaults => da'.mqtt = "F"),
           r.target = "DA" => /\ Carries(da')
                              /\ left'.faults = MaxFaults => ~lte'.power \/ r.plugged
    PROVE  Steady'
<1>1. /\ ~rm'.switching /\ rm'.plugged = r.plugged
      /\ pc' = IF r.target = "DA" THEN "postWifi" ELSE "postLte"
    BY DEF Commit, Block, RmType
<1>2. r.target \in {"DA", "LTE"}
    BY DEF RmType, Radios
<1> QED  BY <1>1, <1>2 DEF Steady, NoGhost, Carries, LteReady

(* The target carries MQTT: the other radio is disabled next. *)
LEMMA DisableOtherSteady ==
    ASSUME NEW r \in RmType, NEW d, r.switching, ~r.disabled, DisableOther(r, d), NoGhost(d),
           da' = d, UNCHANGED <<lte, left>>,
           r.target = "LTE" => LteReady,
           r.target = "DA" => Carries(d)
    PROVE  Steady'
<1> DEFINE s == [r EXCEPT !.enabled = TRUE]
<1>1. /\ s \in RmType /\ s.target = r.target /\ s.switching /\ s.enabled /\ ~s.disabled
      /\ s.target \in {"DA", "LTE"}
    BY DEF RmType, Radios
<1>2. \/ s.target = "LTE" /\ WifiIsOff(s, d) /\ Commit(s)
      \/ Block(s, IF s.target = "LTE" THEN "disWifi" ELSE "disLte")
    BY <1>1 DEF DisableOther
<1> HIDE DEF s
<1>3. CASE s.target = "LTE" /\ WifiIsOff(s, d) /\ Commit(s)
  <2>1. LteReady' /\ d.mqtt = "F"
      BY <1>1, <1>3 DEF WifiIsOff, LteReady
  <2> QED  BY <1>1, <1>3, <2>1, CommitSteady
<1>4. CASE s.target = "LTE" /\ Block(s, "disWifi")
    BY <1>1, <1>4 DEF Block, Steady, LteReady, NoGhost
<1>5. CASE s.target = "DA" /\ Block(s, "disLte")
    BY <1>1, <1>5 DEF Block, Steady, NoGhost, Carries
<1> QED  BY <1>1, <1>2, <1>3, <1>4, <1>5

(* enable_lte(), called from the top of the handler *)
LEMMA TurningOffSteady ==
    ASSUME IInv, Steady, NEW r \in RmType, Keeps(rm, r), r.switching, ~r.enabled,
           TurningOffBroker(r, da)
    PROVE  Steady'
<1> DEFINE d1 == [PowerOn(da) EXCEPT !.sleep = "F"]
           d2(refused) == IF refused THEN d1 ELSE [d1 EXCEPT !.mqtt = "F", !.broker = "F"]
<1>0. /\ da \in DaType /\ "TURNING_OFF_BROKER" \in Ops /\ NoGhost(da)
      /\ PowerOn(da) \in DaType /\ d1 \in DaType
    BY IInvFacts, PowerTypes, DaFields DEF Ops, Retries, Tri, Steady
<1>1. PICK s \in StartOp(r, "TURNING_OFF_BROKER") :
         \/ Rearm(s.r) /\ da' = da
         \/ \E refused \in BOOLEAN :
              \E o \in ReturnDaToSleep(Publish(s.r, d1, d2(refused)), d2(refused)) :
                Rearm(o.r) /\ da' = o.d
    BY DEF TurningOffBroker
<1>2. Keeps(r, s.r) /\ s.r \in RmType
    BY <1>0, HelpersKeep, StartOpQuiet DEF Quiet
<1>3. CASE Rearm(s.r) /\ da' = da
  <2>1. Tends(rm, s.r) /\ ~s.r.enabled
      BY <1>2, TendsLazily
  <2> QED  BY <1>0, <1>3, <2>1, IdleSteady DEF Rearm
<1>4. ASSUME NEW refused \in BOOLEAN,
             NEW o \in ReturnDaToSleep(Publish(s.r, d1, d2(refused)), d2(refused)),
             Rearm(o.r), da' = o.d
      PROVE  Steady'
  <2> DEFINE q == Publish(s.r, d1, d2(refused))
  <2>1. NoGhost(d1)
      BY <1>0, PowerKeeps DEF NoGhost, DaType
  <2>2. d2(refused) \in DaType /\ NoGhost(d2(refused))
      BY <1>0, <2>1 DEF DaType, Tri, NoGhost
  <2>3. q \in RmType /\ Keeps(s.r, q)
      BY <1>2, PublishQuiet, HelpersKeep DEF Quiet
  <2>4. Keeps(r, q) /\ q.switching
      BY <1>2, <2>3, TendsTrans DEF Keeps
  <2> HIDE DEF q, d1, d2
  <2>5. Keeps(q, o.r) /\ NoGhost(o.d)
      BY <1>4, <2>2, <2>3, <2>4, ReturnTends DEF q
  <2>6. Keeps(r, o.r)
      BY <2>4, <2>5, TendsTrans
  <2>7. Tends(rm, o.r) /\ ~o.r.enabled
      BY <2>6, TendsLazily
  <2> QED  BY <1>4, <2>5, <2>7, IdleSteady DEF Rearm
<1> QED  BY <1>1, <1>3, <1>4

LEMMA EnableLteSteady ==
    ASSUME IInv, Steady, NEW r \in RmType, Keeps(rm, r), r.switching, ~r.enabled,
           r.target = "LTE", EnableLte(r, da)
    PROVE  Steady'
<1>0. /\ "WAIT_FOR_LTE_READY" \in Ops /\ "ENABLING_LTE_MQTT" \in Ops
      /\ NoGhost(da) /\ ~r.disabled
    BY DEF Ops, Retries, Steady, Keeps
<1>1. ASSUME NEW op \in Ops, NEW s \in StartOp(r, op), Rearm(s.r), da' = da
      PROVE  Steady'
  <2>1. Tends(rm, s.r) /\ ~s.r.enabled
      BY HelpersKeep, TendsLazily
  <2> QED  BY <1>0, <1>1, <2>1, IdleSteady DEF Rearm
<1>2. CASE TurningOffBroker(r, da)
    BY <1>2, TurningOffSteady
<1>3. CASE PoweringModem(r, da)
    BY <1>0, <1>1, <1>3 DEF PoweringModem
<1>4. CASE EnablingLteMqtt(r, da)
    BY <1>0, <1>1, <1>4 DEF EnablingLteMqtt
<1>5. CASE LteReady /\ DisableOther(r, da) /\ da' = da /\ UNCHANGED <<lte, left>>
    BY <1>0, <1>5, DisableOtherSteady
<1> QED  BY <1>2, <1>3, <1>4, <1>5 DEF EnableLte, LteReady

(* enable_wifi() has returned 0 *)
LEMMA WifiEnabledSteady ==
    ASSUME NEW r \in RmType, r.target = "DA", r.switching, ~r.disabled, NoGhost(da), Carries(da),
           WifiEnabled(r, da)
    PROVE  Steady'
<1>1. DisableOther(r, da) /\ da' = da /\ UNCHANGED <<lte, left>>
    BY DEF WifiEnabled
<1> QED  BY <1>1, DisableOtherSteady

(* enable_wifi(), an operation (re)starts *)
LEMMA StartWifiOpSteady ==
    ASSUME IInv, Steady, NEW r \in RmType, Keeps(rm, r), r.switching, ~r.enabled, r.target = "DA",
           da.power, NEW op, StartWifiOp(r, op),
           op = "SLEEPING_DA" => da.mqtt = "T" /\ da.broker = "T"
    PROVE  Steady'
<1>0. da \in DaType /\ PowerOn(da) \in DaType /\ NoGhost(da) /\ ~r.disabled
    BY IInvFacts, PowerTypes DEF Steady, Keeps
<1>1. ASSUME NEW s, Keeps(r, s), Rearm(s), NoGhost(da')  PROVE Steady'
  <2>1. Tends(rm, s) /\ ~s.enabled
      BY <1>1, TendsLazily
  <2> QED  BY <1>1, <2>1, IdleSteady DEF Rearm
<1>2. Keeps(r, r) /\ Keeps(r, FailOp(r)) /\ Keeps(r, [r EXCEPT !.queue = Append(@, "LTE")])
    BY TendsTrans, HelpersKeep, FieldsKeep
<1>3. ASSUME NEW d, NoGhost(d), DaCommand(r, d)  PROVE Steady'
    BY <1>0, <1>1, <1>2, <1>3, HelpersKeep DEF DaCommand
<1>4. CASE op = "DISABLING_LTE_MQTT"
    BY <1>0, <1>1, <1>2, <1>4 DEF StartWifiOp
<1>5. CASE op = "WAKING_DA"
  <2>1. CASE Rearm(FailOp(r)) /\ da' = PowerOn(da)
      BY <1>0, <1>1, <1>2, <2>1, PowerKeeps
  <2>2. CASE Block(r, "enWoken") /\ da' = [PowerOn(da) EXCEPT !.sleep = "F"]
    <3>1. da'.power /\ NoGhost(da')
        BY <1>0, <2>2, PowerKeeps DEF DaType, NoGhost
    <3> QED  BY <1>0, <2>2, <3>1 DEF Block, Steady, NoGhost
  <2> QED  BY <1>5, <2>1, <2>2 DEF StartWifiOp
<1>6. CASE op = "STATE_TO_BE_KNOWN"
  <2>1. CASE Rearm(r) /\ UNCHANGED da
      BY <1>0, <1>1, <1>2, <2>1
  <2>2. ASSUME NEW boot \in {"F", "T"}, NEW broker \in {"F", "T"}, NEW d,
               d = [da EXCEPT !.boot = IF @ = "U" THEN boot ELSE @,
                              !.broker = IF @ = "U" THEN broker ELSE @],
               da' = d, Rearm(Publish(r, da, d))
        PROVE  Steady'
    <3>1. NoGhost(d)
        BY <1>0, <2>2 DEF DaType, NoGhost
    <3> QED  BY <1>1, <2>2, <3>1, HelpersKeep
  <2> QED  BY <1>6, <2>1, <2>2 DEF StartWifiOp
<1>7. CASE op = "TURNING_ON_BROKER_BOOT"
  <2>1. NoGhost([da EXCEPT !.boot = "T"])
      BY <1>0 DEF NoGhost, DaType
  <2> QED  BY <1>3, <1>7, <2>1 DEF StartWifiOp
<1>8. CASE op = "TURNING_ON_BROKER"
  <2>1. NoGhost([da EXCEPT !.mqtt = "T"])
      BY <1>0 DEF NoGhost, DaType
  <2> QED  BY <1>3, <1>8, <2>1 DEF StartWifiOp
<1>9. CASE op = "SLEEPING_DA"
  <2>1. PICK o \in ReturnDaToSleep(r, da) :
           IF o.ok THEN WifiEnabled(o.r, o.d)
           ELSE Spend(o.fault) /\ Rearm(FailOp(o.r)) /\ da' = o.d /\ UNCHANGED lte
      BY <1>9 DEF StartWifiOp
  <2>2. o.d = da /\ o.ok /\ Keeps(r, o.r)
      BY <1>0, ReturnTends
  <2>3. o.r \in RmType /\ WifiEnabled(o.r, da)
      BY <1>0, <2>1, <2>2, ReturnMoves, MovesType
  <2>4. o.r.target = "DA" /\ o.r.switching /\ ~o.r.disabled
      BY <1>0, <2>2 DEF Keeps
  <2> QED  BY <1>0, <1>9, <2>3, <2>4, WifiEnabledSteady DEF Carries
<1>10. CASE op \notin {"DISABLING_LTE_MQTT", "WAKING_DA", "STATE_TO_BE_KNOWN",
                       "TURNING_ON_BROKER_BOOT", "TURNING_ON_BROKER", "SLEEPING_DA"}
  <2>1. Rearm(r) /\ UNCHANGED <<da, lte, left>>
      BY <1>10 DEF StartWifiOp
  <2> QED  BY <1>0, <1>1, <1>2, <2>1
<1> QED  BY <1>4, <1>5, <1>6, <1>7, <1>8, <1>9, <1>10

LEMMA EnableWifiSteady ==
    ASSUME IInv, Steady, EnableWifi
    PROVE  Steady'
<1> DEFINE op == WifiNeeds(rm, da, pc = "enWoken")
<1>0. /\ rm \in RmType /\ da \in DaType /\ NoGhost(da) /\ da.power
      /\ rm.target = "DA" /\ ~rm.enabled /\ ~rm.disabled /\ rm.switching
    BY IInvFacts, InHandlerRunning DEF EnableWifi, Steady, InHandler, Running
<1>1. op \in Ops \cup {"NONE"}
    BY DEF WifiNeeds, Ops, Retries
<1>2. op \in {"NONE", "SLEEPING_DA"} => da.mqtt = "T" /\ da.broker = "T"
    BY <1>0 DEF WifiNeeds
<1>3. \/ op = "NONE" /\ WifiEnabled(rm, da)
      \/ /\ op # "NONE"
         /\ \E s \in StartOp(rm, op) :
              \/ s.st = "STARTED" /\ StartWifiOp(s.r, op)
              \/ s.st = "STILL_GOING" /\ Rearm(s.r) /\ UNCHANGED <<da, lte, left>>
              \/ s.st = "FAILED" /\ Rearm(SwitchTo(s.r, "LTE")) /\ UNCHANGED <<da, lte, left>>
    BY DEF EnableWifi
<1> HIDE DEF op
<1>4. CASE op = "NONE" /\ WifiEnabled(rm, da)
    BY <1>0, <1>2, <1>4, WifiEnabledSteady DEF Carries
<1>5. ASSUME op # "NONE", NEW s \in StartOp(rm, op),
             \/ s.st = "STARTED" /\ StartWifiOp(s.r, op)
             \/ s.st = "STILL_GOING" /\ Rearm(s.r) /\ UNCHANGED <<da, lte, left>>
             \/ s.st = "FAILED" /\ Rearm(SwitchTo(s.r, "LTE")) /\ UNCHANGED <<da, lte, left>>
      PROVE  Steady'
  <2>1. Keeps(rm, s.r) /\ s.r \in RmType
      BY <1>0, <1>1, <1>5, HelpersKeep, StartOpQuiet DEF Quiet
  <2>2. s.r.target = "DA" /\ s.r.switching /\ ~s.r.enabled
      BY <1>0, <2>1 DEF Keeps
  <2>3. CASE StartWifiOp(s.r, op)
      BY <1>0, <1>2, <2>1, <2>2, <2>3, StartWifiOpSteady
  <2>4. CASE Rearm(s.r) /\ UNCHANGED <<da, lte, left>>
      BY <1>0, <2>1, <2>2, <2>4, TendsTrans, IdleSteady DEF Rearm
  <2>5. CASE Rearm(SwitchTo(s.r, "LTE")) /\ UNCHANGED <<da, lte, left>>
    <3>1. Tends(s.r, SwitchTo(s.r, "LTE"))
        BY <2>1, SwitchToTends DEF Radios
    <3>2. ~SwitchTo(s.r, "LTE").enabled
        BY <2>2, <3>1 DEF Tends, Keeps, Restarts
    <3>3. Tends(rm, SwitchTo(s.r, "LTE"))
        BY <2>1, <3>1, TendsTrans
    <3> QED  BY <1>0, <2>5, <3>2, <3>3, IdleSteady DEF Rearm
  <2> QED  BY <1>5, <2>3, <2>4, <2>5
<1> QED  BY <1>3, <1>4, <1>5

(* disable_wifi() *)
LEMMA WakingToDisableSteady ==
    ASSUME IInv, Steady, WakingToDisable, UNCHANGED lte
    PROVE  Steady'
<1>0. /\ rm \in RmType /\ da \in DaType /\ PowerOn(da) \in DaType /\ "WAKING_DA" \in Ops
      /\ NoGhost(da) /\ NoGhost(PowerOn(da)) /\ NoGhost([PowerOn(da) EXCEPT !.sleep = "F"])
  <2>1. da \in DaType /\ PowerOn(da) \in DaType /\ NoGhost(da)
      BY IInvFacts, PowerTypes DEF Steady
  <2>2. NoGhost(PowerOn(da)) /\ NoGhost([PowerOn(da) EXCEPT !.sleep = "F"])
      BY <2>1, PowerKeeps DEF NoGhost, DaType
  <2> QED  BY <2>1, <2>2, IInvFacts DEF Ops, Retries
<1>1. rm.target = "LTE" /\ rm.enabled /\ rm.switching /\ LteReady /\ pc = "disWifi"
    BY InHandlerRunning DEF WakingToDisable, Steady, InHandler, Running
<1>2. PICK s \in StartOp(rm, "WAKING_DA") :
         \/ Rearm(s.r) /\ UNCHANGED da
         \/ Rearm(FailOp(s.r)) /\ da' = PowerOn(da)
         \/ Block(s.r, "disWoken") /\ da' = [PowerOn(da) EXCEPT !.sleep = "F"]
    BY DEF WakingToDisable
<1>3. Keeps(rm, s.r) /\ Keeps(rm, FailOp(s.r))
  <2>1. s.r \in RmType /\ Keeps(rm, s.r)
      BY <1>0, HelpersKeep, StartOpQuiet DEF Quiet
  <2> QED  BY <2>1, HelpersKeep, TendsTrans
<1>4. LteReady'
    BY <1>1 DEF LteReady
<1>5. CASE Rearm(s.r) /\ UNCHANGED da
    BY <1>0, <1>1, <1>3, <1>4, <1>5, TendsTrans, IdleSteady DEF Rearm, NoGhost
<1>6. CASE Rearm(FailOp(s.r)) /\ da' = PowerOn(da)
    BY <1>0, <1>1, <1>3, <1>4, <1>6, TendsTrans, IdleSteady DEF Rearm
<1>7. CASE Block(s.r, "disWoken") /\ da' = [PowerOn(da) EXCEPT !.sleep = "F"]
    BY <1>0, <1>1, <1>3, <1>4, <1>7 DEF Block, Steady, Keeps, NoGhost
<1> QED  BY <1>2, <1>5, <1>6, <1>7

(* MQTT of the DA is off when its radio is disabled, unless a command failed. *)
LEMMA StoppingWifiSteady ==
    ASSUME IInv, Bounded, Steady, StoppingWifi, UNCHANGED lte
    PROVE  Steady'
<1>0. /\ rm \in RmType /\ da \in DaType /\ NoGhost(da) /\ "SLEEPING_DA" \in Ops
      /\ rm.target = "LTE" /\ rm.enabled /\ rm.switching /\ ~rm.disabled
      /\ LteReady /\ LteReady' /\ pc \in {"disWifi", "disWoken"}
  <2>1. pc \in {"disWifi", "disWoken"}
      BY DEF StoppingWifi
  <2>2. /\ rm.target = "LTE" /\ rm.enabled /\ rm.switching /\ ~rm.disabled
        /\ LteReady /\ NoGhost(da)
      BY <2>1, InHandlerRunning DEF Steady, InHandler, Running
  <2>3. LteReady'
      BY <2>2 DEF LteReady
  <2> QED  BY <2>1, <2>2, <2>3, IInvFacts DEF Ops, Retries
<1> DEFINE D(refused) == IF refused \/ da.mqtt = "F" THEN da
                         ELSE [da EXCEPT !.mqtt = "F", !.broker = "F"]
           Ends(refused, d, r) ==
             \/ Spend(refused) /\ LET d2 == [d EXCEPT !.ap = "F"]
                                  IN  da' = d2 /\ Rearm(Publish(r, d, d2))
             \/ Spend(TRUE) /\ da' = d /\ Rearm(r)
             \/ Spend(refused) /\ da' = d /\ WifiDisabled(r)
             \/ \E s \in StartOp(r, "SLEEPING_DA") :
                  \/ \E o \in ReturnDaToSleep(s.r, d) :
                       /\ Spend(refused \/ o.fault) /\ da' = o.d
                       /\ WifiDisabled(o.r) \/ Rearm(FailOp(o.r))
                  \/ Spend(refused) /\ da' = d /\ Rearm(s.r)
                  \/ /\ Spend(refused)
                     /\ da' = PowerOff(d) /\ WifiDisabled(Publish(s.r, d, PowerOff(d)))
<1>1. PICK refused \in BOOLEAN : Ends(refused, D(refused), Publish(rm, da, D(refused)))
    BY DEF StoppingWifi
<1> DEFINE d == D(refused)
           r == Publish(rm, da, d)
<1>2. /\ d \in DaType /\ NoGhost(d) /\ (~refused => d.mqtt = "F")
      /\ [d EXCEPT !.ap = "F"] \in DaType /\ NoGhost([d EXCEPT !.ap = "F"])
    BY <1>0 DEF DaType, Tri, NoGhost
<1>3. r \in RmType /\ Keeps(rm, r)
    BY <1>0, PublishQuiet, HelpersKeep DEF Quiet
<1>4. Ends(refused, d, r)
    BY <1>1
<1> HIDE DEF d, r
<1>5. ASSUME NEW s, Keeps(rm, s), Rearm(s), NoGhost(da')  PROVE Steady'
    BY <1>0, <1>5, TendsTrans, IdleSteady DEF Rearm
<1>6. ASSUME NEW s \in RmType, Keeps(rm, s), WifiDisabled(s), NoGhost(da'),
             NEW fault, Spend(fault), da'.mqtt = "F" \/ fault = TRUE
      PROVE  Steady'
  <2>1. Commit(s) /\ s.target = "LTE"
      BY <1>0, <1>6 DEF WifiDisabled, Keeps
  <2>2. left'.faults = MaxFaults => da'.mqtt = "F"
      BY <1>6, SpentFault
  <2> QED  BY <1>0, <1>6, <2>1, <2>2, CommitSteady
<1>7. CASE Spend(refused) /\ LET d2 == [d EXCEPT !.ap = "F"]
                             IN  da' = d2 /\ Rearm(Publish(r, d, d2))
    BY <1>2, <1>3, <1>5, <1>7, HelpersKeep, TendsTrans
<1>8. CASE Spend(TRUE) /\ da' = d /\ Rearm(r)
    BY <1>2, <1>3, <1>5, <1>8
<1>9. CASE Spend(refused) /\ da' = d /\ WifiDisabled(r)
    BY <1>2, <1>3, <1>6, <1>9
<1>10. ASSUME NEW s \in StartOp(r, "SLEEPING_DA"),
              \/ \E o \in ReturnDaToSleep(s.r, d) :
                   /\ Spend(refused \/ o.fault) /\ da' = o.d
                   /\ WifiDisabled(o.r) \/ Rearm(FailOp(o.r))
              \/ Spend(refused) /\ da' = d /\ Rearm(s.r)
              \/ /\ Spend(refused)
                 /\ da' = PowerOff(d) /\ WifiDisabled(Publish(s.r, d, PowerOff(d)))
       PROVE  Steady'
  <2>1. s.r \in RmType /\ Keeps(rm, s.r) /\ s.r.switching
    <3>1. s.r \in RmType /\ Keeps(r, s.r)
        BY <1>0, <1>3, HelpersKeep, StartOpQuiet DEF Quiet
    <3> QED  BY <1>0, <1>3, <3>1 DEF Keeps
  <2>2. ASSUME NEW o \in ReturnDaToSleep(s.r, d), Spend(refused \/ o.fault), da' = o.d,
               WifiDisabled(o.r) \/ Rearm(FailOp(o.r))
        PROVE  Steady'
    <3>1. /\ o.r \in RmType /\ Keeps(s.r, o.r)
          /\ o.d.mqtt \in {d.mqtt, "F"} /\ NoGhost(o.d)
        BY <1>2, <2>1, ReturnTends, ReturnMoves, MovesType
    <3>2. Keeps(rm, o.r) /\ Keeps(rm, FailOp(o.r))
        BY <2>1, <3>1, HelpersKeep, TendsTrans
    <3>3. da'.mqtt = "F" \/ (refused \/ o.fault) = TRUE
        BY <1>2, <2>2, <3>1
    <3> QED  BY <1>5, <1>6, <2>2, <3>1, <3>2, <3>3
  <2>3. CASE Spend(refused) /\ da' = d /\ Rearm(s.r)
      BY <1>2, <1>5, <2>1, <2>3
  <2>4. CASE /\ Spend(refused)
             /\ da' = PowerOff(d) /\ WifiDisabled(Publish(s.r, d, PowerOff(d)))
    <3>1. Publish(s.r, d, PowerOff(d)) \in RmType /\ Keeps(s.r, Publish(s.r, d, PowerOff(d)))
        BY <2>1, PublishQuiet, HelpersKeep DEF Quiet
    <3>2. Keeps(rm, Publish(s.r, d, PowerOff(d)))
        BY <2>1, <3>1, TendsTrans
    <3>3. NoGhost(da') /\ (da'.mqtt = "F" \/ refused = TRUE)
        BY <1>2, <2>4, PowerKeeps
    <3> QED  BY <1>6, <2>4, <3>1, <3>2, <3>3
  <2> QED  BY <1>10, <2>2, <2>3, <2>4
<1> QED  BY <1>4, <1>7, <1>8, <1>9, <1>10

(* disable_lte(), the result of which the handler does not look at *)
LEMMA DisableLteSteady ==
    ASSUME IInv, Bounded, Steady, DisableLte
    PROVE  Steady'
<1>0. /\ rm \in RmType /\ rm.target = "DA" /\ Carries(da) /\ da' = da /\ NoGhost(da)
      /\ lte \in LteType
    BY IInvFacts DEF DisableLte, Steady
<1>1. Carries(da') /\ NoGhost(da')
    BY <1>0
<1>2. CASE (rm.plugged \/ ~lte.power) /\ Commit(rm) /\ UNCHANGED <<lte, left>>
    BY <1>0, <1>1, <1>2, CommitSteady
<1>3. CASE Spend(TRUE) /\ Commit(rm) /\ UNCHANGED lte
  <2>1. left'.faults # MaxFaults
      BY <1>3, SpentFault
  <2> QED  BY <1>0, <1>1, <1>3, <2>1, CommitSteady
<1>4. CASE /\ lte' = [power |-> FALSE, mqtt |-> FALSE]
           /\ Commit(IF lte.mqtt THEN [rm EXCEPT !.queue = Append(@, "LTE")] ELSE rm)
  <2> DEFINE r == IF lte.mqtt THEN [rm EXCEPT !.queue = Append(@, "LTE")] ELSE rm
  <2>1. Quiet(rm, [rm EXCEPT !.queue = Append(@, "LTE")])
      BY <1>0, SubmitOther DEF Works
  <2>2. r \in RmType /\ r.target = "DA"
      BY <1>0, <2>1 DEF Quiet
  <2>3. ~lte'.power /\ Commit(r)
      BY <1>4
  <2> HIDE DEF r
  <2> QED  BY <1>1, <2>2, <2>3, CommitSteady
<1> QED  BY <1>2, <1>3, <1>4 DEF DisableLte

LEMMA RestKeeps ==
    ASSUME IInv
    PROVE  Keeps(rm, Rest)
  BY IInvFacts, FieldsKeep DEF Rest

LEMMA SwitchRadiosSteady ==
    ASSUME IInv, Steady, SwitchRadios
    PROVE  Steady'
<1>0. /\ Rest \in RmType /\ Rest.switching /\ Keeps(rm, Rest) /\ ~Rest.disabled
      /\ NoGhost(da) /\ da \in DaType /\ pc = "idle"
    BY TakesSR, RestKeeps, IInvFacts DEF SwitchRadios, Takes, Running, Steady, Keeps
<1>1. Rest.enabled => Rest.target = "LTE" /\ LteReady
    BY <1>0 DEF Steady, Keeps
<1>2. CASE Rearm(Rest) /\ UNCHANGED <<da, lte, left>>
    BY <1>0, <1>2, TendsTrans, IdleSteady DEF Rearm, LteReady
<1>3. CASE Rest.enabled /\ DisableOther(Rest, da) /\ UNCHANGED <<da, lte, left>>
    BY <1>0, <1>1, <1>3, DisableOtherSteady
<1>4. CASE ~Rest.enabled /\ Rest.target = "LTE" /\ EnableLte(Rest, da)
    BY <1>0, <1>4, EnableLteSteady
<1>5. CASE /\ ~Rest.enabled /\ Rest.target # "LTE" /\ Block(Rest, "enWifi")
           /\ da' = PowerOn(da) /\ UNCHANGED <<lte, left>>
  <2>1. Rest.target = "DA" /\ da'.power /\ NoGhost(da')
      BY <1>0, <1>5, PowerKeeps DEF RmType, Radios
  <2> QED  BY <1>0, <1>5, <2>1 DEF Block, Steady, NoGhost
<1> QED  BY <1>2, <1>3, <1>4, <1>5 DEF SwitchRadios

(* A step of the work queue that only asks, or that leaves the switch alone *)
LEMMA AskSteady ==
    ASSUME Steady, NEW r, Tends(rm, r), rm' = r, pc \in {"idle", "apPrepared", "postWifi", "postLte"},
           pc' \in {"idle", "apPrepared"}, NoGhost(da'), UNCHANGED lte
    PROVE  Steady'
  BY IdleSteady DEF LteReady

LEMMA AfterSwitchSteady ==
    ASSUME IInv, Steady, AfterSwitch
    PROVE  Steady'
<1>0. /\ rm \in RmType /\ da \in DaType /\ NoGhost(da) /\ UNCHANGED lte
      /\ pc \in {"postWifi", "postLte"} /\ pc' = "idle"
    BY IInvFacts DEF AfterSwitch, Steady
<1>1. PICK r : rm' = r /\ Tends(rm, r) /\ NoGhost(da')
  <2>1. CASE rm' = rm /\ UNCHANGED da
      BY <1>0, <2>1, TendsTrans
  <2>2. ASSUME NEW o \in ReturnDaToSleep(rm, da), rm' = o.r, da' = o.d
        PROVE  Tends(rm, rm') /\ NoGhost(da')
      BY <1>0, <2>2, ReturnTends
  <2> QED  BY <2>1, <2>2 DEF AfterSwitch
<1> QED  BY <1>0, <1>1, AskSteady

(* connecting_to_ap_work_handler() *)
LEMMA ConnectToApSteady ==
    ASSUME IInv, Steady, ConnectToAp
    PROVE  Steady'
<1>0. /\ Rest \in RmType /\ Keeps(rm, Rest) /\ da \in DaType /\ PowerOn(da) \in DaType
      /\ NoGhost(da) /\ NoGhost(PowerOn(da)) /\ UNCHANGED lte /\ pc = "idle"
  <2>1. Rest \in RmType /\ pc = "idle" /\ UNCHANGED lte
      BY RestQuiet DEF ConnectToAp, Works, Quiet
  <2> QED  BY <2>1, RestKeeps, IInvFacts, PowerTypes, PowerKeeps DEF Steady
<1>1. CASE Return(Rest) /\ UNCHANGED da
    BY <1>0, <1>1, TendsTrans, AskSteady DEF Return, NoGhost
<1>2. CASE Return([Rest EXCEPT !.connecting = FALSE]) /\ da' \in {da, PowerOn(da)}
  <2>1. Tends(rm, [Rest EXCEPT !.connecting = FALSE])
      BY <1>0, FieldsKeep, TendsTrans
  <2> QED  BY <1>0, <1>2, <2>1, AskSteady DEF Return
<1>3. ASSUME NEW d,
             d = [PowerOn(da) EXCEPT !.sleep = "F",
                                     !.ap = IF rm.disconnectFirst THEN "F" ELSE @],
             da' = d, Block(Publish(Rest, da, d), "apPrepared")
      PROVE  Steady'
  <2>1. NoGhost(d)
      BY <1>0, <1>3 DEF NoGhost, DaType
  <2>2. Tends(rm, Publish(Rest, da, d))
      BY <1>0, HelpersKeep, TendsTrans
  <2> QED  BY <1>0, <1>3, <2>1, <2>2, AskSteady DEF Block
<1> QED  BY <1>1, <1>2, <1>3 DEF ConnectToAp

LEMMA ConnectedToApSteady ==
    ASSUME IInv, Steady, ConnectedToAp
    PROVE  Steady'
<1> DEFINE D1(connected) == IF connected THEN [da EXCEPT !.ap = "T"] ELSE da
           D2(connected) == IF connected
                            THEN [D1(connected) EXCEPT !.mqtt = "U", !.broker = "U"]
                            ELSE D1(connected)
           R(connected) == IF connected THEN SwitchTo(Publish(rm, da, D1(connected)), "DA") ELSE rm
<1>0. rm \in RmType /\ da \in DaType /\ NoGhost(da) /\ UNCHANGED lte /\ pc = "apPrepared"
    BY IInvFacts DEF ConnectedToAp, Steady
<1>1. PICK connected \in BOOLEAN : \E o \in ReturnDaToSleep(R(connected), D2(connected)) :
         Return([o.r EXCEPT !.connecting = FALSE]) /\ da' = o.d
    BY DEF ConnectedToAp
<1>2. D2(connected) \in DaType /\ NoGhost(D2(connected))
    BY <1>0 DEF DaType, Tri, NoGhost
<1>3. Tends(rm, R(connected)) /\ R(connected) \in RmType
  <2> DEFINE p == Publish(rm, da, D1(connected))
  <2>1. p \in RmType /\ Keeps(rm, p)
      BY <1>0, PublishQuiet, HelpersKeep DEF Quiet
  <2> HIDE DEF p
  <2>2. Tends(p, SwitchTo(p, "DA")) /\ SwitchTo(p, "DA") \in RmType
      BY <2>1, SwitchToTends, SwitchToMoves, MovesType DEF Radios
  <2>3. Tends(rm, SwitchTo(p, "DA"))
      BY <2>1, <2>2, TendsTrans
  <2>4. R(connected) = IF connected THEN SwitchTo(p, "DA") ELSE rm
      BY DEF p
  <2> QED  BY <1>0, <2>2, <2>3, <2>4, TendsTrans
<1> HIDE DEF R, D2
<1>4. PICK o \in ReturnDaToSleep(R(connected), D2(connected)) :
         Return([o.r EXCEPT !.connecting = FALSE]) /\ da' = o.d
    BY <1>1
<1>5. Tends(rm, o.r) /\ NoGhost(o.d) /\ o.r \in RmType
    BY <1>2, <1>3, ReturnTends, ReturnMoves, MovesType, TendsTrans
<1>6. Tends(rm, [o.r EXCEPT !.connecting = FALSE])
  <2>1. Keeps(o.r, [o.r EXCEPT !.connecting = FALSE])
      BY <1>5, FieldsKeep
  <2> QED  BY <1>5, <2>1, TendsTrans
<1> QED  BY <1>0, <1>4, <1>5, <1>6, AskSteady DEF Return

(* The events of radioMgr_work_q *)
LEMMA EventsSteady ==
    ASSUME IInv, Steady, DaApEvent \/ DaMqttEvent \/ DaBrokerEvent \/ LteEvent
    PROVE  Steady'
<1>0. /\ Rest \in RmType /\ Keeps(rm, Rest) /\ da \in DaType /\ NoGhost(da)
      /\ UNCHANGED lte /\ pc = "idle"
  <2>1. PICK w \in Works \ {"SR"} : Takes(w)
      BY DEF DaApEvent, DaMqttEvent, DaBrokerEvent, LteEvent, Works
  <2>2. Rest \in RmType /\ pc = "idle"
      BY <2>1, RestQuiet DEF Quiet
  <2>3. UNCHANGED lte
      BY DEF DaApEvent, DaMqttEvent, DaBrokerEvent, LteEvent
  <2> QED  BY <2>2, <2>3, RestKeeps, IInvFacts DEF Steady
<1>1. /\ Tends(rm, Rest) /\ Tends(rm, SwitchTo(Rest, "LTE"))
      /\ SwitchTo(Rest, "LTE") \in RmType
    BY <1>0, SwitchToTends, SwitchToMoves, MovesType, TendsTrans DEF Radios
<1>2. ASSUME NEW r, r \in {Rest, SwitchTo(Rest, "LTE")}, Return(r), UNCHANGED da  PROVE Steady'
    BY <1>0, <1>1, <1>2, AskSteady DEF Return, NoGhost
<1>3. CASE DaApEvent
  <2>1. ASSUME NEW r, r = SwitchTo(Rest, "LTE") \/ r = Rest, NEW o \in ReturnDaToSleep(r, da),
               Return(o.r), da' = o.d
        PROVE  Steady'
    <3>1. r \in RmType /\ Tends(rm, r)
        BY <1>0, <1>1, <2>1
    <3>2. Tends(r, o.r) /\ NoGhost(da')
        BY <1>0, <2>1, <3>1, ReturnTends
    <3>3. Tends(rm, o.r)
        BY <3>1, <3>2, TendsTrans
    <3> QED  BY <1>0, <2>1, <3>2, <3>3, AskSteady DEF Return
  <2>2. CASE Return(Rest) /\ UNCHANGED da
      BY <1>2, <2>2
  <2> QED  BY <1>3, <2>1, <2>2 DEF DaApEvent
<1>4. CASE DaMqttEvent \/ DaBrokerEvent \/ LteEvent
  <2>1. PICK r \in {Rest, SwitchTo(Rest, "LTE")} : Return(r) /\ UNCHANGED da
      BY <1>4 DEF DaMqttEvent, DaBrokerEvent, LteEvent
  <2> QED  BY <1>2, <2>1
<1> QED  BY <1>3, <1>4

LEMMA UsbBtEventSteady ==
    ASSUME IInv, Steady, UsbBtEvent
    PROVE  Steady'
<1> DEFINE seen == [Rest EXCEPT !.lastPlugged = rm.plugged]
           d == [da EXCEPT !.ap = "F"]
           asleep == [seen EXCEPT !.useSleep = TRUE]
           awake == [seen EXCEPT !.useSleep = FALSE, !.prepped = TRUE]
<1>0. /\ Rest \in RmType /\ Keeps(rm, Rest) /\ da \in DaType /\ NoGhost(da)
      /\ UNCHANGED lte /\ pc = "idle" /\ rm.plugged \in BOOLEAN
  <2>1. Rest \in RmType /\ pc = "idle" /\ UNCHANGED lte
      BY RestQuiet DEF UsbBtEvent, Works, Quiet
  <2> QED  BY <2>1, RestKeeps, IInvFacts DEF Steady, RmType
<1>1. /\ d \in DaType /\ NoGhost(d)
      /\ NoGhost(PowerOn(d)) /\ NoGhost([PowerOn(d) EXCEPT !.sleep = "F"])
  <2>1. d \in DaType /\ NoGhost(d)
      BY <1>0 DEF DaType, Tri, NoGhost
  <2> HIDE DEF d
  <2>2. NoGhost(PowerOn(d)) /\ PowerOn(d) \in DaType
      BY <2>1, PowerKeeps, PowerTypes
  <2> QED  BY <2>1, <2>2 DEF NoGhost, DaType
<1>2. seen \in RmType /\ Keeps(rm, seen)
  <2>1. seen \in RmType /\ Keeps(Rest, seen)
      BY <1>0, FlagsQuiet, FieldsKeep DEF Quiet
  <2> QED  BY <1>0, <2>1, TendsTrans
<1>3. \/ Return(Rest) /\ UNCHANGED da
      \/ Return(seen) /\ UNCHANGED da
      \/ da' = [PowerOn(d) EXCEPT !.sleep = "F"] /\ Return(awake)
      \/ \E o \in ReturnDaToSleep(asleep, d) :
           da' = o.d /\ Return([o.r EXCEPT !.prepped = FALSE])
    BY DEF UsbBtEvent
<1> HIDE DEF seen, d
<1>4. asleep \in RmType /\ Keeps(rm, asleep) /\ Keeps(rm, awake)
  <2>1. asleep \in RmType /\ Keeps(seen, asleep) /\ Keeps(seen, awake)
      BY <1>2, FlagsQuiet, FieldsKeep DEF Quiet
  <2> QED  BY <1>2, <2>1, TendsTrans
<1> HIDE DEF asleep, awake
<1>5. ASSUME NEW s, Keeps(rm, s), Return(s), NoGhost(da')  PROVE Steady'
    BY <1>0, <1>5, TendsTrans, AskSteady DEF Return
<1>6. CASE (Return(Rest) \/ Return(seen)) /\ UNCHANGED da
    BY <1>0, <1>2, <1>5, <1>6
<1>7. CASE da' = [PowerOn(d) EXCEPT !.sleep = "F"] /\ Return(awake)
    BY <1>1, <1>4, <1>5, <1>7
<1>8. ASSUME NEW o \in ReturnDaToSleep(asleep, d),
             da' = o.d, Return([o.r EXCEPT !.prepped = FALSE])
      PROVE  Steady'
  <2>1. Tends(asleep, o.r) /\ o.r \in RmType /\ NoGhost(o.d)
      BY <1>1, <1>4, ReturnTends, ReturnMoves, MovesType
  <2>2. Keeps(o.r, [o.r EXCEPT !.prepped = FALSE])
      BY <2>1, FieldsKeep
  <2>3. Tends(rm, [o.r EXCEPT !.prepped = FALSE])
      BY <1>4, <2>1, <2>2, TendsTrans
  <2> QED  BY <1>0, <1>8, <2>1, <2>3, AskSteady DEF Return
<1> QED  BY <1>3, <1>6, <1>7, <1>8

(* The timer, and what other threads do while the work queue is idle *)
LEMMA TimerFiresSteady ==
    ASSUME IInv, Steady, TimerFires
    PROVE  Steady'
<1>1. /\ rm' = Submit(rm, "SR") /\ UNCHANGED <<da, lte, pc>> /\ timer
      /\ Tends(rm, Submit(rm, "SR")) /\ NoGhost(da)
    BY IInvFacts, HelpersKeep, TendsTrans DEF TimerFires, Steady
<1>2. pc \in {"idle", "apPrepared"}
    BY <1>1 DEF IInv, TypeOK, OneStepPending, PostNoTimer, InHandler, Places
<1> QED  BY <1>1, <1>2, AskSteady DEF NoGhost

LEMMA CallsSteady ==
    ASSUME IInv, Steady, ConcurrentRequests = FALSE,
           \/ RequestLte \/ UseConnectedAp \/ RequestConnect
           \/ WifiOff \/ WifiOn \/ PowerSourceChanges
    PROVE  Steady'
<1>0. rm \in RmType /\ NoGhost(da)
    BY IInvFacts DEF Steady
<1>1. ASSUME NEW r, Tends(rm, r), Call(r)  PROVE Steady'
  <2>1. /\ pc = "idle" /\ pc' = "idle" /\ rm' = r /\ UNCHANGED <<da, lte>>
      BY <1>1 DEF Call
  <2> QED  BY <1>0, <1>1, <2>1, AskSteady DEF NoGhost
<1>2. CASE RequestLte \/ UseConnectedAp
    BY <1>0, <1>1, <1>2, SwitchToTends DEF RequestLte, UseConnectedAp, Radios
<1>3. CASE RequestConnect
  <2>1. PICK first \in BOOLEAN :
           Call(Submit([rm EXCEPT !.connecting = TRUE, !.disconnectFirst = first], "CONNECT"))
      BY <1>3 DEF RequestConnect
  <2> DEFINE r == [rm EXCEPT !.connecting = TRUE, !.disconnectFirst = first]
  <2>2. Keeps(rm, r) /\ r \in RmType
      BY <1>0, FlagsQuiet, FieldsKeep DEF Quiet
  <2> HIDE DEF r
  <2>3. Tends(rm, Submit(r, "CONNECT"))
      BY <2>2, HelpersKeep, TendsTrans
  <2> QED  BY <1>1, <2>1, <2>3 DEF r
<1>4. CASE WifiOff
  <2> DEFINE r == [rm EXCEPT !.useWifi = FALSE]
  <2>1. Keeps(rm, r) /\ r \in RmType
      BY <1>0, FlagsQuiet, FieldsKeep DEF Quiet
  <2>2. Call(SwitchTo(r, "LTE")) \/ Call(r)
      BY <1>4 DEF WifiOff
  <2> HIDE DEF r
  <2>3. Tends(rm, r) /\ Tends(r, SwitchTo(r, "LTE"))
      BY <2>1, SwitchToTends, TendsTrans DEF Radios
  <2>4. Tends(rm, SwitchTo(r, "LTE"))
      BY <2>3, TendsTrans
  <2> QED  BY <1>1, <2>2, <2>3, <2>4
<1>5. CASE WifiOn
    BY <1>0, <1>1, <1>5, FieldsKeep, TendsTrans DEF WifiOn
<1>6. CASE PowerSourceChanges
  <2>1. Keeps(rm, [rm EXCEPT !.plugged = ~@, !.queue = Append(@, "USB")])
      BY <1>0 DEF Keeps, RmType
  <2>2. Tends(rm, [rm EXCEPT !.plugged = ~@, !.queue = Append(@, "USB")])
      BY <2>1, TendsTrans
  <2> QED  BY <1>1, <1>6, <2>2 DEF PowerSourceChanges
<1> QED  BY <1>2, <1>3, <1>4, <1>5, <1>6

(* A broker that answers takes nothing away, wherever the handler is blocked. *)
LEMMA BrokerConnectsSteady ==
    ASSUME IInv, Steady, BrokerConnects
    PROVE  Steady'
<1>1. /\ da' = [da EXCEPT !.broker = "T"] /\ rm' = Publish(rm, da, da')
      /\ UNCHANGED <<lte, pc, left>> /\ da.mqtt # "F" /\ da \in DaType
    BY IInvFacts DEF BrokerConnects, DaReports
<1>2. /\ da'.power = da.power /\ da'.mqtt = da.mqtt /\ da'.broker = "T"
    BY <1>1 DEF DaType
<1>3. Keeps(rm, rm') /\ rm'.plugged = rm.plugged
  <2>1. rm'.plugged = rm.plugged
      BY <1>1, IInvFacts DEF Publish, RmType
  <2> QED  BY <1>1, <2>1, HelpersKeep, IInvFacts
<1> QED  BY <1>1, <1>2, <1>3 DEF Steady, Keeps, Carries, NoGhost, LteReady

(* No step of the work queue but disable_lte() powers the modem off, and what a
   step uses up is at most one fault. *)
LEMMA EnableLteRest ==
    ASSUME IInv, NEW r, NEW d, EnableLte(r, d)
    PROVE  Spends /\ ModemStaysOn
<1>0. lte \in LteType
    BY IInvFacts
<1>1. CASE TurningOffBroker(r, d)
  <2>1. UNCHANGED lte /\ (UNCHANGED left \/ \E fault : Spend(fault))
      BY <1>1 DEF TurningOffBroker
  <2> QED  BY <2>1, SpendSpends DEF Spends, ModemStaysOn
<1>2. CASE PoweringModem(r, d)
  <2>1. /\ UNCHANGED lte \/ lte' = [power |-> TRUE, mqtt |-> FALSE]
        /\ UNCHANGED left \/ \E fault : Spend(fault)
      BY <1>2 DEF PoweringModem
  <2>2. ModemStaysOn
      BY <2>1 DEF ModemStaysOn
  <2> QED  BY <2>1, <2>2, SpendSpends DEF Spends
<1>3. CASE EnablingLteMqtt(r, d)
  <2>1. /\ UNCHANGED lte \/ lte' = [lte EXCEPT !.mqtt = TRUE]
        /\ UNCHANGED left \/ \E fault : Spend(fault)
      BY <1>3 DEF EnablingLteMqtt
  <2>2. ModemStaysOn
      BY <1>0, <2>1 DEF ModemStaysOn, LteType
  <2> QED  BY <2>1, <2>2, SpendSpends DEF Spends
<1>4. CASE UNCHANGED <<lte, left>>
    BY <1>4 DEF Spends, ModemStaysOn
<1> QED  BY <1>1, <1>2, <1>3, <1>4 DEF EnableLte

LEMMA StartWifiOpRest ==
    ASSUME IInv, NEW r, NEW op, StartWifiOp(r, op)
    PROVE  Spends /\ ModemStaysOn
<1>0. lte \in LteType
    BY IInvFacts
<1>1. ASSUME NEW q, NEW d, WifiEnabled(q, d)  PROVE Spends /\ ModemStaysOn
    BY <1>1, EnableLteRest DEF WifiEnabled, Spends, ModemStaysOn
<1>2. ASSUME NEW d, DaCommand(r, d)  PROVE Spends /\ ModemStaysOn
    BY <1>2, SpendSpends DEF DaCommand, Spends, ModemStaysOn
<1>3. CASE op = "DISABLING_LTE_MQTT"
    BY <1>0, <1>3, SpendSpends DEF StartWifiOp, Spends, ModemStaysOn, LteType
<1>4. CASE op = "WAKING_DA"
    BY <1>4, SpendSpends DEF StartWifiOp, Spends, ModemStaysOn
<1>5. CASE op = "STATE_TO_BE_KNOWN"
  <2>1. UNCHANGED lte /\ (Spend(TRUE) \/ UNCHANGED left)
      BY <1>5 DEF StartWifiOp
  <2> QED  BY <2>1, SpendSpends DEF Spends, ModemStaysOn
<1>6. CASE op = "TURNING_ON_BROKER_BOOT" \/ op = "TURNING_ON_BROKER"
    BY <1>2, <1>6 DEF StartWifiOp
<1>7. CASE op = "SLEEPING_DA"
  <2>1. PICK o \in ReturnDaToSleep(r, da) :
           IF o.ok THEN WifiEnabled(o.r, o.d)
           ELSE Spend(o.fault) /\ Rearm(FailOp(o.r)) /\ da' = o.d /\ UNCHANGED lte
      BY <1>7 DEF StartWifiOp
  <2>2. CASE WifiEnabled(o.r, o.d)
      BY <1>1, <2>2
  <2>3. CASE Spend(o.fault) /\ UNCHANGED lte
      BY <2>3, SpendSpends DEF ModemStaysOn
  <2> QED  BY <2>1, <2>2, <2>3
<1>8. CASE op \notin {"DISABLING_LTE_MQTT", "WAKING_DA", "STATE_TO_BE_KNOWN",
                      "TURNING_ON_BROKER_BOOT", "TURNING_ON_BROKER", "SLEEPING_DA"}
    BY <1>8 DEF StartWifiOp, Spends, ModemStaysOn
<1> QED  BY <1>3, <1>4, <1>5, <1>6, <1>7, <1>8

LEMMA WorkQueueRest ==
    ASSUME IInv, WorkQueue
    PROVE  Spends /\ (ModemStaysOn \/ DisableLte)
<1>1. CASE SwitchRadios
  <2>1. EnableLte(Rest, da) \/ UNCHANGED <<lte, left>>
      BY <1>1 DEF SwitchRadios
  <2> QED  BY <2>1, EnableLteRest DEF Spends, ModemStaysOn
<1>2. CASE EnableWifi
  <2> DEFINE op == WifiNeeds(rm, da, pc = "enWoken")
  <2>1. WifiEnabled(rm, da) \/ (\E s : StartWifiOp(s.r, op)) \/ UNCHANGED <<lte, left>>
      BY <1>2 DEF EnableWifi
  <2> HIDE DEF op
  <2>2. EnableLte(rm, da) \/ (\E s : StartWifiOp(s.r, op)) \/ UNCHANGED <<lte, left>>
      BY <2>1 DEF WifiEnabled
  <2> QED  BY <2>2, EnableLteRest, StartWifiOpRest DEF Spends, ModemStaysOn
<1>3. CASE DisableWifi
  <2>1. CASE WakingToDisable
      BY <1>3, <2>1, SpendSpends DEF DisableWifi, WakingToDisable, Spends, ModemStaysOn
  <2>2. CASE StoppingWifi
    <3>1. \E fault : Spend(fault)
        BY <2>2 DEF StoppingWifi
    <3> QED  BY <1>3, <3>1, SpendSpends DEF DisableWifi, ModemStaysOn
  <2> QED  BY <1>3, <2>1, <2>2 DEF DisableWifi
<1>4. CASE DisableLte
    BY <1>4, SpendSpends DEF DisableLte, Spends
<1>5. CASE AfterSwitch
    BY <1>5, SpendSpends DEF AfterSwitch, Spends, ModemStaysOn
<1>6. CASE ConnectToAp
    BY <1>6, SpendSpends DEF ConnectToAp, Spends, ModemStaysOn
<1>7. CASE ConnectedToAp
  <2>1. (\E fault : Spend(fault)) /\ UNCHANGED lte
      BY <1>7 DEF ConnectedToAp
  <2> QED  BY <2>1, SpendSpends DEF ModemStaysOn
<1>8. CASE DaApEvent
    BY <1>8, SpendSpends DEF DaApEvent, Spends, ModemStaysOn
<1>9. CASE DaMqttEvent \/ DaBrokerEvent \/ LteEvent
    BY <1>9 DEF DaMqttEvent, DaBrokerEvent, LteEvent, Spends, ModemStaysOn
<1>10. CASE UsbBtEvent
    BY <1>10, SpendSpends DEF UsbBtEvent, Spends, ModemStaysOn
<1> QED  BY <1>1, <1>2, <1>3, <1>4, <1>5, <1>6, <1>7, <1>8, <1>9, <1>10 DEF WorkQueue

LEMMA OthersRest ==
    ASSUME IInv, Others
    PROVE  /\ ModemStaysOn
           /\ \/ UNCHANGED left
              \/ left' = [left EXCEPT !.reqs = left.reqs - 1]
              \/ left' = [left EXCEPT !.env = left.env - 1]
<1>0. lte \in LteType
    BY IInvFacts
<1>1. CASE TimerFires \/ EightSecondsUp \/ BrokerConnects
    BY <1>1 DEF TimerFires, EightSecondsUp, BrokerConnects, DaReports, ModemStaysOn
<1>2. CASE RequestLte \/ UseConnectedAp \/ RequestConnect \/ WifiOff \/ WifiOn \/ PowerSourceChanges
  <2>1. PICK r : Call(r)
      BY <1>2 DEF RequestLte, UseConnectedAp, RequestConnect, WifiOff, WifiOn, PowerSourceChanges
  <2> QED  BY <2>1 DEF Call, ModemStaysOn
<1>3. CASE ApLost \/ ApBack \/ BrokerLost \/ SleepChanges \/ LteMqttLost
  <2>1. Setback /\ (UNCHANGED lte \/ lte' = [lte EXCEPT !.mqtt = FALSE])
      BY <1>3 DEF ApLost, ApBack, BrokerLost, SleepChanges, LteMqttLost, DaReports
  <2> QED  BY <1>0, <2>1 DEF Setback, ModemStaysOn, LteType
<1> QED  BY <1>1, <1>2, <1>3 DEF Others

(* Setbacks are never given back: until the first one, all bounds are as they were. *)
SInv == IInv /\ Bounded /\ (Calm => Steady)

LEMMA NextSteady ==
    ASSUME ConcurrentRequests = FALSE, SInv, [Next]_vars
    PROVE  SInv'
<1>0. IInv /\ IInv' /\ left \in LeftType /\ MaxEnv \in Nat /\ MaxFaults \in Nat
    BY NextGood, IInvFacts, BoundsAssumption DEF SInv
<1>1. \/ UNCHANGED left
      \/ left' = [left EXCEPT !.faults = left.faults - 1]
      \/ left' = [left EXCEPT !.reqs = left.reqs - 1]
      \/ left' = [left EXCEPT !.env = left.env - 1]
    BY <1>0, WorkQueueRest, OthersRest DEF Next, vars, Spends
<1>2. Bounded' /\ (Calm' => Calm)
    BY <1>0, <1>1 DEF SInv, Bounded, Calm, LeftType
<1>3. ASSUME Calm'  PROVE Steady'
  <2>1. Steady /\ Bounded
      BY <1>2, <1>3 DEF SInv
  <2>2. CASE WorkQueue
      BY <1>0, <2>1, <2>2, SwitchRadiosSteady, EnableWifiSteady, WakingToDisableSteady,
         StoppingWifiSteady, DisableLteSteady, AfterSwitchSteady, ConnectToApSteady,
         ConnectedToApSteady, EventsSteady, UsbBtEventSteady DEF WorkQueue, DisableWifi
  <2>3. CASE ApLost \/ ApBack \/ BrokerLost \/ SleepChanges \/ LteMqttLost
    <3>1. Setback
        BY <2>3 DEF ApLost, ApBack, BrokerLost, SleepChanges, LteMqttLost
    <3> QED  BY <1>0, <1>2, <1>3, <3>1 DEF Setback, Calm, LeftType
  <2>4. CASE EightSecondsUp \/ UNCHANGED vars
      BY <2>1, <2>4 DEF EightSecondsUp, vars, Steady, Carries, NoGhost, LteReady
  <2>5. CASE \/ RequestLte \/ UseConnectedAp \/ RequestConnect
             \/ WifiOff \/ WifiOn \/ PowerSourceChanges
      BY <1>0, <2>1, <2>5, CallsSteady
  <2>6. CASE TimerFires \/ BrokerConnects
      BY <1>0, <2>1, <2>6, TimerFiresSteady, BrokerConnectsSteady
  <2> QED  BY <2>2, <2>3, <2>4, <2>5, <2>6 DEF Next, Others
<1> QED  BY <1>0, <1>2, <1>3 DEF SInv

LEMMA SteadyIsRight ==
    ASSUME IInv, Steady
    PROVE  RightRadioOn
  BY IInvFacts DEF Steady, Carries, NoGhost, LteReady, RightRadioOn

LEMMA InitSteady ==
    ASSUME Init
    PROVE  SInv
<1>1. IInv
    BY InitIInv
<1>2. Bounded
    BY BoundsAssumption DEF Init, Bounded
<1>3. Steady
    BY DEF Init, Steady, NoGhost
<1> QED  BY <1>1, <1>2, <1>3 DEF SInv

(* Until the first setback, a step that powers the modem off finds Wi-Fi in use. *)
LEMMA OffNeedsWifi ==
    ASSUME SInv, Calm, [Next]_vars, lte.power, ~lte'.power
    PROVE  da.power /\ da.mqtt = "T" /\ da.broker = "T"
<1>1. DisableLte
    BY WorkQueueRest, OthersRest DEF SInv, Next, vars, ModemStaysOn
<1> QED  BY <1>1 DEF SInv, Steady, DisableLte, Carries

-----------------------------------------------------------------------------
(* The theorems *)

(* radioMgr.c keeps its globals, its shadow of the DA and its queue within their
   types, whatever the bounds: the variables of radioMgr.c:23-93. *)
THEOREM TypeCorrect == Spec => []TypeOK
<1>1. Init => IInv
    BY InitIInv
<1>2. IInv /\ [Next]_vars => IInv'
    BY NextGood
<1>3. IInv => TypeOK
    BY DEF IInv
<1> QED  BY <1>1, <1>2, <1>3, PTL DEF Spec

(* While a switch is under way, switch_radios_work_handler() is queued, blocked in
   the middle or waited for by its timer: exactly one of these, and none when no
   switch is under way.  A switch can neither hang unscheduled nor run twice. *)
THEOREM SwitchStaysScheduled == Spec => []OneStepPending
<1>1. Init => IInv
    BY InitIInv
<1>2. IInv /\ [Next]_vars => IInv'
    BY NextGood
<1>3. IInv => OneStepPending
    BY DEF IInv
<1> QED  BY <1>1, <1>2, <1>3, PTL DEF Spec

(* The radio manager implements RadioSwitch: rm_get_active_mqtt_radio() only ever
   changes when a switch ends, and then to the radio rm_switch_to() was last
   called with. *)
THEOREM ImplementsSwitch == Spec => SwitchSteps
<1>1. Init => IInv /\ Switch!Init
    BY InitIInv
<1>2. IInv /\ [Next]_vars => IInv' /\ [Switch!Next]_(Switch!vars)
    BY NextGood
<1> QED  BY <1>1, <1>2, PTL DEF Spec, SwitchSteps, Switch!Spec

(* Whenever no switch is under way, the radio that carries MQTT is the one that
   was asked for last: what callers of rm_switch_to() may rely on. *)
THEOREM NoSwitchMeansWanted == Spec => []Switch!ActiveIsWanted
<1>1. Switch!Init => Switch!ActiveIsWanted
    BY DEF Switch!Init, Switch!ActiveIsWanted
<1>2. Switch!ActiveIsWanted /\ [Switch!Next]_(Switch!vars) => Switch!ActiveIsWanted'
    BY DEF Switch!ActiveIsWanted, Switch!Next, Switch!Finish, Switch!Request, Switch!vars
<1>3. Spec => SwitchSteps
    BY ImplementsSwitch
<1> QED  BY <1>1, <1>2, <1>3, PTL DEF SwitchSteps, Switch!Spec

(* The right radio is on when it becomes active: as long as no radio has had a
   setback of its own, whatever commands failed, and if nobody calls into the manager
   while its work queue runs, switch_radios_work_handler() commits to a radio that is
   powered and has MQTT; if no command failed either, the other one is off. *)
THEOREM RightRadioUntilSetback ==
    ASSUME ConcurrentRequests = FALSE
    PROVE  Spec => [](left.env = MaxEnv => RightRadioOn)
<1>1. Init => SInv
    BY InitSteady
<1>2. SInv /\ [Next]_vars => SInv'
    BY NextSteady
<1>3. SInv => (left.env = MaxEnv => RightRadioOn)
    BY SteadyIsRight DEF SInv, Calm
<1> QED  BY <1>1, <1>2, <1>3, PTL DEF Spec

(* The same for radios without setbacks, where it is an invariant. *)
THEOREM RightRadio ==
    ASSUME ConcurrentRequests = FALSE, MaxEnv = 0
    PROVE  Spec => []RightRadioOn
<1>1. Init => SInv
    BY InitSteady
<1>2. SInv /\ [Next]_vars => SInv'
    BY NextSteady
<1>3. SInv => RightRadioOn
  <2>1. SInv => left.env \in Nat /\ left.env <= MaxEnv
      BY IInvFacts DEF SInv, Bounded, LeftType
  <2>2. SInv => Calm
      BY <2>1 DEF Calm
  <2> QED  BY <2>2, SteadyIsRight DEF SInv
<1> QED  BY <1>1, <1>2, <1>3, PTL DEF Spec

(* disable_lte() powers the modem off only while Wi-Fi carries MQTT, as long as no
   radio has had a setback and requests come one at a time: a switch that has yet to
   succeed never leaves the collar without a radio. *)
THEOREM ModemOffUntilSetback ==
    ASSUME ConcurrentRequests = FALSE
    PROVE  Spec => [][left.env = MaxEnv /\ lte.power /\ ~lte'.power
                        => da.power /\ da.mqtt = "T" /\ da.broker = "T"]_vars
<1>1. Init => SInv
    BY InitSteady
<1>2. SInv /\ [Next]_vars => SInv'
    BY NextSteady
<1>3. SInv /\ [Next]_vars
      => [left.env = MaxEnv /\ lte.power /\ ~lte'.power
            => da.power /\ da.mqtt = "T" /\ da.broker = "T"]_vars
    BY OffNeedsWifi DEF Calm
<1> QED  BY <1>1, <1>2, <1>3, PTL DEF Spec

(* The same for radios without setbacks. *)
THEOREM ModemOffOnlyWithWifi ==
    ASSUME ConcurrentRequests = FALSE, MaxEnv = 0
    PROVE  Spec => ModemOffNeedsWifi
<1>1. Init => SInv
    BY InitSteady
<1>2. SInv /\ [Next]_vars => SInv'
    BY NextSteady
<1>3. SInv => Calm
  <2>1. SInv => left.env \in Nat /\ left.env <= MaxEnv
      BY IInvFacts DEF SInv, Bounded, LeftType
  <2> QED  BY <2>1 DEF Calm
<1>4. SInv /\ [Next]_vars
      => [lte.power /\ ~lte'.power => da.power /\ da.mqtt = "T" /\ da.broker = "T"]_vars
    BY <1>3, OffNeedsWifi
<1> QED  BY <1>1, <1>2, <1>4, PTL DEF Spec, ModemOffNeedsWifi
=============================================================================
