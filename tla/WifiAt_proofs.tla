---------------------------- MODULE WifiAt_proofs ----------------------------
(***************************************************************************)
(* Safety of the DA16200's AT commands, for any number of callers, buffers *)
(* and messages in the queue.                                              *)
(***************************************************************************)
EXTENDS WifiAt, TLAPS

Labels == Callers \cup {None, "late", "left"}
Doing == [step : Steps, place : {"none", "lock", "send", "wait"},
          saw : SUBSET Kinds, took : Labels, slipped : BOOLEAN]
Held(step) == (IF step \in ModeSteps THEN 1 ELSE 0) + (IF step \in WakeSteps THEN 1 ELSE 0)

(* Where the callers can be: a mutex that was given back once too often is
   missed only at the end of a change of mode. *)
Places ==
    \A c \in Callers :
        /\ caller[c].step = "idle" <=> caller[c].place = "none"
        /\ caller[c].step = "mode" => caller[c].place = "lock"
        /\ caller[c].slipped => caller[c].step \in {"again", "last"}

FreeIsZero == lock.owner = None <=> lock.count = 0

Balanced == Places /\ FreeIsZero /\ LockIsBalanced

-----------------------------------------------------------------------------
(* What follows a command: the mutex is taken and given back as the next one
   needs it, but for the one way out. *)
LEMMA AfterFacts ==
    ASSUME NEW step \in Steps, NEW good \in BOOLEAN, NEW next \in After(step, good)
    PROVE  /\ next[1] \in {"idle"} \cup ModeSteps
           /\ next[2] \in {-2, -1, 0, 1}
           /\ next[1] \in ModeSteps => step \in ModeSteps
           /\ next[2] = 1 => step = "check" /\ next[1] = "pulse"
           /\ next[2] = -2 => step = "stay" /\ next[1] = "again"
           /\ next[2] # -2 /\ step \in ModeSteps => next[2] = Held(next[1]) - Held(step)
           /\ step \notin ModeSteps => next[2] = 0
           /\ step \in {"again", "last"} => next[1] \in {"last", "idle"}
BY DEF After, Steps, Calls, ModeSteps, WakeSteps, Held

(* Giving the mutex back leaves a mutex. *)
LEMMA UnlockedType ==
    ASSUME TypeOK, NEW c \in Callers, NEW n \in Int, n >= 0
    PROVE  Unlocked(c, n) \in [owner : Callers \cup {None}, count : Nat]
BY DEF TypeOK, Unlocked

(* Whatever a caller goes on to has its type. *)
LEMMA GoOnType ==
    ASSUME TypeOK, NEW c \in Callers, NEW good \in BOOLEAN, NEW held \in {0, 1},
           NEW took \in Labels, GoOn(c, good, held, took)
    PROVE  /\ lock' \in [owner : Callers \cup {None}, count : Nat]
           /\ caller' \in [Callers -> Doing]
<1>1. PICK next \in After(caller[c].step, good) :
          /\ lock' = IF next[2] = 1
                     THEN [owner |-> c, count |-> Unlocked(c, held).count + 1]
                     ELSE Unlocked(c, held - next[2])
          /\ caller' = [caller EXCEPT ![c] =
                 [Idle EXCEPT !.step = next[1],
                              !.place = IF next[1] = "idle" THEN "none" ELSE "lock",
                              !.took = took,
                              !.slipped = next[1] # "idle"
                                          /\ (caller[c].slipped \/ next[2] = -2)]]
  BY DEF GoOn
<1>2. caller \in [Callers -> Doing]
  BY DEF TypeOK, Doing, Labels
<1>3. caller[c].step \in Steps /\ caller[c].slipped \in BOOLEAN
  BY <1>2 DEF Doing
<1>4. next[1] \in {"idle"} \cup ModeSteps /\ next[2] \in {-2, -1, 0, 1}
  BY <1>3, AfterFacts
<1>5. lock' \in [owner : Callers \cup {None}, count : Nat]
  <2>1. Unlocked(c, held).count \in Nat
    BY UnlockedType
  <2>2. next[2] # 1 => held - next[2] \in Int /\ held - next[2] >= 0
    BY <1>4
  <2> QED  BY <1>1, <2>1, <2>2, UnlockedType
<1>6. [Idle EXCEPT !.step = next[1],
                   !.place = IF next[1] = "idle" THEN "none" ELSE "lock",
                   !.took = took,
                   !.slipped = next[1] # "idle" /\ (caller[c].slipped \/ next[2] = -2)] \in Doing
  BY <1>4 DEF Idle, Doing, Labels, Steps
<1>7. caller' \in [Callers -> Doing]
  BY <1>1, <1>2, <1>6
<1> QED  BY <1>5, <1>7

LEMMA RelabelledType ==
    ASSUME NEW line \in Line, NEW c \in Callers, NEW label \in {"late", "left"}
    PROVE  Relabelled(c, line, label) \in Line
BY DEF Relabelled, Line

(* Forgetting an answer changes lines, and no more. *)
LEMMA ForgetType ==
    ASSUME TypeOK, NEW c \in Callers, NEW label \in {"late", "left"}, Forget(c, label)
    PROVE  /\ out' \in Seq(Line)
           /\ driver' \in [buf : Buffers \cup {None}, line : Line]
           /\ content' \in [Buffers -> Line]
           /\ DriverHas' = DriverHas
<1>1. out \in Seq(Line) /\ content \in [Buffers -> Line]
      /\ driver \in [buf : Buffers \cup {None}, line : Line]
  BY DEF TypeOK
<1>2. out' \in Seq(Line)
  <2>1. \A i \in DOMAIN out : out[i] \in Line
    BY <1>1
  <2>2. out' = [i \in 1..Len(out) |-> Relabelled(c, out[i], label)]
    BY <1>1 DEF Forget
  <2>3. \A i \in 1..Len(out) : Relabelled(c, out[i], label) \in Line
    BY <1>1, <2>1, RelabelledType
  <2>4. Len(out) \in Nat
    BY <1>1
  <2> QED  BY <2>2, <2>3, <2>4
<1>3. driver' \in [buf : Buffers \cup {None}, line : Line]
  BY <1>1, RelabelledType DEF Forget
<1>4. content' \in [Buffers -> Line]
  BY <1>1, RelabelledType DEF Forget
<1>5. DriverHas' = DriverHas
  BY <1>1 DEF Forget, DriverHas
<1> QED  BY <1>2, <1>3, <1>4, <1>5

-----------------------------------------------------------------------------
(* Lines of the DA have their type. *)
LEMMA LineTypes ==
    /\ Blank \in Line
    /\ \A kind \in Kinds, l \in Labels : [kind |-> kind, of |-> l] \in Line
BY DEF Blank, Line, Kinds, Labels

LEMMA TypeInit == Init => TypeOK
<1> SUFFICES ASSUME Init  PROVE TypeOK
  OBVIOUS
<1>1. Idle \in [step : Steps, place : {"none", "lock", "send", "wait"},
                saw : SUBSET Kinds, took : Callers \cup {None, "late", "left"},
                slipped : BOOLEAN]
  BY DEF Idle, Steps
<1>2. 0 \in 0..MaxFails /\ 0 \in 0..MaxCalls /\ 0 \in 0..MaxEvents /\ 0 <= MaxQueue
  BY WifiAssumption
<1> QED  BY <1>1, <1>2, LineTypes DEF Init, TypeOK, Reading

LEMMA BeginType ==
    ASSUME TypeOK, NEW c \in Callers, Begin(c)
    PROVE  TypeOK'
<1>1. caller \in [Callers -> Doing]
  BY DEF TypeOK, Doing, Labels
<1>2. PICK call \in Calls :
          caller' = [caller EXCEPT ![c] = [Idle EXCEPT !.step = call, !.place = "lock"]]
  BY DEF Begin
<1>3. [Idle EXCEPT !.step = call, !.place = "lock"] \in Doing
  BY DEF Idle, Doing, Labels, Steps
<1>4. caller' \in [Callers -> Doing]
  BY <1>1, <1>2, <1>3
<1>5. calls' \in 0..MaxCalls
  BY WifiAssumption DEF Begin, TypeOK
<1> QED  BY <1>4, <1>5 DEF Begin, TypeOK, Doing, Labels, link, memory

(* The buffers that are freed are buffers. *)
LEMMA FreedType ==
    ASSUME TypeOK, NEW n \in 0..Len(queue)
    PROVE  FreedBy(n) \subseteq Buffers
<1>1. queue \in Seq(Message)
  BY DEF TypeOK
<1>2. \A i \in 1..Len(queue) : queue[i] \in Message
  BY <1>1
<1>3. \A i \in 1..Len(queue) : queue[i].buf \in Buffers
  BY <1>2 DEF Message
<1>4. \A i \in 1..n : i \in 1..Len(queue)
  BY <1>1
<1> QED  BY <1>3, <1>4 DEF FreedBy

LEMMA TakeMutexType ==
    ASSUME TypeOK, NEW c \in Callers, TakeMutex(c)
    PROVE  TypeOK'
<1>1. caller \in [Callers -> Doing] /\ lock \in [owner : Callers \cup {None}, count : Nat]
  BY DEF TypeOK, Doing, Labels
<1>2. lock' \in [owner : Callers \cup {None}, count : Nat]
  BY <1>1 DEF TakeMutex, Locked
<1>3. caller' \in [Callers -> Doing]
  BY <1>1 DEF TakeMutex, Doing, Steps, ModeSteps
<1>4. queue' \in Seq(Message) /\ Len(queue') <= MaxQueue /\ live' \subseteq Buffers
  <2>1. CASE caller[c].step = "mode"
    BY <2>1 DEF TakeMutex, TypeOK
  <2>2. CASE caller[c].step # "mode"
    BY <2>2, WifiAssumption DEF TakeMutex, TypeOK
  <2> QED  BY <2>1, <2>2
<1> QED  BY <1>2, <1>3, <1>4 DEF TakeMutex, TypeOK, Doing, Labels, link, bounds

LEMMA GiveUpType ==
    ASSUME TypeOK, NEW c \in Callers, GiveUp(c)
    PROVE  TypeOK'
<1>1. GoOn(c, FALSE, 0, None) /\ None \in Labels
  BY DEF GiveUp, Labels
<1>2. lock' \in [owner : Callers \cup {None}, count : Nat] /\ caller' \in [Callers -> Doing]
  BY <1>1, GoOnType
<1> QED  BY <1>2 DEF GiveUp, TypeOK, Doing, Labels, link, memory, bounds

LEMMA SendType ==
    ASSUME TypeOK, NEW c \in Callers, Send(c)
    PROVE  TypeOK'
<1>1. caller \in [Callers -> Doing] /\ out \in Seq(Line)
  BY DEF TypeOK, Doing, Labels
<1>2. caller' \in [Callers -> Doing]
  BY <1>1 DEF Send, Doing
<1>3. PICK answer \in Answers(caller[c].step) :
          out' = out \o [i \in DOMAIN answer |-> [kind |-> answer[i], of |->
                             IF answer[i] = "wakeup" THEN None ELSE c]]
  BY DEF Send
<1>4. answer \in Seq(Kinds)
  <2>1. answer \in {<<>>, <<"ok">>, <<"value", "ok">>, <<"ok", "scan">>, <<"scan", "ok">>,
                    <<"wakeup">>, <<"wakeup", "wakeup">>, <<"error">>}
    BY DEF Answers
  <2>2. \A a, b \in Kinds : <<a>> \in Seq(Kinds) /\ <<a, b>> \in Seq(Kinds)
    OBVIOUS
  <2>3. {"ok", "value", "scan", "wakeup", "error"} \subseteq Kinds /\ <<>> \in Seq(Kinds)
    BY DEF Kinds
  <2> QED  BY <2>1, <2>2, <2>3
<1>5. [i \in DOMAIN answer |-> [kind |-> answer[i], of |->
          IF answer[i] = "wakeup" THEN None ELSE c]] \in Seq(Line)
  <2> DEFINE line(i) == [kind |-> answer[i], of |-> IF answer[i] = "wakeup" THEN None ELSE c]
  <2>1. \A i \in 1..Len(answer) : answer[i] \in Kinds
    BY <1>4
  <2>2. \A i \in 1..Len(answer) : line(i) \in Line
    BY <2>1 DEF Line
  <2>3. DOMAIN answer = 1..Len(answer) /\ Len(answer) \in Nat
    BY <1>4
  <2> HIDE DEF line
  <2>4. [i \in 1..Len(answer) |-> line(i)] \in Seq(Line)
    BY <2>2, <2>3
  <2> QED  BY <2>3, <2>4 DEF line
<1>6. out' \in Seq(Line)
  BY <1>1, <1>3, <1>5
<1> QED  BY <1>2, <1>6 DEF Send, TypeOK, Doing, Labels, memory, bounds

LEMMA FailType ==
    ASSUME TypeOK, NEW c \in Callers, Fail(c)
    PROVE  TypeOK'
<1>1. GoOn(c, FALSE, 1, None) /\ Forget(c, "late") /\ None \in Labels
  BY DEF Fail, Labels
<1>2. lock' \in [owner : Callers \cup {None}, count : Nat] /\ caller' \in [Callers -> Doing]
  BY <1>1, GoOnType
<1>3. /\ out' \in Seq(Line)
      /\ driver' \in [buf : Buffers \cup {None}, line : Line]
      /\ content' \in [Buffers -> Line]
  BY <1>1, ForgetType
<1> QED  BY <1>2, <1>3 DEF Fail, TypeOK, Doing, Labels, bounds

LEMMA ReceiveType ==
    ASSUME TypeOK, NEW c \in Callers, Receive(c)
    PROVE  TypeOK'
<1>1. /\ queue \in Seq(Message) /\ Len(queue) <= MaxQueue /\ queue # <<>>
      /\ caller \in [Callers -> Doing]
      /\ content \in [Buffers -> Line]
      /\ live \subseteq Buffers /\ lost \subseteq Buffers
  BY DEF TypeOK, Receive, Doing, Labels
<1>2. 1 \in 0..Len(queue) /\ Head(queue) \in Message
  BY <1>1
<1>3. PICK line \in Reads(Head(queue).buf) :
          LET step == caller[c].step
              wanted == line.kind \in Wants(step)
              refused == line.kind = "error" /\ step # "pulse"
              saw == caller[c].saw \cup (Wants(step) \cap {line.kind})
              took == IF caller[c].took = "late" /\ line.of = c THEN "late" ELSE line.of
              drops == step = "scan" /\ ~wanted /\ ~refused
          IN  /\ live' = live \ IF drops THEN {} ELSE FreedBy(1)
              /\ lost' = lost \cup IF drops THEN FreedBy(1) ELSE {}
              /\ IF refused \/ (wanted /\ Ends(step, saw, line.kind))
                 THEN /\ GoOn(c, ~refused, 1, took)
                      /\ Forget(c, IF took = "late" THEN "late" ELSE "left")
                 ELSE /\ caller' = [caller EXCEPT
                             ![c].saw = saw, ![c].took = IF wanted THEN took ELSE @]
                      /\ UNCHANGED <<lock, link, content>>
  BY DEF Receive
<1> DEFINE step == caller[c].step
           wanted == line.kind \in Wants(step)
           refused == line.kind = "error" /\ step # "pulse"
           saw == caller[c].saw \cup (Wants(step) \cap {line.kind})
           took == IF caller[c].took = "late" /\ line.of = c THEN "late" ELSE line.of
           drops == step = "scan" /\ ~wanted /\ ~refused
<1>4. line \in Line
  BY <1>1, <1>2, LineTypes DEF Reads, Message
<1>5. live' \subseteq Buffers /\ lost' \subseteq Buffers
  BY <1>1, <1>2, <1>3, FreedType
<1>6. took \in Labels /\ saw \in SUBSET Kinds /\ (~refused) \in BOOLEAN
  BY <1>1, <1>4 DEF Line, Labels, Doing
<1>7. queue' \in Seq(Message) /\ Len(queue') <= MaxQueue
  BY <1>1, WifiAssumption DEF Receive
<1>8. /\ lock' \in [owner : Callers \cup {None}, count : Nat]
      /\ caller' \in [Callers -> Doing]
      /\ out' \in Seq(Line)
      /\ driver' \in [buf : Buffers \cup {None}, line : Line]
      /\ content' \in [Buffers -> Line]
  <2>1. CASE refused \/ (wanted /\ Ends(step, saw, line.kind))
    <3>1. GoOn(c, ~refused, 1, took) /\ Forget(c, IF took = "late" THEN "late" ELSE "left")
      BY <1>3, <2>1
    <3> HIDE DEF refused, took
    <3>2. (IF took = "late" THEN "late" ELSE "left") \in {"late", "left"}
      OBVIOUS
    <3> QED  BY <1>6, <3>1, <3>2, GoOnType, ForgetType
  <2>2. CASE ~(refused \/ (wanted /\ Ends(step, saw, line.kind)))
    <3>1. caller' = [caller EXCEPT ![c].saw = saw, ![c].took = IF wanted THEN took ELSE @]
          /\ UNCHANGED <<lock, link, content>>
      BY <1>3, <2>2
    <3>2. caller' \in [Callers -> Doing]
      <4> HIDE DEF saw, took, wanted
      <4> QED  BY <1>1, <1>6, <3>1 DEF Doing
    <3> QED  BY <3>1, <3>2 DEF link, TypeOK
  <2> QED  BY <2>1, <2>2
<1> QED  BY <1>5, <1>7, <1>8 DEF Receive, TypeOK, Doing, Labels, bounds

LEMMA EmitType ==
    ASSUME TypeOK, Emit
    PROVE  TypeOK'
<1>1. PICK kind \in Unasked : out' = Append(out, [kind |-> kind, of |-> None])
  BY DEF Emit
<1>2. [kind |-> kind, of |-> None] \in Line
  BY DEF Line, Unasked, Kinds
<1>3. out' \in Seq(Line)
  BY <1>1, <1>2 DEF TypeOK
<1>4. events' \in 0..MaxEvents
  BY WifiAssumption DEF Emit, TypeOK
<1> QED  BY <1>3, <1>4 DEF Emit, TypeOK, memory

LEMMA ReadLineType ==
    ASSUME TypeOK, ReadLine
    PROVE  TypeOK'
<1>1. /\ queue \in Seq(Message) /\ Len(queue) <= MaxQueue
      /\ out \in Seq(Line) /\ out # <<>> /\ out' = Tail(out)
      /\ content \in [Buffers -> Line] /\ live \subseteq Buffers
      /\ fails \in 0..MaxFails
  BY DEF TypeOK, ReadLine
<1>2. PICK n \in 0..Len(queue) :
          /\ queue' = SubSeq(queue, n + 1, Len(queue))
          /\ \/ \E b \in Room(n) :
                    /\ driver' = Reading(b, Head(out))
                    /\ live' = (live \ FreedBy(n)) \cup {b}
                    /\ content' = [content EXCEPT ![b] = Blank]
                    /\ fails' = 0
             \/ /\ Room(n) = {} /\ fails < MaxFails
                /\ fails' = fails + 1
                /\ live' = live \ FreedBy(n)
                /\ UNCHANGED <<driver, content>>
  BY DEF ReadLine
<1>3. out' \in Seq(Line) /\ Head(out) \in Line
  BY <1>1
<1>4. queue' \in Seq(Message) /\ Len(queue') <= MaxQueue
  <2>1. \A i \in 1..Len(queue) : queue[i] \in Message
    BY <1>1
  <2>2. n \in Nat /\ n <= Len(queue) /\ Len(queue) \in Nat
    BY <1>1
  <2> QED  BY <1>1, <1>2, <2>1, <2>2, WifiAssumption
<1>5. /\ driver' \in [buf : Buffers \cup {None}, line : Line]
      /\ content' \in [Buffers -> Line]
      /\ live' \subseteq Buffers
      /\ fails' \in 0..MaxFails
  <2>1. CASE \E b \in Room(n) :
                 /\ driver' = Reading(b, Head(out))
                 /\ live' = (live \ FreedBy(n)) \cup {b}
                 /\ content' = [content EXCEPT ![b] = Blank]
                 /\ fails' = 0
    BY <1>1, <1>3, <2>1, LineTypes, WifiAssumption DEF Room, Reading
  <2>2. CASE /\ fails < MaxFails /\ fails' = fails + 1
             /\ live' = live \ FreedBy(n)
             /\ UNCHANGED <<driver, content>>
    BY <1>1, <2>2, WifiAssumption DEF TypeOK
  <2> QED  BY <1>2, <2>1, <2>2
<1> QED  BY <1>3, <1>4, <1>5 DEF ReadLine, TypeOK, bounds

LEMMA RebootType ==
    ASSUME TypeOK, Reboot
    PROVE  TypeOK'
<1>1. Idle \in Doing
  BY DEF Idle, Doing, Labels, Steps
<1>2. 0 \in 0..MaxFails /\ 0 <= MaxQueue
  BY WifiAssumption
<1> QED  BY <1>1, <1>2, LineTypes DEF Reboot, TypeOK, Reading, bounds, Doing, Labels

(* Putting a message into the queue: there it is, with its buffer still taken, or
   the queue is as it was. *)
LEMMA PutType ==
    ASSUME TypeOK, NEW refs \in 1..2, driver.buf # None, Put(refs)
    PROVE  queue' \in Seq(Message) /\ Len(queue') <= MaxQueue /\ live' \subseteq Buffers
<1>1. /\ queue \in Seq(Message) /\ Len(queue) <= MaxQueue /\ live \subseteq Buffers
      /\ driver.buf \in Buffers
  BY DEF TypeOK
<1>2. CASE Len(queue) < MaxQueue
  <2>1. queue' = Append(queue, [buf |-> driver.buf, refs |-> refs]) /\ live' = live
    BY <1>2 DEF Put
  <2>2. [buf |-> driver.buf, refs |-> refs] \in Message
    BY <1>1 DEF Message
  <2>3. Len(queue') = Len(queue) + 1 /\ Len(queue) \in Nat
    BY <1>1, <2>1, <2>2
  <2> QED  BY <1>1, <1>2, <2>1, <2>2, <2>3, WifiAssumption
<1>3. CASE ~(Len(queue) < MaxQueue)
  BY <1>1, <1>3 DEF Put
<1> QED  BY <1>2, <1>3

LEMMA DeliverType ==
    ASSUME TypeOK, Deliver
    PROVE  TypeOK'
<1>1. /\ driver.buf \in Buffers /\ driver.buf # None /\ driver.line \in Line
      /\ content \in [Buffers -> Line]
      /\ live \subseteq Buffers /\ handling \subseteq Buffers /\ lost \subseteq Buffers
      /\ queue \in Seq(Message) /\ Len(queue) <= MaxQueue
  BY DEF TypeOK, Deliver
<1>2. driver' \in [buf : Buffers \cup {None}, line : Line]
  BY LineTypes DEF Deliver, Reading
<1>3. content' \in [Buffers -> Line]
  BY <1>1 DEF Deliver
<1>4. /\ queue' \in Seq(Message) /\ Len(queue') <= MaxQueue /\ live' \subseteq Buffers
      /\ handling' \subseteq Buffers /\ lost' \subseteq Buffers
  <2>1. CASE live' = live \ {driver.buf} /\ UNCHANGED <<queue, handling, lost>>
    BY <1>1, <2>1
  <2>2. CASE Put(1) /\ UNCHANGED <<handling, lost>>
    BY <1>1, <2>2, PutType
  <2>3. CASE /\ Put(2)
             /\ \/ handling' = handling \cup {driver.buf} /\ UNCHANGED lost
                \/ lost' = lost \cup {driver.buf} /\ UNCHANGED handling
    BY <1>1, <2>3, PutType
  <2> QED  BY <2>1, <2>2, <2>3 DEF Deliver, CountedCopy
<1> QED  BY <1>2, <1>3, <1>4 DEF Deliver, TypeOK, bounds

LEMMA HandleType ==
    ASSUME TypeOK, Handle
    PROVE  TypeOK'
BY DEF Handle, TypeOK, link, bounds

LEMMA TypeNext == TypeOK /\ [Next]_vars => TypeOK'
<1> SUFFICES ASSUME TypeOK, [Next]_vars  PROVE TypeOK'
  OBVIOUS
<1>1. CASE UNCHANGED vars
  BY <1>1 DEF vars, TypeOK
<1>2. ASSUME NEW c \in Callers,
             Begin(c) \/ TakeMutex(c) \/ GiveUp(c) \/ Send(c) \/ Fail(c) \/ Receive(c)
      PROVE  TypeOK'
  BY <1>2, BeginType, TakeMutexType, GiveUpType, SendType, FailType, ReceiveType
<1>3. CASE Emit \/ ReadLine \/ Deliver \/ Handle \/ Reboot
  BY <1>3, EmitType, ReadLineType, DeliverType, HandleType, RebootType
<1> QED  BY <1>1, <1>2, <1>3 DEF Next

-----------------------------------------------------------------------------
(* No two messages of the queue own the same buffer. *)
NoneTwice ==
    \A i, j \in DOMAIN queue :
        queue[i].refs = 1 /\ queue[j].refs = 1 /\ queue[i].buf = queue[j].buf => i = j

(* A step that leaves memory and messages alone *)
LEMMA SameOwners ==
    ASSUME OneOwner, UNCHANGED <<live, queue, handling, lost>>, DriverHas' = DriverHas
    PROVE  OneOwner'
BY DEF OneOwner, QueueHas, FreedBy

(* When messages leave the head of the queue, the buffers they own leave it, and
   no other. *)
LEMMA DropFirst ==
    ASSUME TypeOK, NoneTwice, NEW n \in 0..Len(queue),
           queue' = SubSeq(queue, n + 1, Len(queue))
    PROVE  /\ FreedBy(n) \subseteq QueueHas
           /\ QueueHas' = QueueHas \ FreedBy(n)
           /\ NoneTwice'
<1>1. queue \in Seq(Message) /\ Len(queue) \in Nat /\ n \in Nat /\ n <= Len(queue)
  BY DEF TypeOK
<1>2. Len(queue') = Len(queue) - n /\ \A i \in 1..(Len(queue) - n) : queue'[i] = queue[i + n]
  BY <1>1
<1>3. DOMAIN queue = 1..Len(queue) /\ DOMAIN queue' = 1..(Len(queue) - n)
  BY <1>1, <1>2
<1>4. FreedBy(n) \subseteq QueueHas
  BY <1>1 DEF FreedBy, QueueHas
<1>5. NoneTwice'
  <2> SUFFICES ASSUME NEW i \in 1..(Len(queue) - n), NEW j \in 1..(Len(queue) - n),
                      queue'[i].refs = 1, queue'[j].refs = 1, queue'[i].buf = queue'[j].buf
               PROVE  i = j
    BY <1>3 DEF NoneTwice
  <2>1. i + n \in DOMAIN queue /\ j + n \in DOMAIN queue
    BY <1>1, <1>3
  <2>2. i + n = j + n
    BY <1>2, <2>1 DEF NoneTwice
  <2> QED  BY <1>1, <2>2
<1>6. QueueHas' \subseteq QueueHas \ FreedBy(n)
  <2> SUFFICES ASSUME NEW b \in QueueHas'  PROVE b \in QueueHas /\ b \notin FreedBy(n)
    OBVIOUS
  <2>1. PICK i \in 1..(Len(queue) - n) : queue'[i].refs = 1 /\ queue'[i].buf = b
    BY <1>2 DEF QueueHas, FreedBy
  <2>2. i + n \in 1..Len(queue) /\ queue[i + n].refs = 1 /\ queue[i + n].buf = b
    BY <1>1, <1>2, <2>1
  <2>3. b \in QueueHas
    BY <2>2 DEF QueueHas, FreedBy
  <2>4. \A j \in 1..n : queue[j].refs = 1 => queue[j].buf # b
    BY <1>1, <1>3, <2>1, <2>2 DEF NoneTwice
  <2> QED  BY <2>3, <2>4 DEF FreedBy
<1>7. QueueHas \ FreedBy(n) \subseteq QueueHas'
  <2> SUFFICES ASSUME NEW b \in QueueHas, b \notin FreedBy(n)  PROVE b \in QueueHas'
    OBVIOUS
  <2>1. PICK i \in 1..Len(queue) : queue[i].refs = 1 /\ queue[i].buf = b
    BY DEF QueueHas, FreedBy
  <2>2. i \notin 1..n
    BY <2>1 DEF FreedBy
  <2>3. i - n \in 1..(Len(queue) - n) /\ queue'[i - n] = queue[i]
    BY <1>1, <1>2, <2>1, <2>2
  <2> QED  BY <1>2, <2>1, <2>3 DEF QueueHas, FreedBy
<1> QED  BY <1>4, <1>5, <1>6, <1>7

LEMMA OwnerParts ==
    OneOwner <=> /\ live = DriverHas \cup QueueHas \cup handling \cup lost
                 /\ DriverHas \cap (QueueHas \cup handling \cup lost) = {}
                 /\ QueueHas \cap (handling \cup lost) = {}
                 /\ handling \cap lost = {}
                 /\ NoneTwice
BY DEF OneOwner, NoneTwice

LEMMA OwnerPartsNext ==
    OneOwner' <=> /\ live' = DriverHas' \cup QueueHas' \cup handling' \cup lost'
                  /\ DriverHas' \cap (QueueHas' \cup handling' \cup lost') = {}
                  /\ QueueHas' \cap (handling' \cup lost') = {}
                  /\ handling' \cap lost' = {}
                  /\ NoneTwice'
BY DEF OneOwner, NoneTwice

LEMMA EmptyQueue == ASSUME queue' = <<>>  PROVE QueueHas' = {} /\ NoneTwice'
BY DEF QueueHas, FreedBy, NoneTwice

LEMMA OwnerInit == Init => OneOwner
<1> SUFFICES ASSUME Init  PROVE OneOwner
  OBVIOUS
<1>1. queue = <<>> /\ live = {} /\ handling = {} /\ lost = {} /\ DriverHas = {}
  BY DEF Init, DriverHas, Reading
<1>2. QueueHas = {} /\ NoneTwice
  BY <1>1 DEF QueueHas, FreedBy, NoneTwice
<1> QED  BY <1>1, <1>2, OwnerParts

LEMMA TakeMutexOwner ==
    ASSUME TypeOK, OneOwner, NEW c \in Callers, TakeMutex(c)
    PROVE  OneOwner'
<1>1. DriverHas' = DriverHas /\ UNCHANGED <<handling, lost>>
  BY DEF TakeMutex, DriverHas, link
<1>2. CASE caller[c].step = "mode"
  BY <1>1, <1>2, SameOwners DEF TakeMutex
<1>3. CASE caller[c].step # "mode"
  <2>1. queue' = <<>> /\ live' = live \ QueueHas
    BY <1>3 DEF TakeMutex, QueueHas
  <2> QED  BY <1>1, <2>1, EmptyQueue, OwnerParts, OwnerPartsNext
<1> QED  BY <1>2, <1>3

LEMMA ReceiveOwner ==
    ASSUME TypeOK, OneOwner, NEW c \in Callers, Receive(c)
    PROVE  OneOwner'
<1>1. queue \in Seq(Message) /\ queue # <<>> /\ queue' = Tail(queue) /\ UNCHANGED handling
  BY DEF Receive, TypeOK
<1>2. 1 \in 0..Len(queue) /\ queue' = SubSeq(queue, 1 + 1, Len(queue))
  BY <1>1
<1>3. /\ FreedBy(1) \subseteq QueueHas /\ QueueHas' = QueueHas \ FreedBy(1)
      /\ NoneTwice /\ NoneTwice'
  BY <1>2, DropFirst, OwnerParts
<1>4. DriverHas' = DriverHas
  <2>1. ASSUME NEW label \in {"late", "left"}, Forget(c, label)  PROVE DriverHas' = DriverHas
    BY <2>1, ForgetType
  <2>2. (\E label \in {"late", "left"} : Forget(c, label)) \/ UNCHANGED link
    BY DEF Receive
  <2> QED  BY <2>1, <2>2 DEF link, DriverHas
<1>5. \/ live' = live \ FreedBy(1) /\ lost' = lost
      \/ live' = live /\ lost' = lost \cup FreedBy(1)
  BY DEF Receive
<1> HIDE DEF FreedBy
<1> QED  BY <1>1, <1>3, <1>4, <1>5, OwnerParts, OwnerPartsNext

LEMMA ReadLineOwner ==
    ASSUME TypeOK, OneOwner, ReadLine
    PROVE  OneOwner'
<1>1. PICK n \in 0..Len(queue) :
          /\ queue' = SubSeq(queue, n + 1, Len(queue))
          /\ \/ \E b \in Room(n) :
                    /\ driver' = Reading(b, Head(out))
                    /\ live' = (live \ FreedBy(n)) \cup {b}
             \/ live' = live \ FreedBy(n) /\ UNCHANGED driver
  BY DEF ReadLine
<1>2. /\ FreedBy(n) \subseteq QueueHas /\ QueueHas' = QueueHas \ FreedBy(n)
      /\ NoneTwice /\ NoneTwice'
  BY <1>1, DropFirst, OwnerParts
<1>3. DriverHas = {} /\ UNCHANGED <<handling, lost>>
  BY DEF ReadLine, DriverHas
<1>4. CASE live' = live \ FreedBy(n) /\ UNCHANGED driver
  BY <1>2, <1>3, <1>4, OwnerParts, OwnerPartsNext DEF DriverHas
<1>5. ASSUME NEW b \in Room(n), driver' = Reading(b, Head(out)),
             live' = (live \ FreedBy(n)) \cup {b}
      PROVE  OneOwner'
  <2>1. b \in Buffers /\ b \notin live \ FreedBy(n)
    BY <1>5 DEF Room
  <2>2. DriverHas' = {b}
    BY <1>5, <2>1, WifiAssumption DEF DriverHas, Reading
  <2> HIDE DEF FreedBy
  <2> QED  BY <1>2, <1>3, <1>5, <2>1, <2>2, OwnerParts, OwnerPartsNext
<1> QED  BY <1>1, <1>4, <1>5

LEMMA RebootOwner ==
    ASSUME Reboot
    PROVE  OneOwner'
<1>1. queue' = <<>> /\ live' = {} /\ handling' = {} /\ lost' = {} /\ DriverHas' = {}
  BY DEF Reboot, DriverHas, Reading
<1> QED  BY <1>1, EmptyQueue, OwnerPartsNext

(* Putting a message gives its buffer to the queue when the message counts one
   reference, and to nobody when it counts two. *)
LEMMA PutOwner ==
    ASSUME TypeOK, OneOwner, NEW refs \in 1..2, driver.buf # None, Put(refs)
    PROVE  /\ NoneTwice'
           /\ \/ QueueHas' = QueueHas /\ live' = live \ IF refs = 1 THEN {driver.buf} ELSE {}
              \/ live' = live /\ QueueHas' = QueueHas \cup IF refs = 1 THEN {driver.buf} ELSE {}
<1>1. queue \in Seq(Message) /\ driver.buf \in DriverHas
  BY DEF TypeOK, DriverHas
<1>2. driver.buf \notin QueueHas /\ NoneTwice
  BY <1>1, OwnerParts
<1>3. CASE ~(Len(queue) < MaxQueue)
  BY <1>2, <1>3 DEF Put, QueueHas, FreedBy, NoneTwice
<1>4. CASE Len(queue) < MaxQueue
  <2> DEFINE new == [buf |-> driver.buf, refs |-> refs]
  <2>1. queue' = Append(queue, new) /\ live' = live
    BY <1>4 DEF Put
  <2>2. /\ Len(queue) \in Nat /\ Len(queue') = Len(queue) + 1
        /\ DOMAIN queue' = 1..(Len(queue) + 1) /\ DOMAIN queue = 1..Len(queue)
        /\ \A i \in 1..Len(queue) : queue'[i] = queue[i]
        /\ queue'[Len(queue) + 1] = new
    BY <1>1, <2>1
  <2>3. \A i \in 1..Len(queue) : queue[i].refs = 1 => queue[i].buf # driver.buf
    BY <1>2 DEF QueueHas, FreedBy
  <2>4. NoneTwice'
    BY <1>2, <2>2, <2>3 DEF NoneTwice
  <2>5. QueueHas' = QueueHas \cup IF refs = 1 THEN {driver.buf} ELSE {}
    <3>1. ASSUME NEW b \in QueueHas'
          PROVE  b \in QueueHas \cup IF refs = 1 THEN {driver.buf} ELSE {}
      <4>1. PICK i \in 1..(Len(queue) + 1) : queue'[i].refs = 1 /\ queue'[i].buf = b
        BY <2>2, <3>1 DEF QueueHas, FreedBy
      <4>2. CASE i = Len(queue) + 1
        BY <2>2, <4>1, <4>2
      <4>3. CASE i \in 1..Len(queue)
        BY <2>2, <4>1, <4>3 DEF QueueHas, FreedBy
      <4> QED  BY <2>2, <4>1, <4>2, <4>3
    <3>2. ASSUME NEW b \in QueueHas  PROVE b \in QueueHas'
      <4>1. PICK i \in 1..Len(queue) : queue[i].refs = 1 /\ queue[i].buf = b
        BY <3>2 DEF QueueHas, FreedBy
      <4>2. i \in 1..(Len(queue) + 1) /\ queue'[i] = queue[i]
        BY <2>2, <4>1
      <4> QED  BY <2>2, <4>1, <4>2 DEF QueueHas, FreedBy
    <3>3. refs = 1 => driver.buf \in QueueHas'
      <4>1. Len(queue) + 1 \in 1..(Len(queue) + 1)
        BY <2>2
      <4> QED  BY <2>2, <4>1 DEF QueueHas, FreedBy
    <3> QED  BY <3>1, <3>2, <3>3
  <2> QED  BY <2>1, <2>4, <2>5
<1> QED  BY <1>3, <1>4

LEMMA DeliverOwner ==
    ASSUME TypeOK, OneOwner, Deliver
    PROVE  OneOwner'
<1>1. driver.buf # None /\ DriverHas = {driver.buf} /\ DriverHas' = {}
  BY DEF Deliver, DriverHas, Reading
<1>2. CASE live' = live \ {driver.buf} /\ UNCHANGED <<queue, handling, lost>>
  <2>1. QueueHas' = QueueHas /\ (NoneTwice => NoneTwice')
    BY <1>2 DEF QueueHas, FreedBy, NoneTwice
  <2> QED  BY <1>1, <1>2, <2>1, OwnerParts, OwnerPartsNext
<1>3. CASE Put(1) /\ UNCHANGED <<handling, lost>>
  <2>1. /\ NoneTwice'
        /\ \/ QueueHas' = QueueHas /\ live' = live \ {driver.buf}
           \/ live' = live /\ QueueHas' = QueueHas \cup {driver.buf}
    BY <1>1, <1>3, PutOwner
  <2> QED  BY <1>1, <1>3, <2>1, OwnerParts, OwnerPartsNext
<1>4. CASE /\ Put(2)
           /\ \/ handling' = handling \cup {driver.buf} /\ UNCHANGED lost
              \/ lost' = lost \cup {driver.buf} /\ UNCHANGED handling
  <2>1. NoneTwice' /\ QueueHas' = QueueHas /\ live' = live
    BY <1>1, <1>4, PutOwner
  <2> QED  BY <1>1, <1>4, <2>1, OwnerParts, OwnerPartsNext
<1> QED  BY <1>2, <1>3, <1>4 DEF Deliver, CountedCopy

LEMMA HandleOwner ==
    ASSUME TypeOK, OneOwner, Handle
    PROVE  OneOwner'
<1>1. PICK b \in handling : handling' = handling \ {b} /\ live' = live \ {b}
  BY DEF Handle
<1>2. QueueHas' = QueueHas /\ DriverHas' = DriverHas /\ UNCHANGED lost
      /\ (NoneTwice => NoneTwice')
  BY DEF Handle, QueueHas, FreedBy, NoneTwice, DriverHas, link
<1> QED  BY <1>1, <1>2, OwnerParts, OwnerPartsNext

LEMMA OwnerNext == TypeOK /\ OneOwner /\ [Next]_vars => OneOwner'
<1> SUFFICES ASSUME TypeOK, OneOwner, [Next]_vars  PROVE OneOwner'
  OBVIOUS
<1>1. CASE UNCHANGED vars
  BY <1>1, SameOwners DEF vars, DriverHas
<1>2. ASSUME NEW c \in Callers, Begin(c) \/ GiveUp(c) \/ Send(c)  PROVE OneOwner'
  BY <1>2, SameOwners DEF Begin, GiveUp, Send, link, memory, DriverHas
<1>3. ASSUME NEW c \in Callers, Fail(c)  PROVE OneOwner'
  <2>1. Forget(c, "late") /\ UNCHANGED <<live, queue, handling, lost>>
    BY <1>3 DEF Fail
  <2> QED  BY <2>1, ForgetType, SameOwners
<1>4. ASSUME NEW c \in Callers, TakeMutex(c) \/ Receive(c)  PROVE OneOwner'
  BY <1>4, TakeMutexOwner, ReceiveOwner
<1>5. CASE Emit
  BY <1>5, SameOwners DEF Emit, memory, DriverHas
<1>6. CASE ReadLine \/ Deliver \/ Handle \/ Reboot
  BY <1>6, ReadLineOwner, DeliverOwner, HandleOwner, RebootOwner
<1> QED  BY <1>1, <1>2, <1>3, <1>4, <1>5, <1>6 DEF Next

-----------------------------------------------------------------------------
(* Nobody but c is concerned when c goes on. *)
LEMMA GoOnBalance ==
    ASSUME TypeOK, Balanced, NEW c \in Callers, NEW good \in BOOLEAN, NEW took \in Labels,
           NEW held \in {0, 1},
           \/ caller[c].place = "lock" /\ held = 0
           \/ caller[c].place \in {"send", "wait"} /\ held = 1,
           GoOn(c, good, held, took)
    PROVE  Balanced'
<1>1. PICK next \in After(caller[c].step, good) :
          /\ lock' = IF next[2] = 1
                     THEN [owner |-> c, count |-> Unlocked(c, held).count + 1]
                     ELSE Unlocked(c, held - next[2])
          /\ caller' = [caller EXCEPT ![c] =
                 [Idle EXCEPT !.step = next[1],
                              !.place = IF next[1] = "idle" THEN "none" ELSE "lock",
                              !.took = took,
                              !.slipped = next[1] # "idle"
                                          /\ (caller[c].slipped \/ next[2] = -2)]]
  BY DEF GoOn
<1> DEFINE step == caller[c].step
           slip == IF caller[c].slipped THEN 1 ELSE 0
           slipNext == IF caller'[c].slipped THEN 1 ELSE 0
<1>2. /\ caller \in [Callers -> Doing]
      /\ lock \in [owner : Callers \cup {None}, count : Nat]
  BY DEF TypeOK, Doing, Labels
<1>3. step \in Steps /\ step # "idle" /\ caller[c].slipped \in BOOLEAN
  BY <1>2 DEF Doing, Balanced, Places
<1>4. /\ next[1] \in {"idle"} \cup ModeSteps
      /\ next[2] \in {-2, -1, 0, 1}
      /\ next[1] \in ModeSteps => step \in ModeSteps
      /\ next[2] = 1 => step = "check" /\ next[1] = "pulse"
      /\ next[2] = -2 => step = "stay" /\ next[1] = "again"
      /\ next[2] # -2 /\ step \in ModeSteps => next[2] = Held(next[1]) - Held(step)
      /\ step \notin ModeSteps => next[2] = 0
      /\ step \in {"again", "last"} => next[1] \in {"last", "idle"}
  <2> HIDE DEF step
  <2> QED  BY <1>1, <1>3, AfterFacts DEF step
<1>5. /\ caller'[c].step = next[1]
      /\ caller'[c].place = IF next[1] = "idle" THEN "none" ELSE "lock"
      /\ caller'[c].slipped <=> (next[1] # "idle" /\ (caller[c].slipped \/ next[2] = -2))
      /\ \A d \in Callers \ {c} : caller'[d] = caller[d]
  BY <1>1, <1>2 DEF Idle
<1>6. Places'
  BY <1>3, <1>4, <1>5 DEF Balanced, Places, ModeSteps, WakeSteps
<1>7. \A d \in Callers \ {c} : Depth(d)' = Depth(d)
  BY <1>5 DEF Depth
<1>8. Depth(c) = Held(step) - slip + held
  BY <1>3 DEF Depth, Held, Balanced, Places, ModeSteps, WakeSteps
<1>9. Depth(c)' = Held(next[1]) - slipNext
  BY <1>4, <1>5, <1>6 DEF Depth, Held, Places, ModeSteps, WakeSteps
<1>10. caller[c].slipped => Held(step) = 1
  BY DEF Balanced, Places, Held, ModeSteps, WakeSteps
<1>11. Held(step) \in 0..2 /\ Held(next[1]) \in 0..2 /\ Held("check") = 1 /\ Held("stay") = 2
       /\ Held("again") = 1 /\ Held("pulse") = 2 /\ Held("last") = 1 /\ Held("idle") = 0
       /\ (step \notin ModeSteps => Held(step) = 0)
  BY DEF Held, ModeSteps, WakeSteps
<1> HIDE DEF step
<1>12. CASE lock.owner = c
  <2>1. lock.count = Held(step) - slip + held /\ lock.count > 0
    BY <1>2, <1>8, <1>12, WifiAssumption DEF Balanced, LockIsBalanced, FreeIsZero
  <2>2. \A d \in Callers \ {c} : Depth(d) = 0
    BY <1>12 DEF Balanced, LockIsBalanced
  <2>3. \/ lock' = [owner |-> None, count |-> 0] /\ Depth(c)' = 0
        \/ lock'.owner = c /\ lock'.count = Depth(c)' /\ lock'.count > 0
    <3>1. CASE next[2] = 1
      <4>1. step = "check" /\ next[1] = "pulse" /\ slip = 0 /\ slipNext = 0
        BY <1>4, <1>5, <3>1 DEF Balanced, Places, step
      <4>2. lock.count = 1 + held /\ Unlocked(c, held).count = 1
        BY <1>2, <1>11, <1>12, <2>1, <4>1 DEF Unlocked
      <4> QED  BY <1>1, <1>9, <1>11, <3>1, <4>1, <4>2
    <3>2. CASE next[2] = -2
      <4>1. step = "stay" /\ next[1] = "again" /\ slip = 0 /\ slipNext = 1
        BY <1>4, <1>5, <3>2 DEF Balanced, Places, step
      <4>2. lock.count = 2 + held
        BY <1>11, <2>1, <4>1
      <4> QED  BY <1>1, <1>9, <1>11, <1>12, <3>2, <4>1, <4>2 DEF Unlocked
    <3>3. CASE next[2] \in {-1, 0} /\ step \in ModeSteps
      <4>1. next[2] = Held(next[1]) - Held(step)
        BY <1>4, <3>3
      <4>2. slipNext = IF next[1] = "idle" THEN 0 ELSE slip
        BY <1>3, <1>5, <3>3
      <4>3. lock' = IF lock.count <= held - next[2] THEN [owner |-> None, count |-> 0]
                    ELSE [lock EXCEPT !.count = lock.count - (held - next[2])]
        BY <1>1, <1>12, <3>3 DEF Unlocked
      <4>4. lock.count - (held - next[2]) = Held(next[1]) - slip
        BY <1>11, <2>1, <4>1
      <4>5. next[1] # "idle" => Held(next[1]) >= 1
        BY <1>4 DEF Held
      <4>6. lock.count \in Nat
        BY <1>2
      <4>7. CASE next[1] = "idle"
        BY <1>9, <1>10, <1>11, <3>3, <4>2, <4>3, <4>4, <4>6, <4>7
      <4>8. CASE next[1] # "idle"
        BY <1>2, <1>9, <1>11, <1>12, <3>3, <4>2, <4>3, <4>4, <4>5, <4>6, <4>8
      <4> QED  BY <4>7, <4>8
    <3>4. CASE step \notin ModeSteps
      <4>1. next[2] = 0 /\ next[1] = "idle" /\ slip = 0 /\ slipNext = 0
        BY <1>4, <1>5, <1>10, <1>11, <3>4
      <4>2. lock.count = held
        BY <1>11, <2>1, <3>4, <4>1
      <4> QED  BY <1>1, <1>9, <1>11, <1>12, <4>1, <4>2 DEF Unlocked
    <3> QED  BY <1>4, <3>1, <3>2, <3>3, <3>4
  <2> QED  BY <1>6, <1>7, <2>2, <2>3, WifiAssumption DEF Balanced, LockIsBalanced, FreeIsZero
<1>13. CASE lock.owner # c
  <2>1. held = 0 /\ Held(step) = slip
    BY <1>8, <1>10, <1>11, <1>13 DEF Balanced, LockIsBalanced
  <2>2. next[2] # 1 /\ next[2] # -2
    BY <1>4, <1>11, <2>1 DEF Balanced, Places, step
  <2>3. lock' = lock
    BY <1>1, <1>13, <2>2 DEF Unlocked
  <2>4. Depth(c)' = 0
    <3>1. CASE caller[c].slipped
      <4>1. step \in {"again", "last"}
        BY <3>1 DEF Balanced, Places, step
      <4> QED  BY <1>4, <1>5, <1>9, <1>11, <3>1, <4>1
    <3>2. CASE ~caller[c].slipped
      <4>1. step \notin ModeSteps
        BY <2>1, <3>2 DEF Held, ModeSteps
      <4> QED  BY <1>4, <1>5, <1>9, <1>11, <4>1
    <3> QED  BY <3>1, <3>2
  <2> QED  BY <1>6, <1>7, <1>13, <2>3, <2>4 DEF Balanced, LockIsBalanced, FreeIsZero
<1> QED  BY <1>12, <1>13

LEMMA BalanceInit == Init => Balanced
<1> SUFFICES ASSUME Init  PROVE Balanced
  OBVIOUS
<1>1. \A c \in Callers : /\ caller[c].step = "idle" /\ caller[c].place = "none"
                         /\ ~caller[c].slipped
  BY DEF Init, Idle
<1>2. lock.owner = None /\ lock.count = 0
  BY DEF Init
<1>3. \A c \in Callers : /\ caller[c].step \notin ModeSteps \cup WakeSteps
                         /\ caller[c].place \notin {"send", "wait"}
  BY <1>1 DEF ModeSteps, WakeSteps
<1>4. ASSUME NEW c \in Callers  PROVE Depth(c) = 0
  <2>1. /\ ~(caller[c].step \in ModeSteps /\ ~caller[c].slipped)
        /\ caller[c].step \notin WakeSteps /\ caller[c].place \notin {"send", "wait"}
    BY <1>3
  <2> QED  BY <2>1 DEF Depth
<1> QED  BY <1>1, <1>2, <1>4 DEF Balanced, Places, FreeIsZero, LockIsBalanced

LEMMA RebootBalance == ASSUME Reboot  PROVE Balanced'
<1>1. \A c \in Callers : /\ caller'[c].step = "idle" /\ caller'[c].place = "none"
                         /\ ~caller'[c].slipped
  BY DEF Reboot, Idle
<1>2. lock'.owner = None /\ lock'.count = 0
  BY DEF Reboot
<1>3. \A c \in Callers : Depth(c)' = 0
  BY <1>1 DEF Depth, ModeSteps, WakeSteps
<1> QED  BY <1>1, <1>2, <1>3 DEF Balanced, Places, FreeIsZero, LockIsBalanced

LEMMA BeginBalance ==
    ASSUME TypeOK, Balanced, NEW c \in Callers, Begin(c)
    PROVE  Balanced'
<1>1. caller \in [Callers -> Doing]
  BY DEF TypeOK, Doing, Labels
<1>2. PICK call \in Calls :
          caller' = [caller EXCEPT ![c] = [Idle EXCEPT !.step = call, !.place = "lock"]]
  BY DEF Begin
<1>3. /\ caller'[c].step \in Calls /\ caller'[c].place = "lock" /\ ~caller'[c].slipped
      /\ \A d \in Callers \ {c} : caller'[d] = caller[d]
  BY <1>1, <1>2 DEF Idle
<1>4. caller[c].step = "idle" /\ caller[c].place = "none" /\ ~caller[c].slipped
  BY DEF Begin, Balanced, Places
<1>5. \A d \in Callers : Depth(d)' = Depth(d)
  BY <1>3, <1>4 DEF Depth, Calls, ModeSteps, WakeSteps
<1>6. Places'
  BY <1>3 DEF Balanced, Places, Calls
<1> QED  BY <1>5, <1>6 DEF Begin, Balanced, FreeIsZero, LockIsBalanced

LEMMA TakeMutexBalance ==
    ASSUME TypeOK, Balanced, NEW c \in Callers, TakeMutex(c)
    PROVE  Balanced'
<1>1. caller \in [Callers -> Doing] /\ lock \in [owner : Callers \cup {None}, count : Nat]
  BY DEF TypeOK, Doing, Labels
<1>2. /\ caller[c].place = "lock" /\ lock.owner \in {None, c}
      /\ lock'.owner = c /\ lock'.count = lock.count + 1
  BY <1>1 DEF TakeMutex, Mine, Locked
<1>3. \A d \in Callers \ {c} : caller'[d] = caller[d]
  BY <1>1 DEF TakeMutex
<1>4. \A d \in Callers \ {c} : Depth(d) = 0 /\ Depth(d)' = 0
  BY <1>2, <1>3, WifiAssumption DEF Balanced, LockIsBalanced, Depth
<1>5. Depth(c) = lock.count
  BY <1>1, <1>2, WifiAssumption DEF Balanced, LockIsBalanced, FreeIsZero
<1>6. Depth(c)' = Depth(c) + 1 /\ Places'
  <2>1. CASE caller[c].step = "mode"
    <3>1. /\ caller'[c].step = "check" /\ caller'[c].place = "lock"
          /\ ~caller[c].slipped /\ ~caller'[c].slipped
      BY <1>1, <2>1 DEF TakeMutex, Balanced, Places, Doing
    <3> QED  BY <1>2, <1>3, <2>1, <3>1 DEF Depth, Balanced, Places, ModeSteps, WakeSteps
  <2>2. CASE caller[c].step # "mode"
    <3>1. /\ caller'[c].step = caller[c].step /\ caller'[c].place = "send"
          /\ caller'[c].slipped = caller[c].slipped
      BY <1>1, <2>2 DEF TakeMutex, Doing
    <3> QED  BY <1>2, <1>3, <2>2, <3>1 DEF Depth, Balanced, Places
  <2> QED  BY <2>1, <2>2
<1> QED  BY <1>1, <1>2, <1>4, <1>5, <1>6, WifiAssumption
         DEF Balanced, LockIsBalanced, FreeIsZero

(* A caller that sends or receives, and does not go on, keeps the mutex. *)
LEMMA KeepsBalance ==
    ASSUME TypeOK, Balanced, NEW c \in Callers, UNCHANGED lock,
           caller[c].place \in {"send", "wait"}, caller'[c].place \in {"send", "wait"},
           caller'[c].step = caller[c].step, caller'[c].slipped = caller[c].slipped,
           \A d \in Callers \ {c} : caller'[d] = caller[d]
    PROVE  Balanced'
<1>1. \A d \in Callers : Depth(d)' = Depth(d)
  BY DEF Depth
<1>2. Places'
  BY DEF Balanced, Places
<1> QED  BY <1>1, <1>2 DEF Balanced, LockIsBalanced, FreeIsZero

LEMMA ReceiveBalance ==
    ASSUME TypeOK, Balanced, NEW c \in Callers, Receive(c)
    PROVE  Balanced'
<1>1. /\ caller \in [Callers -> Doing] /\ caller[c].place = "wait"
      /\ queue \in Seq(Message) /\ queue # <<>> /\ content \in [Buffers -> Line]
  BY DEF TypeOK, Receive, Doing, Labels
<1>2. \/ \E good \in BOOLEAN, took \in Labels : GoOn(c, good, 1, took)
      \/ /\ UNCHANGED lock
         /\ \E saw, took : caller' = [caller EXCEPT ![c].saw = saw, ![c].took = took]
  <2>1. Head(queue) \in Message
    BY <1>1
  <2>2. \A line \in Reads(Head(queue).buf) : line \in Line
    BY <1>1, <2>1, LineTypes DEF Reads, Message
  <2>3. \A line \in Line : line.of \in Labels
    BY DEF Line, Labels
  <2>4. "late" \in Labels
    BY DEF Labels
  <2> QED  BY <2>2, <2>3, <2>4 DEF Receive
<1>3. CASE \E good \in BOOLEAN, took \in Labels : GoOn(c, good, 1, took)
  BY <1>1, <1>3, GoOnBalance
<1>4. CASE /\ UNCHANGED lock
           /\ \E saw, took : caller' = [caller EXCEPT ![c].saw = saw, ![c].took = took]
  <2>1. /\ caller'[c].place = caller[c].place /\ caller'[c].step = caller[c].step
        /\ caller'[c].slipped = caller[c].slipped
        /\ \A d \in Callers \ {c} : caller'[d] = caller[d]
    BY <1>1, <1>4 DEF Doing
  <2> QED  BY <1>1, <1>4, <2>1, KeepsBalance
<1> QED  BY <1>2, <1>3, <1>4

LEMMA BalanceNext == TypeOK /\ Balanced /\ [Next]_vars => Balanced'
<1> SUFFICES ASSUME TypeOK, Balanced, [Next]_vars  PROVE Balanced'
  OBVIOUS
<1>1. ASSUME UNCHANGED <<lock, caller>>  PROVE Balanced'
  BY <1>1 DEF Balanced, Places, FreeIsZero, LockIsBalanced, Depth
<1>2. CASE UNCHANGED vars \/ Emit \/ ReadLine \/ Deliver \/ Handle
  BY <1>1, <1>2 DEF vars, Emit, ReadLine, Deliver, Handle
<1>3. CASE Reboot
  BY <1>3, RebootBalance
<1>4. ASSUME NEW c \in Callers, Begin(c) \/ TakeMutex(c) \/ Receive(c)  PROVE Balanced'
  BY <1>4, BeginBalance, TakeMutexBalance, ReceiveBalance
<1>5. ASSUME NEW c \in Callers, GiveUp(c) \/ Fail(c)  PROVE Balanced'
  <2>1. None \in Labels
    BY DEF Labels
  <2> QED  BY <1>5, <2>1, GoOnBalance DEF GiveUp, Fail
<1>6. ASSUME NEW c \in Callers, Send(c)  PROVE Balanced'
  <2>1. caller \in [Callers -> Doing]
    BY DEF TypeOK, Doing, Labels
  <2>2. /\ UNCHANGED lock /\ caller[c].place = "send" /\ caller'[c].place = "wait"
        /\ caller'[c].step = caller[c].step /\ caller'[c].slipped = caller[c].slipped
        /\ \A d \in Callers \ {c} : caller'[d] = caller[d]
    BY <1>6, <2>1 DEF Send
  <2> QED  BY <2>2, KeepsBalance
<1> QED  BY <1>2, <1>3, <1>4, <1>5, <1>6 DEF Next

-----------------------------------------------------------------------------
(* The lines of an answer, from the DA to who takes them *)
Coming == {out[i] : i \in DOMAIN out} \cup {driver.line}
Shown == {content[b] : b \in Buffers}
Sends(c) == caller[c].place \in {"send", "wait"}

(* A line bears the name of a caller only while that caller waits. *)
OnlyAwaited ==
    \A line \in Coming \cup Shown : line.of \in Callers => caller[line.of].place = "wait"

(* What answers nothing is one of the lines that the DA gives unasked. *)
AnswersHaveNames == \A line \in Coming \cup Shown : line.of = None => line.kind \in Unasked

(* Nothing is left on its way of an answer that was complete, and nothing in the
   queue of a command that was sent. *)
NothingLeft ==
    /\ \A line \in Coming : line.of # "left"
    /\ (\E c \in Callers : Sends(c)) => \A i \in DOMAIN queue : content[queue[i].buf].of # "left"

NothingSeen == \A c \in Callers : caller[c].place # "wait" => caller[c].saw = {}

(* A line that is still to come is a part of the answer that no reader has met. *)
Due(c, line) ==
    /\ line.kind \in Wants(caller[c].step) \cup {"error"}
    /\ caller[c].took # "late" => line.kind \notin caller[c].saw
    /\ \A other \in Shown :
           other.of = c => other.kind # line.kind /\ "error" \notin {other.kind, line.kind}
    /\ \A other \in Coming : other.of = c /\ other.kind = "error" => line.kind = "error"

(* The parts of an answer differ. *)
PartsDiffer(c) ==
    /\ \A i, j \in DOMAIN out :
           out[i].of = c /\ out[j].of = c /\ out[i].kind = out[j].kind => i = j
    /\ driver.line.of = c =>
           \A i \in DOMAIN out : out[i].of = c => out[i].kind # driver.line.kind

OneAnswer ==
    \A c \in Callers :
        /\ caller[c].step = "pulse" => \A line \in Coming \cup Shown : line.of # c
        /\ PartsDiffer(c)
        /\ \A line \in Coming : line.of = c => Due(c, line)

Answered ==
    OnlyAwaited /\ AnswersHaveNames /\ NothingLeft /\ NothingSeen /\ OneAnswer /\ OwnAnswer

(* Only who has the mutex sends or waits. *)
LEMMA OneSends ==
    ASSUME TypeOK, Balanced, NEW c \in Callers, NEW d \in Callers, Sends(c), Sends(d)
    PROVE  c = d
<1>1. \A e \in Callers : Sends(e) => Depth(e) > 0
  BY DEF Sends, Depth
<1> QED  BY <1>1 DEF Balanced, LockIsBalanced

LEMMA ComingType ==
    ASSUME TypeOK
    PROVE  /\ \A line \in Coming \cup Shown \cup {Blank} : line \in Line
           /\ \A line \in Coming \cup Shown \cup {Blank} : line.of \in Labels
           /\ \A i \in DOMAIN out : out[i] \in Coming /\ out[i] \in Line
           /\ driver.line \in Coming
<1>1. out \in Seq(Line) /\ content \in [Buffers -> Line] /\ driver.line \in Line
  BY DEF TypeOK
<1>2. \A i \in DOMAIN out : out[i] \in Line
  BY <1>1
<1>3. \A line \in Line : line.of \in Labels
  BY DEF Line, Labels
<1> QED  BY <1>1, <1>2, <1>3, LineTypes DEF Coming, Shown

LEMMA WantsFacts ==
    /\ Wants("pulse") = {"wakeup"}
    /\ \A step \in Steps : step # "pulse" => Wants(step) \cap Unasked = {}
    /\ \A step \in Steps : "error" \notin Wants(step)
    /\ "error" \notin Unasked
    /\ Blank.kind \in Unasked /\ Blank.kind # "wakeup" /\ Blank.of = None
BY DEF Wants, Unasked, Blank

LEMMA Tuples ==
    /\ <<>> \in Seq(Kinds) /\ DOMAIN <<>> = {}
    /\ \A a \in Kinds : <<a>> \in Seq(Kinds) /\ DOMAIN <<a>> = {1} /\ <<a>>[1] = a
    /\ \A a, b \in Kinds : /\ <<a, b>> \in Seq(Kinds) /\ DOMAIN <<a, b>> = {1, 2}
                           /\ <<a, b>>[1] = a /\ <<a, b>>[2] = b
<1>1. <<>> \in Seq(Kinds) /\ DOMAIN <<>> = {}
  OBVIOUS
<1>2. \A a \in Kinds : <<a>> \in Seq(Kinds) /\ DOMAIN <<a>> = {1} /\ <<a>>[1] = a
  OBVIOUS
<1>3. \A a, b \in Kinds : /\ <<a, b>> \in Seq(Kinds) /\ DOMAIN <<a, b>> = {1, 2}
                          /\ <<a, b>>[1] = a /\ <<a, b>>[2] = b
  OBVIOUS
<1> QED  BY <1>1, <1>2, <1>3

(* The parts of an answer are wanted, or it is an error, and none comes twice but
   the pulses'. *)
LEMMA AnswerFacts ==
    ASSUME NEW step \in Steps, NEW answer \in Answers(step)
    PROVE  /\ answer \in Seq(Kinds)
           /\ \A i \in DOMAIN answer : answer[i] \in Wants(step) \cup {"error"}
           /\ step # "pulse" => \A i \in DOMAIN answer : answer[i] # "wakeup"
           /\ step = "pulse" => \A i \in DOMAIN answer : answer[i] = "wakeup"
           /\ step # "pulse" => \A i, j \in DOMAIN answer : answer[i] = answer[j] => i = j
           /\ \A i, j \in DOMAIN answer : answer[i] = "error" => answer[j] = "error"
<1>1. CASE step = "pulse"
  <2>1. \/ answer = <<>> \/ answer = <<"wakeup">> \/ answer = <<"wakeup", "wakeup">>
    <3>1. Wants(step) = {"wakeup"}
      BY <1>1, WantsFacts
    <3>2. answer = <<>> \/ Parts(answer) = {"wakeup"}
      BY <1>1, <3>1 DEF Answers
    <3>3. \A kind \in Kinds : <<kind>>[1] = kind /\ 1 \in DOMAIN <<kind>>
      OBVIOUS
    <3>4. \A a, b \in Kinds : 1 \in DOMAIN <<a, b>> /\ 2 \in DOMAIN <<a, b>>
      OBVIOUS
    <3> QED  BY <1>1, <3>2, <3>3, <3>4 DEF Answers, Parts, Kinds
  <2>2. answer \in Seq(Kinds) /\ \A i \in DOMAIN answer : answer[i] = "wakeup"
    <3>1. CASE answer = <<>>
      BY <3>1, Tuples
    <3>2. CASE answer = <<"wakeup">>
      BY <3>2, Tuples DEF Kinds
    <3>3. CASE answer = <<"wakeup", "wakeup">>
      BY <3>3, Tuples DEF Kinds
    <3> QED  BY <2>1, <3>1, <3>2, <3>3
  <2> QED  BY <1>1, <2>2, WantsFacts
<1>2. CASE step # "pulse"
  <2>1. \/ answer = <<>> \/ answer = <<"error">>
        \/ /\ \/ answer = <<"ok">> \/ answer = <<"value", "ok">>
              \/ answer = <<"ok", "scan">> \/ answer = <<"scan", "ok">>
              \/ answer = <<"wakeup">> \/ answer = <<"wakeup", "wakeup">>
           /\ Parts(answer) = Wants(step)
    BY DEF Answers
  <2>2. "wakeup" \notin Wants(step)
    BY <1>2 DEF Wants
  <2>3. answer # <<"wakeup">> /\ answer # <<"wakeup", "wakeup">>
    <3>1. "wakeup" \in Parts(<<"wakeup">>) /\ "wakeup" \in Parts(<<"wakeup", "wakeup">>)
      BY DEF Parts
    <3> QED  BY <2>1, <2>2, <3>1
  <2>4. answer = <<>> \/ answer = <<"error">>
        \/ \A i \in DOMAIN answer : answer[i] \in Wants(step)
    BY <2>1 DEF Parts
  <2>5. CASE answer = <<>>
    BY <1>2, <2>5, Tuples
  <2>6. CASE answer = <<"error">>
    <3>1. /\ answer \in Seq(Kinds) /\ DOMAIN answer = {1} /\ answer[1] = "error"
      BY <2>6, Tuples DEF Kinds
    <3> QED  BY <1>2, <3>1
  <2>7. CASE answer # <<>> /\ answer # <<"error">>
    <3>1. /\ answer \in Seq(Kinds)
          /\ \A i, j \in DOMAIN answer : answer[i] = answer[j] => i = j
      <4>1. \/ answer = <<"ok">> \/ answer = <<"value", "ok">>
            \/ answer = <<"ok", "scan">> \/ answer = <<"scan", "ok">>
        BY <2>1, <2>3, <2>7
      <4>2. {"ok", "value", "scan"} \subseteq Kinds
        BY DEF Kinds
      <4>3. CASE answer = <<"ok">>
        BY <4>2, <4>3, Tuples
      <4>4. CASE answer = <<"value", "ok">>
        BY <4>2, <4>4, Tuples
      <4>5. CASE answer = <<"ok", "scan">>
        BY <4>2, <4>5, Tuples
      <4>6. CASE answer = <<"scan", "ok">>
        BY <4>2, <4>6, Tuples
      <4> QED  BY <4>1, <4>3, <4>4, <4>5, <4>6
    <3>2. \A i \in DOMAIN answer : answer[i] \in Wants(step)
      BY <2>4, <2>7
    <3> QED  BY <1>2, <2>2, <3>1, <3>2, WantsFacts
  <2> QED  BY <2>5, <2>6, <2>7
<1> QED  BY <1>1, <1>2

(* What a caller has after it went on *)
LEMMA GoOnFacts ==
    ASSUME TypeOK, NEW c \in Callers, NEW good, NEW held, NEW took, GoOn(c, good, held, took)
    PROVE  /\ caller'[c].place \in {"none", "lock"} /\ caller'[c].saw = {}
           /\ caller'[c].took = took
           /\ \A d \in Callers \ {c} : caller'[d] = caller[d]
BY DEF GoOn, TypeOK, Idle

NobodyNamed == \A line \in Coming \cup Shown : line.of \notin Callers

(* When who sends or waits is through, no line bears a caller's name. *)
LEMMA ForgetFacts ==
    ASSUME TypeOK, Balanced, OnlyAwaited, NEW c \in Callers, NEW label \in {"late", "left"},
           Sends(c), Forget(c, label)
    PROVE  /\ NobodyNamed'
           /\ AnswersHaveNames => AnswersHaveNames'
           /\ (\A line \in Coming : line.of # "left" /\ (label = "left" => line.of # c))
              => (\A line \in Coming : line.of # "left")'
<1>1. \A line \in Coming' : \E old \in Coming : line = Relabelled(c, old, label)
  BY DEF Forget, Coming, TypeOK
<1>2. \A line \in Shown' : \E old \in Shown : line = Relabelled(c, old, label)
  BY DEF Forget, Shown
<1>3. \A old \in Coming \cup Shown :
          /\ Relabelled(c, old, label).of = IF old.of = c THEN label ELSE old.of
          /\ Relabelled(c, old, label).kind = old.kind
  BY ComingType DEF Relabelled, Line
<1>4. \A old \in Coming \cup Shown : old.of \in Callers => old.of = c
  BY OneSends DEF OnlyAwaited, Sends
<1>5. NobodyNamed'
  BY <1>1, <1>2, <1>3, <1>4, WifiAssumption DEF NobodyNamed
<1>6. AnswersHaveNames => AnswersHaveNames'
  BY <1>1, <1>2, <1>3, WifiAssumption DEF AnswersHaveNames
<1> QED  BY <1>1, <1>3, <1>5, <1>6

LEMMA UnnamedIsFine ==
    ASSUME TypeOK', NobodyNamed'
    PROVE  OnlyAwaited' /\ OneAnswer'
<1>1. \A i \in DOMAIN out' : out'[i] \in Coming'
  BY DEF Coming
<1>2. driver'.line \in Coming'
  BY DEF Coming
<1> QED  BY <1>1, <1>2 DEF NobodyNamed, OnlyAwaited, OneAnswer, PartsDiffer

(* A command that ends, with its answer or without *)
LEMMA EndAnswered ==
    ASSUME TypeOK, TypeOK', Balanced, Answered, NEW c \in Callers, NEW good \in BOOLEAN,
           NEW took \in {None, c, "late"}, NEW label \in {"late", "left"}, Sends(c),
           GoOn(c, good, 1, took), Forget(c, label),
           label = "left" => \A line \in Coming : line.of # c
    PROVE  Answered'
<1>1. /\ NobodyNamed' /\ AnswersHaveNames'
      /\ (\A line \in Coming : line.of # "left")'
  BY ForgetFacts DEF Answered, NothingLeft
<1>2. /\ caller'[c].place \in {"none", "lock"} /\ caller'[c].saw = {}
      /\ caller'[c].took = took
      /\ \A d \in Callers \ {c} : caller'[d] = caller[d]
  BY GoOnFacts
<1>3. \A d \in Callers \ {c} : ~Sends(d)
  BY OneSends
<1>4. \A d \in Callers : ~Sends(d)'
  BY <1>2, <1>3 DEF Sends
<1>5. NothingSeen' /\ OwnAnswer'
  BY <1>2 DEF Answered, NothingSeen, OwnAnswer
<1>6. NothingLeft'
  BY <1>1, <1>4 DEF NothingLeft
<1> QED  BY <1>1, <1>5, <1>6, UnnamedIsFine DEF Answered

LEMMA AnsweredInit == Init => Answered
<1> SUFFICES ASSUME Init  PROVE Answered
  OBVIOUS
<1>1. out = <<>> /\ driver.line = Blank /\ \A b \in Buffers : content[b] = Blank
  BY DEF Init, Reading
<1>2. \A line \in Coming \cup Shown : line = Blank
  BY <1>1 DEF Coming, Shown
<1>3. Blank.of = None /\ Blank.kind \in Unasked
  BY WantsFacts
<1>4. \A c \in Callers : /\ caller[c].place = "none" /\ caller[c].saw = {}
                         /\ caller[c].took = None
  BY DEF Init, Idle
<1>5. None \notin Callers /\ None # "left"
  BY WifiAssumption
<1>6. OnlyAwaited /\ AnswersHaveNames /\ OneAnswer
  <2>1. driver.line \in Coming /\ \A i \in DOMAIN out : out[i] \in Coming
    BY DEF Coming
  <2> QED  BY <1>2, <1>3, <1>5, <2>1
           DEF OnlyAwaited, AnswersHaveNames, OneAnswer, PartsDiffer
<1>7. NothingLeft /\ NothingSeen /\ OwnAnswer
  BY <1>2, <1>3, <1>4, <1>5 DEF NothingLeft, NothingSeen, OwnAnswer, Sends
<1> QED  BY <1>6, <1>7 DEF Answered

(* A step that leaves the lines alone, and the queue or shortens it *)
LEMMA SameLines ==
    ASSUME Answered, UNCHANGED <<out, driver, content, caller>>,
           \A i \in DOMAIN queue' : \E j \in DOMAIN queue : queue'[i] = queue[j]
    PROVE  Answered'
<1>1. Coming' = Coming /\ Shown' = Shown
  BY DEF Coming, Shown
<1>2. NothingLeft'
  BY <1>1 DEF Answered, NothingLeft, Sends
<1>3. OneAnswer'
  BY <1>1 DEF Answered, OneAnswer, PartsDiffer, Due
<1> QED  BY <1>1, <1>2, <1>3
         DEF Answered, OnlyAwaited, AnswersHaveNames, NothingSeen, OwnAnswer

(* A caller that does not wait, and is not to send, gets no lines. *)
LEMMA SameAwaited ==
    ASSUME TypeOK, Answered, UNCHANGED <<out, driver, content>>, NEW c \in Callers,
           caller[c].place # "wait", caller'[c].place # "wait", caller'[c].saw = {},
           caller'[c].took \in {None, c, "late"},
           \A d \in Callers \ {c} : caller'[d] = caller[d]
    PROVE  OnlyAwaited' /\ AnswersHaveNames' /\ NothingSeen' /\ OneAnswer' /\ OwnAnswer'
<1>1. Coming' = Coming /\ Shown' = Shown
  BY DEF Coming, Shown
<1>2. \A line \in Coming \cup Shown : line.of # c
  BY DEF Answered, OnlyAwaited
<1>3. OnlyAwaited' /\ AnswersHaveNames' /\ NothingSeen' /\ OwnAnswer'
  BY <1>1, <1>2 DEF Answered, OnlyAwaited, AnswersHaveNames, NothingSeen, OwnAnswer
<1>4. driver.line \in Coming /\ \A i \in DOMAIN out : out[i] \in Coming
  BY DEF Coming
<1>5. OneAnswer'
  <2>1. PartsDiffer(c)' /\ \A d \in Callers \ {c} : PartsDiffer(d)'
    BY <1>2, <1>4 DEF PartsDiffer, Answered, OneAnswer
  <2>2. \A d \in Callers \ {c} : \A line \in Coming : line.of = d => Due(d, line)'
    BY <1>1 DEF Answered, OneAnswer, Due
  <2> QED  BY <1>1, <1>2, <2>1, <2>2 DEF Answered, OneAnswer
<1> QED  BY <1>3, <1>5

LEMMA BeginAnswered ==
    ASSUME TypeOK, Balanced, Answered, NEW c \in Callers, Begin(c)
    PROVE  Answered'
<1>1. PICK call \in Calls :
          caller' = [caller EXCEPT ![c] = [Idle EXCEPT !.step = call, !.place = "lock"]]
  BY DEF Begin
<1>2. /\ caller'[c].place = "lock" /\ caller'[c].saw = {} /\ caller'[c].took = None
      /\ \A d \in Callers \ {c} : caller'[d] = caller[d]
  BY <1>1 DEF TypeOK, Idle
<1>3. caller[c].place = "none" /\ UNCHANGED <<out, driver, content, queue>>
  BY DEF Begin, Balanced, Places, link, memory
<1>4. NothingLeft'
  <2>1. \A d \in Callers : Sends(d)' => Sends(d)
    BY <1>2 DEF Sends
  <2> QED  BY <1>3, <2>1 DEF Answered, NothingLeft, Coming
<1> QED  BY <1>2, <1>3, <1>4, SameAwaited DEF Answered

LEMMA GiveUpAnswered ==
    ASSUME TypeOK, Answered, NEW c \in Callers, GiveUp(c)
    PROVE  Answered'
<1>1. /\ caller[c].place = "lock" /\ GoOn(c, FALSE, 0, None)
      /\ UNCHANGED <<out, driver, content, queue>>
  BY DEF GiveUp, link, memory
<1>2. /\ caller'[c].place \in {"none", "lock"} /\ caller'[c].saw = {}
      /\ caller'[c].took = None
      /\ \A d \in Callers \ {c} : caller'[d] = caller[d]
  BY <1>1, GoOnFacts
<1>3. NothingLeft'
  <2>1. \A d \in Callers : Sends(d)' => Sends(d)
    BY <1>2 DEF Sends
  <2> QED  BY <1>1, <2>1 DEF Answered, NothingLeft, Coming
<1> QED  BY <1>1, <1>2, <1>3, SameAwaited DEF Answered

LEMMA TakeMutexAnswered ==
    ASSUME TypeOK, Answered, NEW c \in Callers, TakeMutex(c)
    PROVE  Answered'
<1>1. caller[c].place = "lock" /\ UNCHANGED <<out, driver, content>>
  BY DEF TakeMutex, link
<1>2. /\ caller'[c].place \in {"lock", "send"} /\ caller'[c].saw = caller[c].saw
      /\ caller'[c].took = caller[c].took
      /\ \A d \in Callers \ {c} : caller'[d] = caller[d]
  BY DEF TakeMutex, TypeOK
<1>3. caller[c].saw = {} /\ caller[c].took \in {None, c, "late"}
  BY <1>1 DEF Answered, NothingSeen, OwnAnswer
<1>4. NothingLeft'
  <2>1. CASE caller[c].step = "mode"
    <3>1. /\ \A d \in Callers : Sends(d)' => Sends(d)
          /\ queue' = queue
      BY <1>1, <1>2, <2>1 DEF Sends, TakeMutex, TypeOK
    <3> QED  BY <1>1, <3>1 DEF Answered, NothingLeft, Coming
  <2>2. CASE caller[c].step # "mode"
    <3>1. DOMAIN queue' = {}
      BY <2>2 DEF TakeMutex
    <3> QED  BY <1>1, <3>1 DEF Answered, NothingLeft, Coming
  <2> QED  BY <2>1, <2>2
<1> QED  BY <1>1, <1>2, <1>3, <1>4, SameAwaited DEF Answered

LEMMA FailAnswered ==
    ASSUME TypeOK, TypeOK', Balanced, Answered, NEW c \in Callers, Fail(c)
    PROVE  Answered'
BY EndAnswered DEF Fail, Sends

LEMMA RebootAnswered ==
    ASSUME TypeOK', Reboot
    PROVE  Answered'
<1>1. out' = <<>> /\ driver'.line = Blank /\ \A b \in Buffers : content'[b] = Blank
  BY DEF Reboot, Reading
<1>2. \A line \in Coming' \cup Shown' : line = Blank
  BY <1>1 DEF Coming, Shown
<1>3. Blank.of = None /\ Blank.kind \in Unasked
  BY WantsFacts
<1>4. \A c \in Callers : /\ caller'[c].place = "none" /\ caller'[c].saw = {}
                         /\ caller'[c].took = None
  BY DEF Reboot, Idle
<1>5. None \notin Callers /\ None # "left"
  BY WifiAssumption
<1>6. NobodyNamed' /\ AnswersHaveNames'
  BY <1>2, <1>3, <1>5 DEF NobodyNamed, AnswersHaveNames
<1>7. NothingLeft' /\ NothingSeen' /\ OwnAnswer'
  BY <1>2, <1>3, <1>4, <1>5 DEF NothingLeft, NothingSeen, OwnAnswer, Sends
<1> QED  BY <1>6, <1>7, UnnamedIsFine DEF Answered

LEMMA LinesJoined ==
    ASSUME NEW s \in Seq(Line), NEW t \in Seq(Line)
    PROVE  s \o t \in Seq(Line) /\ Len(s \o t) = Len(s) + Len(t)
OBVIOUS

LEMMA SendAnswered ==
    ASSUME TypeOK, TypeOK', Balanced, Answered, NEW c \in Callers, Send(c)
    PROVE  Answered'
<1> DEFINE step == caller[c].step
<1>1. /\ caller[c].place = "send" /\ UNCHANGED <<driver, content, queue>>
      /\ step \in Steps
      /\ caller' = [caller EXCEPT ![c].place = "wait"]
  BY DEF Send, TypeOK, memory
<1>2. PICK answer \in Answers(step) :
          out' = out \o [i \in DOMAIN answer |-> [kind |-> answer[i], of |->
                             IF answer[i] = "wakeup" THEN None ELSE c]]
  BY DEF Send
<1> DEFINE new == [i \in DOMAIN answer |-> [kind |-> answer[i], of |->
                                                IF answer[i] = "wakeup" THEN None ELSE c]]
<1>3. /\ answer \in Seq(Kinds)
      /\ \A i \in DOMAIN answer : answer[i] \in Wants(step) \cup {"error"}
      /\ step # "pulse" => \A i \in DOMAIN answer : answer[i] # "wakeup"
      /\ step = "pulse" => \A i \in DOMAIN answer : answer[i] = "wakeup"
      /\ step # "pulse" => \A i, j \in DOMAIN answer : answer[i] = answer[j] => i = j
      /\ \A i, j \in DOMAIN answer : answer[i] = "error" => answer[j] = "error"
  <2> HIDE DEF step
  <2> QED  BY <1>1, <1>2, AnswerFacts
<1>4. /\ Len(out) \in Nat /\ DOMAIN out = 1..Len(out)
      /\ Len(answer) \in Nat /\ DOMAIN answer = 1..Len(answer)
      /\ DOMAIN out' = 1..(Len(out) + Len(answer))
      /\ \A i \in DOMAIN out : out'[i] = out[i]
      /\ \A i \in DOMAIN answer : out'[Len(out) + i] = new[i]
      /\ \A i \in DOMAIN out' : i \notin DOMAIN out => i - Len(out) \in DOMAIN answer
  <2>1. out \in Seq(Line) /\ answer \in Seq(Kinds)
    BY <1>3 DEF TypeOK
  <2> DEFINE line(i) == [kind |-> answer[i], of |-> IF answer[i] = "wakeup" THEN None ELSE c]
  <2>2. DOMAIN answer = 1..Len(answer) /\ Len(answer) \in Nat
        /\ \A i \in 1..Len(answer) : answer[i] \in Kinds
    BY <2>1
  <2>3. \A i \in 1..Len(answer) : line(i) \in Line
    BY <2>2 DEF Line
  <2>4. new = [i \in 1..Len(answer) |-> line(i)]
    BY <2>2
  <2>5. new \in Seq(Line) /\ Len(new) = Len(answer) /\ out' = out \o new
    <3>1. out' = out \o new
      BY <1>2
    <3> HIDE DEF line, new
    <3> QED  BY <2>2, <2>3, <2>4, <3>1
  <2> HIDE DEF line, new
  <2>6. Len(out') = Len(out) + Len(answer) /\ DOMAIN out' = 1..(Len(out) + Len(answer))
    <3>1. out' \in Seq(Line) /\ Len(out') = Len(out) + Len(new)
      BY <2>5, LinesJoined DEF TypeOK
    <3>2. DOMAIN out' = 1..Len(out')
      BY <3>1
    <3> QED  BY <2>5, <3>1, <3>2
  <2>7. \A i \in 1..(Len(out) + Len(answer)) :
            out'[i] = IF i <= Len(out) THEN out[i] ELSE new[i - Len(out)]
    BY <2>1, <2>2, <2>5
  <2> QED  BY <2>1, <2>2, <2>6, <2>7
<1>5. NobodyNamed
  <2>1. \A d \in Callers : caller[d].place # "wait"
    BY <1>1, OneSends DEF Sends
  <2> QED  BY <2>1 DEF Answered, OnlyAwaited, NobodyNamed
<1>6. \A line \in Coming' : line \in Coming \/ \E i \in DOMAIN answer : line = new[i]
  <2>1. \A i \in DOMAIN out' : out'[i] \in Coming \/ \E j \in DOMAIN answer : out'[i] = new[j]
    <3> SUFFICES ASSUME NEW i \in DOMAIN out', i \notin DOMAIN out
                 PROVE  \E j \in DOMAIN answer : out'[i] = new[j]
      BY <1>4 DEF Coming
    <3>1. i - Len(out) \in DOMAIN answer /\ Len(out) + (i - Len(out)) = i
      BY <1>4
    <3> HIDE DEF new
    <3> QED  BY <1>4, <3>1
  <2> QED  BY <1>1, <2>1 DEF Coming
<1>7. Shown' = Shown
  BY <1>1 DEF Shown
<1>8. \A i \in DOMAIN answer :
          /\ new[i].kind = answer[i]
          /\ new[i].of = IF step = "pulse" THEN None ELSE c
  BY <1>3
<1>9. /\ caller'[c].place = "wait" /\ caller'[c].saw = {} /\ caller'[c].step = step
      /\ caller'[c].took = caller[c].took
      /\ \A d \in Callers \ {c} : caller'[d] = caller[d]
  BY <1>1 DEF Answered, NothingSeen, TypeOK
<1>10. OnlyAwaited' /\ AnswersHaveNames'
  <2>1. "wakeup" \in Unasked /\ None \notin Callers
    BY WifiAssumption DEF Unasked
  <2> HIDE DEF new, step
  <2>2. \A i \in DOMAIN answer : new[i].of = None => new[i].kind = "wakeup"
    BY <1>3, <1>8, WifiAssumption
  <2>3. \A i \in DOMAIN answer : new[i].of \in Callers => new[i].of = c
    BY <1>8, WifiAssumption
  <2> QED  BY <1>5, <1>6, <1>7, <1>9, <2>1, <2>2, <2>3
           DEF Answered, OnlyAwaited, AnswersHaveNames, NobodyNamed
<1>11. NothingLeft' /\ NothingSeen' /\ OwnAnswer'
  <2>1. NothingLeft'
    <3> HIDE DEF new, step
    <3>1. \A i \in DOMAIN answer : new[i].of # "left"
      BY <1>8, WifiAssumption
    <3>2. Sends(c)
      BY <1>1 DEF Sends
    <3> QED  BY <1>1, <1>6, <3>1, <3>2 DEF Answered, NothingLeft
  <2> QED  BY <1>9, <2>1 DEF Answered, NothingSeen, OwnAnswer
<1>12. OneAnswer'
  <2> HIDE DEF new, step
  <2>1. step = "pulse" => NobodyNamed'
    BY <1>5, <1>6, <1>7, <1>8, WifiAssumption DEF NobodyNamed
  <2>2. step = "pulse" => OneAnswer'
    BY <2>1, UnnamedIsFine
  <2>3. ASSUME NEW d \in Callers \ {c}, NEW line \in Coming' \cup Shown'  PROVE line.of # d
    BY <1>5, <1>6, <1>7, <1>8, <2>3, WifiAssumption DEF NobodyNamed
  <2>4. driver'.line \in Coming' /\ \A i \in DOMAIN out' : out'[i] \in Coming'
    BY DEF Coming
  <2>5. \A d \in Callers \ {c} : PartsDiffer(d)'
    BY <2>3, <2>4 DEF PartsDiffer
  <2>6. ASSUME step # "pulse"  PROVE PartsDiffer(c)'
    <3>1. driver'.line.of # c
      BY <1>1, <1>5 DEF NobodyNamed, Coming
    <3>2. ASSUME NEW i \in DOMAIN out', NEW j \in DOMAIN out', out'[i].of = c, out'[j].of = c,
                 out'[i].kind = out'[j].kind
          PROVE  i = j
      <4>1. i \notin DOMAIN out /\ j \notin DOMAIN out
        BY <1>4, <1>5, <3>2 DEF NobodyNamed, Coming
      <4>2. i - Len(out) \in DOMAIN answer /\ j - Len(out) \in DOMAIN answer
        BY <1>4, <4>1
      <4>3. Len(out) + (i - Len(out)) = i /\ Len(out) + (j - Len(out)) = j
        BY <1>4
      <4>4. out'[i].kind = answer[i - Len(out)] /\ out'[j].kind = answer[j - Len(out)]
        BY <1>4, <1>8, <4>2, <4>3
      <4>5. i - Len(out) = j - Len(out)
        BY <1>3, <2>6, <3>2, <4>2, <4>4
      <4> QED  BY <1>4, <4>5
    <3> QED  BY <3>1, <3>2 DEF PartsDiffer
  <2>7. ASSUME step # "pulse", NEW line \in Coming', line.of = c  PROVE Due(c, line)'
    <3>1. PICK i \in DOMAIN answer : line = new[i]
      BY <1>5, <1>6, <2>7 DEF NobodyNamed
    <3>2. \A other \in Shown' : other.of # c
      BY <1>5, <1>7 DEF NobodyNamed
    <3>3. \A other \in Coming' : other.of = c => \E j \in DOMAIN answer : other = new[j]
      BY <1>5, <1>6 DEF NobodyNamed
    <3> QED  BY <1>3, <1>8, <1>9, <3>1, <3>2, <3>3 DEF Due
  <2>8. ASSUME step # "pulse"  PROVE OneAnswer'
    BY <1>9, <2>3, <2>5, <2>6, <2>7, <2>8 DEF OneAnswer
  <2> QED  BY <2>2, <2>8
<1> QED  BY <1>10, <1>11, <1>12 DEF Answered

LEMMA QueuedType ==
    ASSUME TypeOK
    PROVE  \A i \in DOMAIN queue : queue[i].buf \in Buffers
<1>1. queue \in Seq(Message)
  BY DEF TypeOK
<1>2. \A i \in DOMAIN queue : queue[i] \in Message
  BY <1>1
<1> QED  BY <1>2 DEF Message

LEMMA EmitAnswered ==
    ASSUME TypeOK, Answered, Emit
    PROVE  Answered'
<1>1. PICK kind \in Unasked : out' = Append(out, [kind |-> kind, of |-> None])
  BY DEF Emit
<1> DEFINE new == [kind |-> kind, of |-> None]
<1>2. UNCHANGED <<driver, content, queue, caller>>
  BY DEF Emit, memory
<1>3. /\ DOMAIN out = 1..Len(out) /\ Len(out) \in Nat
      /\ DOMAIN out' = 1..(Len(out) + 1)
      /\ \A i \in DOMAIN out : out'[i] = out[i]
      /\ out'[Len(out) + 1] = new
  <2>1. out \in Seq(Line) /\ new \in Line
    BY DEF TypeOK, Line, Unasked, Kinds
  <2> HIDE DEF new
  <2>2. out' = Append(out, new)
    BY <1>1 DEF new
  <2> QED  BY <2>1, <2>2
<1>4. \A i \in DOMAIN out' : i \in DOMAIN out \/ out'[i] = new
  BY <1>3
<1>5. \A line \in Coming' : line \in Coming \/ line = new
  <2> HIDE DEF new
  <2>1. \A i \in DOMAIN out' : out'[i] \in Coming \/ out'[i] = new
    BY <1>3, <1>4 DEF Coming
  <2> QED  BY <1>2, <2>1 DEF Coming
<1>6. Shown' = Shown
  BY <1>2 DEF Shown
<1>7. new.of = None /\ new.kind \in Unasked /\ None \notin Callers \cup {"left"}
  BY WifiAssumption
<1> HIDE DEF new
<1>8. OnlyAwaited' /\ AnswersHaveNames' /\ NothingLeft' /\ NothingSeen' /\ OwnAnswer'
  BY <1>2, <1>5, <1>6, <1>7 DEF Answered, OnlyAwaited, AnswersHaveNames, NothingLeft,
                                NothingSeen, OwnAnswer, Sends
<1>9. ASSUME NEW c \in Callers
      PROVE  /\ caller'[c].step = "pulse" => \A line \in Coming' \cup Shown' : line.of # c
             /\ PartsDiffer(c)'
             /\ \A line \in Coming' : line.of = c => Due(c, line)'
  <2>1. caller'[c].step = "pulse" => \A line \in Coming' \cup Shown' : line.of # c
    BY <1>2, <1>5, <1>6, <1>7 DEF Answered, OneAnswer
  <2>2. \A i \in DOMAIN out' : out'[i].of = c => i \in DOMAIN out
    BY <1>4, <1>7
  <2>3. PartsDiffer(c)'
    BY <1>2, <1>3, <2>2 DEF Answered, OneAnswer, PartsDiffer
  <2>4. \A line \in Coming' : line.of = c => line \in Coming
    BY <1>5, <1>7
  <2>5. \A line \in Coming' : line.of = c => Due(c, line)'
    BY <1>2, <1>6, <2>4 DEF Answered, OneAnswer, Due
  <2> QED  BY <2>1, <2>3, <2>5
<1> QED  BY <1>8, <1>9 DEF Answered, OneAnswer

(* Lines are lost, or wait in the driver instead of the DA. *)
LEMMA FewerComing ==
    ASSUME OneAnswer, UNCHANGED caller, Coming' \subseteq Coming,
           \A line \in Shown' : line \in Shown \/ line.of \notin Callers,
           \A c \in Callers : PartsDiffer(c)'
    PROVE  OneAnswer'
<1>1. ASSUME NEW c \in Callers
      PROVE  /\ caller'[c].step = "pulse" => \A line \in Coming' \cup Shown' : line.of # c
             /\ \A line \in Coming' : line.of = c => Due(c, line)'
  BY DEF OneAnswer, Due
<1> QED  BY <1>1 DEF OneAnswer

LEMMA ReadLineAnswered ==
    ASSUME TypeOK, Answered, ReadLine
    PROVE  Answered'
<1>1. out \in Seq(Line) /\ out # <<>> /\ out' = Tail(out) /\ UNCHANGED caller
      /\ queue \in Seq(Message) /\ content \in [Buffers -> Line]
  BY DEF TypeOK, ReadLine
<1>2. PICK n \in 0..Len(queue) :
          /\ queue' = SubSeq(queue, n + 1, Len(queue))
          /\ \/ \E b \in Room(n) : /\ driver' = Reading(b, Head(out))
                                   /\ content' = [content EXCEPT ![b] = Blank]
             \/ UNCHANGED <<driver, content>>
  BY DEF ReadLine
<1>3. /\ Len(out) \in Nat /\ Len(out) > 0 /\ DOMAIN out = 1..Len(out)
      /\ DOMAIN out' = 1..(Len(out) - 1)
      /\ \A i \in DOMAIN out' : i + 1 \in DOMAIN out /\ out'[i] = out[i + 1]
  BY <1>1
<1>4. driver'.line = out[1] \/ driver'.line = driver.line
  BY <1>1, <1>2 DEF Reading
<1>5. Coming' \subseteq Coming
  <2>1. 1 \in DOMAIN out /\ \A i \in DOMAIN out' : out'[i] \in Coming
    BY <1>3 DEF Coming
  <2> QED  BY <1>4, <2>1 DEF Coming
<1>6. \A b \in Buffers : content'[b] = Blank \/ content'[b] = content[b]
  BY <1>1, <1>2 DEF Room
<1>7. \A line \in Shown' : line \in Shown \/ line = Blank
  BY <1>6 DEF Shown
<1>8. /\ Blank.of = None /\ Blank.kind \in Unasked
      /\ None \notin Callers \cup {"left"}
  BY WantsFacts, WifiAssumption
<1>9. \A c \in Callers : PartsDiffer(c)'
  <2> SUFFICES ASSUME NEW c \in Callers  PROVE PartsDiffer(c)'
    OBVIOUS
  <2>1. PartsDiffer(c)
    BY DEF Answered, OneAnswer
  <2>2. ASSUME NEW i \in DOMAIN out', NEW j \in DOMAIN out', out'[i].of = c, out'[j].of = c,
               out'[i].kind = out'[j].kind
        PROVE  i = j
    <3>1. i + 1 = j + 1
      BY <1>3, <2>1, <2>2 DEF PartsDiffer
    <3> QED  BY <1>3, <3>1
  <2>3. ASSUME driver'.line.of = c, NEW i \in DOMAIN out', out'[i].of = c,
               out'[i].kind = driver'.line.kind
        PROVE  FALSE
    <3>1. i + 1 \in DOMAIN out /\ out'[i] = out[i + 1] /\ 1 \in DOMAIN out /\ i + 1 # 1
      BY <1>3
    <3> QED  BY <1>4, <2>1, <2>3, <3>1 DEF PartsDiffer
  <2> QED  BY <2>2, <2>3 DEF PartsDiffer
<1>10. NothingLeft'
  <2>1. \A i \in DOMAIN queue' : \E j \in DOMAIN queue : queue'[i] = queue[j]
    <3>1. n \in Nat /\ n <= Len(queue) /\ Len(queue) \in Nat /\ DOMAIN queue = 1..Len(queue)
      BY <1>1
    <3>2. \A i \in DOMAIN queue' : i + n \in DOMAIN queue /\ queue'[i] = queue[i + n]
      BY <1>1, <1>2, <3>1
    <3> QED  BY <3>2
  <2>2. \A i \in DOMAIN queue : queue[i].buf \in Buffers
    BY QueuedType
  <2> QED  BY <1>1, <1>5, <1>6, <1>8, <2>1, <2>2 DEF Answered, NothingLeft, Sends
<1>11. OnlyAwaited' /\ AnswersHaveNames' /\ NothingSeen' /\ OwnAnswer'
  BY <1>1, <1>5, <1>7, <1>8 DEF Answered, OnlyAwaited, AnswersHaveNames, NothingSeen, OwnAnswer
<1>12. OneAnswer'
  BY <1>1, <1>5, <1>7, <1>8, <1>9, FewerComing DEF Answered
<1> QED  BY <1>10, <1>11, <1>12 DEF Answered

LEMMA DeliverAnswered ==
    ASSUME TypeOK, Answered, Deliver
    PROVE  Answered'
<1>1. /\ driver.buf \in Buffers /\ driver'.line = Blank /\ UNCHANGED <<out, caller>>
      /\ content \in [Buffers -> Line] /\ queue \in Seq(Message)
  BY DEF Deliver, TypeOK, Reading
<1>2. \/ content' = [content EXCEPT ![driver.buf] = driver.line]
      \/ content' = content /\ queue' = queue
  BY DEF Deliver
<1>3. \/ queue' = queue
      \/ \E refs \in 1..2 : queue' = Append(queue, [buf |-> driver.buf, refs |-> refs])
  BY DEF Deliver, Put, CountedCopy
<1>4. /\ Blank.of = None /\ Blank.kind \in Unasked
      /\ None \notin Callers \cup {"left"}
  BY WantsFacts, WifiAssumption
<1>5. driver.line \in Coming /\ \A i \in DOMAIN out : out[i] \in Coming
  BY DEF Coming
<1>6. \A line \in Coming' : line = Blank \/ \E i \in DOMAIN out : line = out[i]
  BY <1>1 DEF Coming
<1>7. \A line \in Shown' : line \in Shown \/ line = driver.line
  BY <1>1, <1>2 DEF Shown
<1>8. OnlyAwaited' /\ AnswersHaveNames' /\ NothingSeen' /\ OwnAnswer'
  BY <1>1, <1>4, <1>5, <1>6, <1>7
     DEF Answered, OnlyAwaited, AnswersHaveNames, NothingSeen, OwnAnswer
<1>9. NothingLeft'
  <2>1. \A line \in Coming' : line.of # "left"
    BY <1>4, <1>5, <1>6 DEF Answered, NothingLeft
  <2>2. ASSUME NEW c \in Callers, Sends(c)', NEW i \in DOMAIN queue'
        PROVE  content'[queue'[i].buf].of # "left"
    <3>1. driver.line.of # "left" /\ \A j \in DOMAIN queue : content[queue[j].buf].of # "left"
      BY <1>1, <1>5, <2>2 DEF Answered, NothingLeft, Sends
    <3>2. \A j \in DOMAIN queue : queue[j].buf \in Buffers
      BY QueuedType
    <3>3. CASE queue' = queue
      BY <1>1, <1>2, <2>2, <3>1, <3>2, <3>3
    <3>4. ASSUME NEW refs \in 1..2, content' = [content EXCEPT ![driver.buf] = driver.line],
                 queue' = Append(queue, [buf |-> driver.buf, refs |-> refs])
          PROVE  content'[queue'[i].buf].of # "left"
      <4>1. (i \in DOMAIN queue /\ queue'[i] = queue[i]) \/ queue'[i].buf = driver.buf
        <5>1. [buf |-> driver.buf, refs |-> refs] \in Message
          BY <1>1 DEF Message
        <5> QED  BY <1>1, <2>2, <3>4, <5>1
      <4> QED  BY <1>1, <3>1, <3>2, <3>4, <4>1
    <3>5. queue' # queue => content' = [content EXCEPT ![driver.buf] = driver.line]
      BY <1>2
    <3> QED  BY <1>3, <3>3, <3>4, <3>5
  <2> QED  BY <2>1, <2>2 DEF NothingLeft
<1>10. ASSUME NEW c \in Callers
       PROVE  /\ caller'[c].step = "pulse" => \A line \in Coming' \cup Shown' : line.of # c
              /\ PartsDiffer(c)'
              /\ \A line \in Coming' : line.of = c => Due(c, line)'
  <2>1. PartsDiffer(c) /\ \A line \in Coming : line.of = c => Due(c, line)
    BY DEF Answered, OneAnswer
  <2>2. caller'[c].step = "pulse" => \A line \in Coming' \cup Shown' : line.of # c
    BY <1>1, <1>4, <1>5, <1>6, <1>7 DEF Answered, OneAnswer
  <2>3. PartsDiffer(c)'
    BY <1>1, <1>4, <2>1 DEF PartsDiffer
  <2>4. ASSUME NEW line \in Coming', line.of = c  PROVE Due(c, line)'
    <3>1. PICK i \in DOMAIN out : line = out[i]
      BY <1>4, <1>6, <2>4
    <3>2. Due(c, line)
      BY <1>5, <2>1, <2>4, <3>1
    <3>3. driver.line.of = c =>
              driver.line.kind # line.kind /\ "error" \notin {driver.line.kind, line.kind}
      <4>1. driver.line.of = c => driver.line.kind # line.kind /\ Due(c, driver.line)
        BY <1>5, <2>1, <2>4, <3>1 DEF PartsDiffer
      <4>2. line \in Coming
        BY <1>5, <3>1
      <4> QED  BY <1>5, <2>4, <3>2, <4>1, <4>2 DEF Due
    <3>4. \A other \in Coming' : other.of = c => other \in Coming
      BY <1>4, <1>5, <1>6
    <3> QED  BY <1>1, <1>7, <3>2, <3>3, <3>4 DEF Due
  <2> QED  BY <2>2, <2>3, <2>4
<1> QED  BY <1>8, <1>9, <1>10 DEF Answered, OneAnswer

(* What a caller that waits finds in the message it takes: a line of its own
   command or of none, never one that was left over; and an answer that is not
   late has no parts to come once this line makes it whole. *)
LEMMA ReadFacts ==
    ASSUME TypeOK, Balanced, Answered, NEW c \in Callers, caller[c].place = "wait",
           queue # <<>>, NEW line \in Reads(Head(queue).buf)
    PROVE  /\ line \in Line
           /\ line.of \in {None, c, "late"}
           /\ line.of = None => line.kind \in Unasked
           /\ line.of = c => /\ line \in Shown
                             /\ caller[c].step # "pulse"
                             /\ \A other \in Coming : other.of = c =>
                                   other.kind # line.kind /\ "error" \notin {other.kind, line.kind}
<1>1. queue \in Seq(Message) /\ content \in [Buffers -> Line]
  BY DEF TypeOK
<1>2. Head(queue) \in Message /\ Head(queue) = queue[1] /\ 1 \in DOMAIN queue
  BY <1>1
<1>3. Head(queue).buf \in Buffers /\ (line = content[Head(queue).buf] \/ line = Blank)
  BY <1>2 DEF Reads, Message
<1>4. line \in Shown \/ line = Blank
  BY <1>3 DEF Shown
<1>5. line \in Line /\ line.of \in Labels
  BY <1>4, ComingType
<1>6. line.of # "left"
  BY <1>2, <1>3, WantsFacts, WifiAssumption DEF Answered, NothingLeft, Sends
<1>7. line.of \in Callers => line.of = c
  <2>1. line.of \in Callers => line \in Shown
    BY <1>4, WantsFacts, WifiAssumption
  <2> QED  BY <2>1, OneSends DEF Answered, OnlyAwaited, Sends
<1>8. line.of = None => line.kind \in Unasked
  BY <1>4, WantsFacts DEF Answered, AnswersHaveNames
<1>9. ASSUME line.of = c
      PROVE  /\ line \in Shown
             /\ caller[c].step # "pulse"
             /\ \A other \in Coming : other.of = c =>
                    other.kind # line.kind /\ "error" \notin {other.kind, line.kind}
  <2>1. line \in Shown
    BY <1>4, <1>9, WantsFacts, WifiAssumption
  <2>2. caller[c].step # "pulse"
    BY <1>9, <2>1 DEF Answered, OneAnswer
  <2>3. \A other \in Coming : other.of = c => Due(c, other)
    BY DEF Answered, OneAnswer
  <2> QED  BY <1>9, <2>1, <2>2, <2>3 DEF Due
<1> QED  BY <1>5, <1>6, <1>7, <1>8, <1>9 DEF Labels

LEMMA ReceiveAnswered ==
    ASSUME TypeOK, TypeOK', Balanced, Answered, NEW c \in Callers, Receive(c)
    PROVE  Answered'
<1>1. caller[c].place = "wait" /\ queue # <<>> /\ queue' = Tail(queue) /\ Sends(c)
  BY DEF Receive, Sends
<1>2. PICK line \in Reads(Head(queue).buf) :
          LET step == caller[c].step
              wanted == line.kind \in Wants(step)
              refused == line.kind = "error" /\ step # "pulse"
              saw == caller[c].saw \cup (Wants(step) \cap {line.kind})
              took == IF caller[c].took = "late" /\ line.of = c THEN "late" ELSE line.of
          IN  IF refused \/ (wanted /\ Ends(step, saw, line.kind))
              THEN /\ GoOn(c, ~refused, 1, took)
                   /\ Forget(c, IF took = "late" THEN "late" ELSE "left")
              ELSE /\ caller' = [caller EXCEPT
                          ![c].saw = saw, ![c].took = IF wanted THEN took ELSE @]
                   /\ UNCHANGED <<lock, link, content>>
  BY DEF Receive
<1> DEFINE step == caller[c].step
           wanted == line.kind \in Wants(step)
           refused == line.kind = "error" /\ step # "pulse"
           saw == caller[c].saw \cup (Wants(step) \cap {line.kind})
           took == IF caller[c].took = "late" /\ line.of = c THEN "late" ELSE line.of
           label == IF took = "late" THEN "late" ELSE "left"
<1>3. /\ line \in Line
      /\ line.of \in {None, c, "late"}
      /\ line.of = None => line.kind \in Unasked
      /\ line.of = c => /\ line \in Shown
                        /\ step # "pulse"
                        /\ \A other \in Coming : other.of = c =>
                              other.kind # line.kind /\ "error" \notin {other.kind, line.kind}
  BY <1>1, ReadFacts
<1>4. took \in {None, c, "late"}
  BY <1>3
<1>5. step \in Steps
  BY DEF TypeOK
<1>6. ASSUME took # "late", wanted \/ refused, NEW other \in Coming, other.of = c
      PROVE  /\ other.kind \in Wants(step) \ saw /\ ~refused
  <2>1. step # "pulse" /\ Due(c, other)
    BY <1>6 DEF Answered, OneAnswer
  <2>2. line.of = c /\ caller[c].took # "late"
    <3>1. line.kind \notin Unasked
      BY <1>5, <1>6, <2>1, WantsFacts
    <3> QED  BY <1>3, <1>6, <3>1
  <2> QED  BY <1>3, <1>6, <2>1, <2>2 DEF Due
<1>7. CASE refused \/ (wanted /\ Ends(step, saw, line.kind))
  <2>1. GoOn(c, ~refused, 1, took) /\ Forget(c, label)
    BY <1>2, <1>7
  <2>2. label = "left" => \A other \in Coming : other.of # c
    <3> HIDE DEF step, wanted, refused, saw, took
    <3>1. wanted /\ Ends(step, saw, line.kind) => saw = Wants(step)
      BY DEF Ends
    <3> QED  BY <1>6, <1>7, <3>1
  <2>3. label \in {"late", "left"} /\ (~refused) \in BOOLEAN
    OBVIOUS
  <2> HIDE DEF took, refused, label
  <2> QED  BY <1>1, <1>4, <2>1, <2>2, <2>3, EndAnswered
<1>8. CASE ~(refused \/ (wanted /\ Ends(step, saw, line.kind)))
  <2>1. /\ caller' = [caller EXCEPT ![c].saw = saw, ![c].took = IF wanted THEN took ELSE @]
        /\ UNCHANGED <<out, driver, content>>
    BY <1>2, <1>8 DEF link
  <2>2. /\ caller'[c].saw = saw
        /\ caller'[c].took = IF wanted THEN took ELSE caller[c].took
        /\ caller'[c].place = "wait" /\ caller'[c].step = step
        /\ \A d \in Callers \ {c} : caller'[d] = caller[d]
    <3> HIDE DEF saw, took, wanted
    <3> QED  BY <1>1, <2>1 DEF TypeOK
  <2>3. Coming' = Coming /\ Shown' = Shown
    BY <2>1 DEF Coming, Shown
  <2>4. OnlyAwaited' /\ AnswersHaveNames' /\ NothingSeen' /\ OwnAnswer'
    <3> HIDE DEF saw, took, wanted
    <3> QED  BY <1>1, <1>4, <2>2, <2>3
             DEF Answered, OnlyAwaited, AnswersHaveNames, NothingSeen, OwnAnswer
  <2>5. NothingLeft'
    <3>1. queue \in Seq(Message)
      BY DEF TypeOK
    <3>2. \A i \in DOMAIN queue' : i + 1 \in DOMAIN queue /\ queue'[i] = queue[i + 1]
      BY <1>1, <3>1
    <3> QED  BY <1>1, <2>1, <2>3, <3>2 DEF Answered, NothingLeft
  <2>6. ASSUME NEW other \in Coming, other.of = c  PROVE Due(c, other)'
    <3>1. Due(c, other)
      BY <2>6 DEF Answered, OneAnswer
    <3>2. caller'[c].took # "late" => other.kind \notin saw
      <4>1. CASE wanted
        <5> HIDE DEF saw, took, wanted, refused
        <5> QED  BY <1>6, <2>2, <2>6, <4>1
      <4>2. CASE ~wanted
        BY <2>2, <3>1, <4>2 DEF Due
      <4> QED  BY <4>1, <4>2
    <3> HIDE DEF saw
    <3> QED  BY <2>2, <2>3, <3>1, <3>2 DEF Due
  <2>7. OneAnswer'
    <3>1. \A d \in Callers : PartsDiffer(d)'
      BY <2>1 DEF Answered, OneAnswer, PartsDiffer
    <3>2. \A d \in Callers \ {c} : \A other \in Coming : other.of = d => Due(d, other)'
      BY <2>2, <2>3 DEF Answered, OneAnswer, Due
    <3> HIDE DEF saw, took, wanted
    <3> QED  BY <2>2, <2>3, <2>6, <3>1, <3>2 DEF Answered, OneAnswer
  <2> QED  BY <2>4, <2>5, <2>7 DEF Answered
<1> QED  BY <1>7, <1>8

LEMMA AnsweredNext ==
    TypeOK /\ TypeOK' /\ Balanced /\ Answered /\ [Next]_vars => Answered'
<1> SUFFICES ASSUME TypeOK, TypeOK', Balanced, Answered, [Next]_vars  PROVE Answered'
  OBVIOUS
<1>1. CASE UNCHANGED vars
  BY <1>1, SameLines DEF vars
<1>2. ASSUME NEW c \in Callers,
             Begin(c) \/ TakeMutex(c) \/ GiveUp(c) \/ Send(c) \/ Fail(c) \/ Receive(c)
      PROVE  Answered'
  BY <1>2, BeginAnswered, TakeMutexAnswered, GiveUpAnswered, SendAnswered, FailAnswered,
     ReceiveAnswered
<1>3. CASE Handle
  BY <1>3, SameLines DEF Handle, link
<1>4. CASE Emit \/ ReadLine \/ Deliver \/ Reboot
  BY <1>4, EmitAnswered, ReadLineAnswered, DeliverAnswered, RebootAnswered
<1> QED  BY <1>1, <1>2, <1>3, <1>4 DEF Next

-----------------------------------------------------------------------------
(* Every variable always has its type: the queue never holds more messages than
   it has room for. *)
THEOREM TypeCorrect == Spec => []TypeOK
<1>1. Init => TypeOK
  BY TypeInit
<1>2. TypeOK /\ [Next]_vars => TypeOK'
  BY TypeNext
<1> QED  BY <1>1, <1>2, PTL DEF Spec

(* No buffer is freed twice, and none is forgotten but at the two places known
   for it: a message dropped by a scan, and one that comm_mgr_listener() has no
   memory for. *)
THEOREM BufferHasOneOwner == Spec => []OneOwner
<1>1. Init => TypeOK /\ OneOwner
  BY TypeInit, OwnerInit
<1>2. TypeOK /\ OneOwner /\ [Next]_vars => TypeOK' /\ OneOwner'
  BY TypeNext, OwnerNext
<1> QED  BY <1>1, <1>2, PTL DEF Spec

(* The mutex is given back as often as it was taken, on every way out. *)
THEOREM MutexIsGivenBack == Spec => []LockIsBalanced
<1>1. Init => TypeOK /\ Balanced
  BY TypeInit, BalanceInit
<1>2. TypeOK /\ Balanced /\ [Next]_vars => TypeOK' /\ Balanced'
  BY TypeNext, BalanceNext
<1>3. Balanced => LockIsBalanced
  BY DEF Balanced
<1> QED  BY <1>1, <1>2, <1>3, PTL DEF Spec

(* A command takes an answer of its own, or the late one of a command that was
   given up; never another thread's, and never the rest of an answer that had
   all it waited for. *)
THEOREM OwnAnswers == Spec => []OwnAnswer
<1>1. Init => TypeOK /\ Balanced /\ Answered
  BY TypeInit, BalanceInit, AnsweredInit
<1>2. TypeOK /\ Balanced /\ Answered /\ [Next]_vars => TypeOK' /\ Balanced' /\ Answered'
  BY TypeNext, BalanceNext, AnsweredNext
<1>3. Answered => OwnAnswer
  BY DEF Answered
<1> QED  BY <1>1, <1>2, <1>3, PTL DEF Spec
=============================================================================
