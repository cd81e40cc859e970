-------------------------- MODULE MqttQueue_proofs --------------------------
(***************************************************************************)
(* Proofs about MqttQueue, for every number of messages, every depth of    *)
(* the queue and every choice of errors: type correctness, every message   *)
(* has one owner (OwnedOnce), and an acknowledged message is not queued    *)
(* (AckedIsGone).                                                          *)
(*                                                                         *)
(* The argument for the last: a message that was acknowledged is the one   *)
(* in the handler's hand, and the handler is about to free it              *)
(* (SentInHand).  As a message has one owner, it is not on the queue.      *)
(*                                                                         *)
(* Where the queue has room for every message and the modem is not found   *)
(* to be off, the queue implements MsgStore (KeepsEveryMessage).           *)
(***************************************************************************)
EXTENDS MqttQueue, FiniteSetTheorems, TLAPS

(* The entries of the queue are different messages. *)
Distinct(q) == \A i, j \in 1..Len(q) : i # j => q[i] # q[j]

(* q is a queue whose entries have a buffer in hp, and are neither in the
   handler's hand nor waiting to be put. *)
GoodQueue(q, hp, pt, hd) ==
    /\ q \in Seq(Msgs)
    /\ Len(q) <= QueueDepth
    /\ Distinct(q)
    /\ \A i \in 1..Len(q) : q[i] \in hp /\ q[i] # hd /\ q[i] \notin pt

(* Only the message in hand can be acknowledged, and then it is freed next. *)
SentInHand ==
    \A m \in Msgs : fate[m] = "sent" => h.hand = m /\ h.place = "sent" /\ h.ret = "OK"

IInv == TypeOK /\ OwnedOnce /\ SentInHand

-----------------------------------------------------------------------------
(* The queue *)

LEMMA AppendFacts ==
    ASSUME NEW q \in Seq(Msgs), NEW m \in Msgs
    PROVE  /\ Append(q, m) \in Seq(Msgs)
           /\ Len(q) \in Nat
           /\ Len(Append(q, m)) = Len(q) + 1
           /\ \A i \in 1..Len(q) : Append(q, m)[i] = q[i]
           /\ Append(q, m)[Len(q) + 1] = m
  OBVIOUS

LEMMA TailFacts ==
    ASSUME NEW q \in Seq(Msgs), q # <<>>
    PROVE  /\ Head(q) \in Msgs
           /\ Head(q) = q[1]
           /\ Tail(q) \in Seq(Msgs)
           /\ Len(q) \in Nat \ {0}
           /\ Len(Tail(q)) = Len(q) - 1
           /\ \A i \in 1..Len(Tail(q)) : Tail(q)[i] = q[i + 1]
  OBVIOUS

(* A message that is not on the queue, but has a buffer, can be appended. *)
LEMMA AppendGood ==
    ASSUME NEW q, NEW hp, NEW pt, NEW hd, NEW m \in Msgs,
           GoodQueue(q, hp, pt, hd), Len(q) < QueueDepth,
           m \in hp, m # hd, m \notin pt,
           \A i \in 1..Len(q) : q[i] # m
    PROVE  GoodQueue(Append(q, m), hp, pt, hd)
<1> DEFINE a == Append(q, m)
<1>1. q \in Seq(Msgs)
    BY DEF GoodQueue
<1>2. /\ a \in Seq(Msgs)
      /\ Len(q) \in Nat
      /\ Len(a) = Len(q) + 1
      /\ \A i \in 1..Len(q) : a[i] = q[i]
      /\ a[Len(q) + 1] = m
    BY <1>1, AppendFacts
<1> HIDE DEF a
<1>3. \A i \in 1..Len(a) : i \in 1..Len(q) \/ i = Len(q) + 1
    BY <1>2
<1>4. Distinct(a)
    BY <1>2, <1>3 DEF GoodQueue, Distinct
<1>5. \A i \in 1..Len(a) : a[i] \in hp /\ a[i] # hd /\ a[i] \notin pt
    BY <1>2, <1>3 DEF GoodQueue
<1>6. Len(a) <= QueueDepth
    BY <1>2, QueueAssumption
<1> QED  BY <1>2, <1>4, <1>5, <1>6 DEF GoodQueue, a

(* The message that was in hand can be put back, if there is room. *)
LEMMA PutBackGood ==
    ASSUME NEW q, NEW hp, NEW pt, NEW m \in Msgs,
           GoodQueue(q, hp, pt, m), m \in hp, m \notin pt
    PROVE  GoodQueue(PutBack(q, m), hp, pt, None)
<1>1. GoodQueue(q, hp, pt, None)
  <2>1. \A i \in 1..Len(q) : q[i] \in Msgs
      BY DEF GoodQueue
  <2> QED  BY <2>1, QueueAssumption DEF GoodQueue
<1>2. m # None
    BY QueueAssumption
<1>3. \A i \in 1..Len(q) : q[i] # m
    BY DEF GoodQueue
<1>4. CASE Len(q) < QueueDepth
  <2>1. PutBack(q, m) = Append(q, m)
      BY <1>4 DEF PutBack
  <2> QED  BY <1>1, <1>2, <1>3, <1>4, <2>1, AppendGood
<1>5. CASE ~(Len(q) < QueueDepth)
    BY <1>1, <1>5 DEF PutBack
<1> QED  BY <1>4, <1>5

(* What k_msgq_get() leaves behind: the head is in hand, and one of the
   blocked producers may have got its entry. *)
LEMMA GetGood ==
    ASSUME GoodQueue(queue, heap, putting, None), putting \subseteq heap, putting \subseteq Msgs,
           queue # <<>>, NEW got \in AfterGet
    PROVE  /\ GoodQueue(got[1], heap, got[2], Head(queue))
           /\ got[2] \subseteq putting
           /\ Head(queue) \in Msgs
           /\ Head(queue) \in heap
           /\ Head(queue) \notin got[2]
<1> DEFINE t == Tail(queue)
           hd == Head(queue)
<1>1. queue \in Seq(Msgs)
    BY DEF GoodQueue
<1>2. /\ hd \in Msgs
      /\ hd = queue[1]
      /\ t \in Seq(Msgs)
      /\ Len(queue) \in Nat \ {0}
      /\ Len(t) = Len(queue) - 1
      /\ \A i \in 1..Len(t) : t[i] = queue[i + 1]
    BY <1>1, TailFacts
<1> HIDE DEF t, hd
<1>3. \A i \in 1..Len(t) : i + 1 \in 1..Len(queue) /\ i + 1 # 1
    BY <1>2
<1>4. 1 \in 1..Len(queue)
    BY <1>2
<1>5. hd \in heap /\ hd \notin putting
    BY <1>2, <1>4 DEF GoodQueue
<1>6. Len(t) < QueueDepth
    BY <1>2, QueueAssumption DEF GoodQueue
<1>7. GoodQueue(t, heap, putting, hd)
  <2>1. Distinct(t)
      BY <1>2, <1>3 DEF GoodQueue, Distinct
  <2>2. \A i \in 1..Len(t) : t[i] \in heap /\ t[i] # hd /\ t[i] \notin putting
      BY <1>2, <1>3, <1>4 DEF GoodQueue, Distinct
  <2>3. Len(t) <= QueueDepth
      BY <1>2, <1>6, QueueAssumption
  <2> QED  BY <1>2, <2>1, <2>2, <2>3 DEF GoodQueue
<1>8. CASE putting = {}
  <2>1. got = <<t, {}>>
      BY <1>8 DEF AfterGet, t
  <2> QED  BY <1>2, <1>5, <1>7, <1>8, <2>1 DEF hd
<1>9. CASE putting # {}
  <2>1. PICK m \in putting : got = <<Append(t, m), putting \ {m}>>
      BY <1>9 DEF AfterGet, t
  <2>2. GoodQueue(t, heap, putting \ {m}, hd)
      BY <1>7 DEF GoodQueue
  <2>3. m \in Msgs /\ m \in heap /\ m # hd /\ m \notin putting \ {m}
      BY <1>5
  <2>4. \A i \in 1..Len(t) : t[i] # m
      BY <1>7 DEF GoodQueue
  <2>5. GoodQueue(Append(t, m), heap, putting \ {m}, hd)
      BY <1>6, <2>2, <2>3, <2>4, AppendGood
  <2> QED  BY <1>2, <1>5, <2>1, <2>5 DEF hd
<1> QED  BY <1>8, <1>9
-----------------------------------------------------------------------------
(* OwnedOnce in terms of GoodQueue *)

Owners == /\ GoodQueue(queue, heap, putting, h.hand)
          /\ putting \subseteq heap
          /\ h.hand # None => h.hand \in heap /\ h.hand \notin putting
          /\ h.place \in {"sending", "sent"} <=> h.hand # None

(* The rest of TypeOK *)
OtherTypes ==
    /\ heap \subseteq Msgs
    /\ putting \subseteq Msgs
    /\ work \in 0..MaxWork
    /\ h \in [place : Places, todo : Nat, hand : Msgs \cup {None},
              using : Radios, via : Radios, ret : Results]
    /\ net \in [active : Radios, mqtt : SUBSET Radios, switching : BOOLEAN, onboarded : BOOLEAN]
    /\ faults \in 0..MaxFaults
    /\ fate \in [Msgs -> {"waiting", "unsure", "sent", "rejected"}]

LEMMA InvParts == IInv <=> Owners /\ OtherTypes /\ SentInHand
  BY DEF IInv, TypeOK, OwnedOnce, Owners, OtherTypes, GoodQueue, Distinct

LEMMA InvInit == Init => IInv
<1> SUFFICES ASSUME Init PROVE IInv
    OBVIOUS
<1> USE QueueAssumption DEF Init
<1>1. GoodQueue(<<>>, {}, {}, None)
    BY DEF GoodQueue, Distinct
<1>2. Owners
    BY <1>1 DEF Owners, Idle
<1>3. OtherTypes
    BY DEF OtherTypes, Idle, Places, Radios, Results
<1>4. SentInHand
    BY DEF SentInHand
<1> QED  BY <1>2, <1>3, <1>4, InvParts

-----------------------------------------------------------------------------
(* The actions of the producers and of the environment *)

LEMMA QueueMessageStep ==
    ASSUME IInv, NEW m \in Msgs, QueueMessage(m)
    PROVE  IInv'
<1> USE InvParts
<1>1. /\ m \notin heap
      /\ heap' = heap \cup {m}
      /\ UNCHANGED <<work, h, net, faults, fate>>
    BY DEF QueueMessage
<1>2. /\ \A i \in 1..Len(queue) : queue[i] # m
      /\ m # h.hand
      /\ m \notin putting
    BY <1>1, QueueAssumption DEF Owners, GoodQueue
<1>3. GoodQueue(queue, heap', putting, h.hand)
    BY <1>1 DEF Owners, GoodQueue
<1>4. CASE Len(queue) < QueueDepth
  <2>1. queue' = Append(queue, m) /\ putting' = putting
      BY <1>4 DEF QueueMessage
  <2>2. GoodQueue(queue', heap', putting', h.hand)
      BY <1>1, <1>2, <1>3, <1>4, <2>1, AppendGood
  <2>3. Owners'
      BY <1>1, <2>1, <2>2 DEF Owners
  <2>4. OtherTypes' /\ SentInHand'
      BY <1>1, <2>1 DEF OtherTypes, SentInHand
  <2> QED  BY <2>3, <2>4, InvParts, PTL
<1>5. CASE ~(Len(queue) < QueueDepth)
  <2>1. queue' = queue /\ putting' = putting \cup {m}
      BY <1>5 DEF QueueMessage
  <2>2. GoodQueue(queue', heap', putting', h.hand)
      BY <1>2, <1>3, <2>1 DEF GoodQueue
  <2>3. Owners'
      BY <1>1, <1>2, <2>1, <2>2 DEF Owners
  <2>4. OtherTypes' /\ SentInHand'
      BY <1>1, <2>1 DEF OtherTypes, SentInHand
  <2> QED  BY <2>3, <2>4, InvParts, PTL
<1> QED  BY <1>4, <1>5

LEMMA PutTimesOutStep ==
    ASSUME IInv, NEW m \in Msgs, PutTimesOut(m)
    PROVE  IInv'
<1> USE InvParts DEF PutTimesOut
<1>1. GoodQueue(queue, heap', putting', h.hand)
    BY DEF Owners, GoodQueue
<1>2. Owners'
    BY <1>1 DEF Owners
<1>3. OtherTypes' /\ SentInHand'
    BY DEF OtherTypes, SentInHand
<1> QED  BY <1>2, <1>3, InvParts, PTL

LEMMA OutsideStep ==
    ASSUME IInv, QueueWork \/ Environment
    PROVE  IInv'
<1> USE InvParts
<1>1. UNCHANGED <<queue, heap, putting, h, faults, fate>>
    BY DEF QueueWork, Environment
<1>2. Owners' /\ SentInHand'
    BY <1>1 DEF Owners, SentInHand
<1>3. work' \in 0..MaxWork /\ net' \in [active : Radios, mqtt : SUBSET Radios,
                                         switching : BOOLEAN, onboarded : BOOLEAN]
  <2>1. CASE QueueWork
      BY <2>1, QueueAssumption DEF QueueWork, OtherTypes
  <2>2. CASE Environment
    <3>1. work' = work
        BY <2>2 DEF Environment
    <3>2. CASE SwitchBegins \/ OnboardedChanges
        BY <3>1, <3>2 DEF SwitchBegins, OnboardedChanges, OtherTypes
    <3>3. CASE \E r \in Radios : LinkChanges(r)
      <4>1. PICK r \in Radios : LinkChanges(r)
          BY <3>3
      <4>2. net.mqtt \ {r} \in SUBSET Radios /\ net.mqtt \cup {r} \in SUBSET Radios
          BY DEF OtherTypes
      <4> QED  BY <3>1, <4>1, <4>2 DEF LinkChanges, OtherTypes
    <3>4. CASE \E r \in Radios : SwitchCommits(r)
        BY <3>1, <3>4 DEF SwitchCommits, OtherTypes
    <3> QED  BY <2>2, <3>2, <3>3, <3>4 DEF Environment
  <2> QED  BY <2>1, <2>2
<1>4. OtherTypes'
    BY <1>1, <1>3 DEF OtherTypes
<1> QED  BY <1>2, <1>4, InvParts, PTL
-----------------------------------------------------------------------------
(* The handler *)

(* A step that leaves the store and the message in hand alone. *)
LEMMA MoveStep ==
    ASSUME IInv, UNCHANGED <<queue, heap, putting, fate>>,
           h' \in [place : Places, todo : Nat, hand : {h.hand},
                   using : Radios, via : Radios, ret : Results],
           h.hand = None, h'.place \notin {"sending", "sent"},
           work' \in 0..MaxWork, faults' \in 0..MaxFaults,
           net' \in [active : Radios, mqtt : SUBSET Radios, switching : BOOLEAN, onboarded : BOOLEAN]
    PROVE  IInv'
<1> USE InvParts
<1>1. h'.hand = None
    OBVIOUS
<1>2. Owners'
    BY <1>1 DEF Owners
<1>3. OtherTypes'
    BY DEF OtherTypes
<1>4. SentInHand'
    BY QueueAssumption DEF SentInHand
<1> QED  BY <1>2, <1>3, <1>4, InvParts, PTL

LEMMA FaultType == IInv /\ (Fault \/ NoFault) => faults' \in 0..MaxFaults
  BY InvParts, QueueAssumption DEF Fault, NoFault, OtherTypes

(* The handler's places without a message in hand *)
LEMMA EmptyHanded ==
    ASSUME IInv, h.place \in {"idle", "prepare", "wfstat", "loop", "giveUp"}
    PROVE  h.hand = None
  BY InvParts DEF Owners

LEMMA StartStep == ASSUME IInv, Start PROVE IInv'
<1> USE InvParts, QueueAssumption
<1>1. h.hand = None /\ Len(queue) \in Nat
    BY EmptyHanded DEF Start, Owners, GoodQueue
<1>2. /\ h' \in [place : Places, todo : Nat, hand : {h.hand},
                  using : Radios, via : Radios, ret : Results]
      /\ h'.place \notin {"sending", "sent"}
    BY <1>1 DEF Start, OtherTypes, Places
<1>3. work' \in 0..MaxWork
    BY DEF Start, OtherTypes
<1> QED  BY <1>1, <1>2, <1>3, MoveStep DEF Start, OtherTypes

LEMMA PreparedStep == ASSUME IInv, Prepared PROVE IInv'
<1> USE InvParts
<1>1. h.hand = None
    BY EmptyHanded DEF Prepared
<1>2. /\ h' \in [place : Places, todo : Nat, hand : {h.hand},
                  using : Radios, via : Radios, ret : Results]
      /\ h'.place \notin {"sending", "sent"}
    BY <1>1 DEF Prepared, OtherTypes, Places, Idle, Radios, Results
<1>3. faults' \in 0..MaxFaults
    BY FaultType DEF Prepared
<1> QED  BY <1>1, <1>2, <1>3, MoveStep DEF Prepared, OtherTypes

LEMMA WfstatStep == ASSUME IInv, Wfstat PROVE IInv'
<1> USE InvParts
<1>1. h.hand = None
    BY EmptyHanded DEF Wfstat
<1>2. /\ h' \in [place : Places, todo : Nat, hand : {h.hand},
                  using : Radios, via : Radios, ret : Results]
      /\ h'.place \notin {"sending", "sent"}
    BY <1>1 DEF Wfstat, OtherTypes, Places
<1>3. faults' \in 0..MaxFaults
    BY FaultType DEF Wfstat
<1>4. net' \in [active : Radios, mqtt : SUBSET Radios, switching : BOOLEAN, onboarded : BOOLEAN]
    BY DEF Wfstat, OtherTypes
<1> QED  BY <1>1, <1>2, <1>3, <1>4, MoveStep DEF Wfstat, OtherTypes

LEMMA FinishStep == ASSUME IInv, Finish PROVE IInv'
<1> USE InvParts
<1>1. h.hand = None
    BY EmptyHanded DEF Finish
<1>2. /\ h' \in [place : Places, todo : Nat, hand : {h.hand},
                  using : Radios, via : Radios, ret : Results]
      /\ h'.place \notin {"sending", "sent"}
    BY <1>1 DEF Finish, Places, Idle, Radios, Results
<1> QED  BY <1>1, <1>2, MoveStep DEF Finish, OtherTypes

LEMMA GiveUpStep == ASSUME IInv, GiveUp PROVE IInv'
<1> USE InvParts
<1>1. h.hand = None
    BY EmptyHanded DEF GiveUp
<1>2. /\ h' \in [place : Places, todo : Nat, hand : {h.hand},
                  using : Radios, via : Radios, ret : Results]
      /\ h'.place \notin {"sending", "sent"}
    BY <1>1 DEF GiveUp, Places, Idle, Radios, Results
<1>3. net' \in [active : Radios, mqtt : SUBSET Radios, switching : BOOLEAN, onboarded : BOOLEAN]
    BY DEF GiveUp, OtherTypes
<1> QED  BY <1>1, <1>2, <1>3, MoveStep DEF GiveUp, OtherTypes

LEMMA TakeStep == ASSUME IInv, Take PROVE IInv'
<1> USE InvParts, QueueAssumption
<1> DEFINE m == Head(queue)
<1>1. /\ h.hand = None /\ h.place = "loop" /\ h.todo > 0 /\ queue # <<>>
      /\ UNCHANGED <<heap, work, net, faults, fate>>
    BY EmptyHanded DEF Take
<1>2. PICK got \in AfterGet :
         /\ putting' = got[2]
         /\ IF ~net.onboarded /\ m \notin Onboarding
            THEN /\ queue' = PutBack(got[1], m)
                 /\ h' = [h EXCEPT !.todo = @ - 1]
            ELSE /\ queue' = got[1]
                 /\ h' = [h EXCEPT !.place = "sending", !.todo = @ - 1,
                                   !.hand = m, !.via = net.active]
    BY DEF Take
<1>3. /\ GoodQueue(got[1], heap, got[2], m)
      /\ got[2] \subseteq putting
      /\ m \in Msgs /\ m \in heap /\ m \notin got[2]
    BY <1>1, GetGood DEF Owners, OtherTypes
<1> HIDE DEF m
<1>4. CASE ~net.onboarded /\ m \notin Onboarding
  <2>1. queue' = PutBack(got[1], m) /\ h' = [h EXCEPT !.todo = @ - 1]
      BY <1>2, <1>4
  <2>2. GoodQueue(queue', heap', putting', h'.hand)
      BY <1>1, <1>2, <1>3, <2>1, PutBackGood DEF OtherTypes
  <2>3. Owners'
      BY <1>1, <1>2, <1>3, <2>1, <2>2 DEF Owners, OtherTypes
  <2>4. OtherTypes'
      BY <1>1, <1>2, <1>3, <2>1 DEF OtherTypes
  <2>5. SentInHand'
      BY <1>1, <2>1 DEF SentInHand
  <2> QED  BY <2>3, <2>4, <2>5, InvParts, PTL
<1>5. CASE ~(~net.onboarded /\ m \notin Onboarding)
  <2>1. /\ queue' = got[1]
        /\ h' = [h EXCEPT !.place = "sending", !.todo = @ - 1, !.hand = m, !.via = net.active]
      BY <1>2, <1>5
  <2>2. /\ h'.hand = m /\ h'.place = "sending"
        /\ h' \in [place : Places, todo : Nat, hand : Msgs \cup {None},
                    using : Radios, via : Radios, ret : Results]
    <3>1. /\ h \in [place : Places, todo : Nat, hand : Msgs \cup {None},
                    using : Radios, via : Radios, ret : Results]
          /\ net.active \in Radios /\ h.todo - 1 \in Nat /\ "sending" \in Places
        BY <1>1 DEF OtherTypes, Places
    <3> HIDE InvParts
    <3> QED  BY <1>3, <2>1, <3>1
  <2>3. Owners'
      BY <1>1, <1>2, <1>3, <2>1, <2>2 DEF Owners
  <2>4. OtherTypes'
      BY <1>1, <1>2, <1>3, <2>2 DEF OtherTypes
  <2>5. SentInHand'
      BY <1>1 DEF SentInHand
  <2> QED  BY <2>3, <2>4, <2>5, InvParts, PTL
<1> QED  BY <1>4, <1>5

LEMMA SendStep == ASSUME IInv, Send PROVE IInv'
<1> USE InvParts, QueueAssumption
<1>1. /\ h.place = "sending" /\ h.hand \in Msgs
      /\ UNCHANGED <<queue, heap, putting, work, net>>
    BY DEF Send, Owners, OtherTypes
<1>2. \E res \in Results, f \in {"waiting", "unsure", "sent", "rejected"} :
         SendEnds(res, f) /\ (f = "sent" => res = "OK")
  <2>1. fate[h.hand] \in {"waiting", "unsure", "rejected"}
      BY <1>1 DEF OtherTypes, SentInHand
  <2>2. CASE SendEnds("OK", "sent")
      BY <2>2 DEF Results
  <2>3. CASE SendEnds("BADMSG", "rejected")
      BY <2>3 DEF Results
  <2>4. CASE SendEnds("OTHER", fate[h.hand])
      BY <2>1, <2>4 DEF Results
  <2>5. ASSUME NEW e \in Errors,
               SendEnds(IF e = "LATE" THEN "OTHER" ELSE e,
                        CASE e = "LATE" -> "unsure"
                          [] e = "BADMSG" -> "rejected"
                          [] OTHER -> fate[h.hand])
        PROVE  \E res \in Results, f \in {"waiting", "unsure", "sent", "rejected"} :
                  SendEnds(res, f) /\ (f = "sent" => res = "OK")
    <3> DEFINE res == IF e = "LATE" THEN "OTHER" ELSE e
               f == CASE e = "LATE" -> "unsure"
                      [] e = "BADMSG" -> "rejected"
                      [] OTHER -> fate[h.hand]
    <3>1. res \in Results
        BY DEF Results, AllErrors
    <3>2. f \in {"waiting", "unsure", "rejected"}
        BY <2>1
    <3>3. SendEnds(res, f)
        BY <2>5
    <3> HIDE DEF res, f
    <3> QED  BY <3>1, <3>2, <3>3
  <2> QED  BY <2>2, <2>3, <2>4, <2>5 DEF Send
<1>3. PICK res \in Results, f \in {"waiting", "unsure", "sent", "rejected"} :
         SendEnds(res, f) /\ (f = "sent" => res = "OK")
    BY <1>2
<1>4. /\ h' = [h EXCEPT !.place = "sent", !.ret = res]
      /\ fate' = [fate EXCEPT ![h.hand] = f]
    BY <1>3 DEF SendEnds
<1>5. faults' \in 0..MaxFaults
    BY FaultType DEF Send
<1>6. /\ h'.hand = h.hand /\ h'.place = "sent" /\ h'.ret = res
      /\ h' \in [place : Places, todo : Nat, hand : Msgs \cup {None},
                  using : Radios, via : Radios, ret : Results]
    BY <1>4 DEF OtherTypes, Places
<1>7. Owners'
    BY <1>1, <1>6 DEF Owners
<1>8. OtherTypes'
    BY <1>1, <1>4, <1>5, <1>6 DEF OtherTypes
<1>9. SentInHand'
  <2> SUFFICES ASSUME NEW m \in Msgs, fate'[m] = "sent"
               PROVE  h'.hand = m /\ h'.place = "sent" /\ h'.ret = "OK"
      BY DEF SentInHand
  <2>1. CASE m = h.hand
      BY <1>3, <1>4, <1>6, <2>1 DEF OtherTypes
  <2>2. CASE m # h.hand
      BY <1>1, <1>4, <2>2 DEF OtherTypes, SentInHand
  <2> QED  BY <2>1, <2>2
<1> QED  BY <1>7, <1>8, <1>9, InvParts, PTL

LEMMA SettleStep == ASSUME IInv, Settle PROVE IInv'
<1> USE InvParts, QueueAssumption
<1> DEFINE next(p) == [Idle EXCEPT !.place = p, !.todo = h.todo, !.using = h.using]
<1>1. /\ h.place = "sent" /\ h.hand \in Msgs /\ h.hand \in heap /\ h.hand \notin putting
      /\ UNCHANGED <<putting, work, faults>>
    BY DEF Settle, Owners, OtherTypes
<1>2. \A p \in {"loop", "idle", "giveUp"} :
         /\ next(p) \in [place : Places, todo : Nat, hand : Msgs \cup {None},
                          using : Radios, via : Radios, ret : Results]
         /\ next(p).hand = None /\ next(p).place = p
    BY DEF OtherTypes, Idle, Places, Radios, Results
<1>3. /\ Idle \in [place : Places, todo : Nat, hand : Msgs \cup {None},
                    using : Radios, via : Radios, ret : Results]
      /\ Idle.hand = None /\ Idle.place = "idle"
    BY DEF Idle, Places, Radios, Results
<1>4. CASE h.ret \in {"OK", "BADMSG"}
  <2>1. h' = next("loop") /\ UNCHANGED <<queue, net>> /\ FreeHand
      BY <1>4 DEF Settle
  <2>2. /\ heap' = heap \ {h.hand}
        /\ fate' = [fate EXCEPT ![h.hand] = "waiting"]
      BY <2>1 DEF FreeHand
  <2>3. /\ h' \in [place : Places, todo : Nat, hand : Msgs \cup {None},
                    using : Radios, via : Radios, ret : Results]
        /\ h'.hand = None /\ h'.place = "loop"
      BY <1>2, <2>1
  <2> HIDE DEF next
  <2>4. GoodQueue(queue, heap', putting, None)
      BY <2>2 DEF Owners, GoodQueue
  <2>5. Owners'
      BY <1>1, <2>1, <2>2, <2>3, <2>4 DEF Owners
  <2>6. OtherTypes'
      BY <1>1, <2>1, <2>2, <2>3 DEF OtherTypes
  <2>7. SentInHand'
      BY <1>1, <2>2 DEF OtherTypes, SentInHand
  <2> QED  BY <2>5, <2>6, <2>7, InvParts, PTL
<1>5. CASE h.ret \notin {"OK", "BADMSG"} /\ h.ret = "ENODEV" /\ h.using = "LTE" /\ ~net.switching
  <2>1. h' = Idle /\ net' = [net EXCEPT !.switching = TRUE] /\ UNCHANGED <<queue, heap, fate>>
      BY <1>5 DEF Settle
  <2>2. GoodQueue(queue, heap, putting, None)
      BY DEF Owners, GoodQueue
  <2>3. Owners'
      BY <1>1, <1>3, <2>1, <2>2 DEF Owners
  <2>4. OtherTypes'
      BY <1>1, <1>3, <2>1 DEF OtherTypes
  <2>5. SentInHand'
      BY <1>5, <2>1 DEF SentInHand
  <2> QED  BY <2>3, <2>4, <2>5, InvParts, PTL
<1>6. CASE h.ret \notin {"OK", "BADMSG"} /\ ~(h.ret = "ENODEV" /\ h.using = "LTE" /\ ~net.switching)
  <2>1. /\ h' = IF h.ret = "NOMQTT" THEN next("giveUp") ELSE Idle
        /\ KeepHand /\ UNCHANGED net
      BY <1>6 DEF Settle
  <2>2. queue' = PutBack(queue, h.hand) /\ UNCHANGED <<heap, fate>>
      BY <2>1 DEF KeepHand
  <2>3. /\ h' \in [place : Places, todo : Nat, hand : Msgs \cup {None},
                    using : Radios, via : Radios, ret : Results]
        /\ h'.hand = None /\ h'.place \notin {"sending", "sent"}
      BY <1>2, <1>3, <2>1
  <2> HIDE DEF next
  <2>4. GoodQueue(queue', heap', putting', None)
      BY <1>1, <2>2, PutBackGood DEF Owners
  <2>5. Owners'
      BY <1>1, <2>2, <2>3, <2>4 DEF Owners
  <2>6. OtherTypes'
      BY <1>1, <2>1, <2>2, <2>3 DEF OtherTypes
  <2>7. SentInHand'
      BY <1>6, <2>2 DEF SentInHand
  <2> QED  BY <2>5, <2>6, <2>7, InvParts, PTL
<1> QED  BY <1>4, <1>5, <1>6

-----------------------------------------------------------------------------
(* The theorems *)

LEMMA InvStep == IInv /\ [Next]_vars => IInv'
<1> SUFFICES ASSUME IInv, [Next]_vars PROVE IInv'
    OBVIOUS
<1>1. ASSUME NEW m \in Msgs, QueueMessage(m) PROVE IInv'
    BY <1>1, QueueMessageStep
<1>2. ASSUME NEW m \in Msgs, PutTimesOut(m) PROVE IInv'
    BY <1>2, PutTimesOutStep
<1>3. CASE QueueWork \/ Environment
    BY <1>3, OutsideStep
<1>4. CASE Handler
    BY <1>4, StartStep, PreparedStep, WfstatStep, FinishStep, TakeStep, SendStep, SettleStep,
       GiveUpStep DEF Handler
<1>5. CASE UNCHANGED vars
    BY <1>5 DEF vars, IInv, TypeOK, OwnedOnce, SentInHand
<1> QED  BY <1>1, <1>2, <1>3, <1>4, <1>5 DEF Next

LEMMA Invariance == Spec => []IInv
  BY InvInit, InvStep, PTL DEF Spec

(* The queue, the heap and the handler's locals keep their types, and mqttq
   never holds more than QueueDepth messages (commMgr_queue_mqtt_message,
   mqttQ_work_handler). *)
THEOREM TypeCorrect == Spec => []TypeOK
<1>1. IInv => TypeOK
    BY DEF IInv
<1> QED  BY <1>1, Invariance, PTL

(* Whatever is queued, times out or fails, no message has two owners, and no
   owner's buffer has been freed (mqttQ_work_handler's k_heap_free()). *)
THEOREM MessagesOwnedOnce == Spec => []OwnedOnce
<1>1. IInv => OwnedOnce
    BY DEF IInv
<1> QED  BY <1>1, Invariance, PTL

(* A message the radio acknowledged is not queued again by the handler. *)
THEOREM AcknowledgedIsGone == Spec => []AckedIsGone
<1>1. IInv => AckedIsGone
    BY DEF IInv, TypeOK, OwnedOnce, SentInHand, AckedIsGone
<1> QED  BY <1>1, Invariance, PTL
-----------------------------------------------------------------------------
(* The queue implements MsgStore where these hold: no more messages exist at
   a time than the queue has entries, and no send ends in -ENODEV. *)
Roomy ==
    /\ IsFiniteSet(Msgs)
    /\ Cardinality(Msgs) <= QueueDepth
    /\ "ENODEV" \notin Errors

(* Nobody waits for room, and what became of a message agrees with where it
   is: only one that is held has a fate, and only the one just sent has its
   final fate, the one the result reports. *)
FateInv ==
    /\ putting = {}
    /\ h.ret # "ENODEV"
    /\ \A m \in Msgs : m \notin Held => fate[m] = "waiting"
    /\ \A i \in 1..Len(queue) : fate[queue[i]] \in {"waiting", "unsure"}
    /\ h.place = "sending" => fate[h.hand] \in {"waiting", "unsure"}
    /\ h.place = "sent" =>
          fate[h.hand] \in CASE h.ret = "OK" -> {"sent"}
                             [] h.ret = "BADMSG" -> {"rejected"}
                             [] OTHER -> {"waiting", "unsure"}

status == [m \in Msgs |-> IF m \in Held THEN fate[m] ELSE "none"]

LEMMA HasRoom ==
    ASSUME Roomy, NEW q \in Seq(Msgs), Distinct(q), NEW m \in Msgs,
           \A i \in 1..Len(q) : q[i] # m
    PROVE  Len(q) < QueueDepth
<1> DEFINE others == Msgs \ {m}
           f == [i \in 1..Len(q) |-> q[i]]
<1>1. Len(q) \in Nat
    OBVIOUS
<1>2. /\ IsFiniteSet(others)
      /\ Cardinality(others) = Cardinality(Msgs) - 1
      /\ Cardinality(Msgs) \in Nat
    BY FS_RemoveElement, FS_CardinalityType DEF Roomy
<1>3. IsFiniteSet(1..Len(q)) /\ Cardinality(1..Len(q)) = Len(q)
  <2>1. 1 \in Int /\ Len(q) \in Int
      BY <1>1
  <2>2. /\ IsFiniteSet(1..Len(q))
        /\ Cardinality(1..Len(q)) = IF 1 > Len(q) THEN 0 ELSE Len(q) - 1 + 1
      BY <2>1, FS_Interval
  <2> QED  BY <1>1, <2>2
<1>4. f \in [1..Len(q) -> others]
    OBVIOUS
<1>5. ~(\E i, j \in 1..Len(q) : i # j /\ f[i] = f[j])
    BY DEF Distinct
<1> HIDE DEF others, f
<1>6. ~(Cardinality(others) < Cardinality(1..Len(q)))
    BY <1>2, <1>3, <1>4, <1>5, FS_PigeonHole
<1> QED  BY <1>1, <1>2, <1>3, <1>6, QueueAssumption DEF Roomy

(* As there is room, everything that is put is put. *)
LEMMA PutBackAppends ==
    ASSUME Roomy, NEW hp, NEW pt, NEW q, NEW m \in Msgs, GoodQueue(q, hp, pt, m)
    PROVE  PutBack(q, m) = Append(q, m)
  BY HasRoom DEF GoodQueue, PutBack

LEMMA AppendElements ==
    ASSUME NEW q \in Seq(Msgs), NEW m \in Msgs
    PROVE  Elements(Append(q, m)) = Elements(q) \cup {m}
<1>1. /\ Len(q) \in Nat
      /\ Len(Append(q, m)) = Len(q) + 1
      /\ \A i \in 1..Len(q) : Append(q, m)[i] = q[i]
      /\ Append(q, m)[Len(q) + 1] = m
    BY AppendFacts
<1>2. 1..(Len(q) + 1) = 1..Len(q) \cup {Len(q) + 1}
    BY <1>1
<1> QED  BY <1>1, <1>2 DEF Elements

LEMMA TailElements ==
    ASSUME NEW q \in Seq(Msgs), q # <<>>
    PROVE  Elements(q) = Elements(Tail(q)) \cup {Head(q)}
<1> DEFINE t == Tail(q)
<1>1. /\ Head(q) = q[1]
      /\ Len(q) \in Nat \ {0}
      /\ Len(t) = Len(q) - 1
      /\ \A i \in 1..Len(t) : t[i] = q[i + 1]
    BY TailFacts
<1> HIDE DEF t
<1>2. \A i \in 1..Len(q) : i = 1 \/ (i - 1 \in 1..Len(t) /\ (i - 1) + 1 = i)
    BY <1>1
<1>3. 1 \in 1..Len(q) /\ \A i \in 1..Len(t) : i + 1 \in 1..Len(q)
    BY <1>1
<1>4. Elements(q) \subseteq Elements(t) \cup {Head(q)}
  <2> SUFFICES ASSUME NEW i \in 1..Len(q) PROVE q[i] \in Elements(t) \cup {Head(q)}
      BY DEF Elements
  <2>1. CASE i = 1
      BY <1>1, <2>1
  <2>2. CASE i # 1
    <3>1. i - 1 \in 1..Len(t) /\ t[i - 1] = q[i]
        BY <1>1, <1>2, <2>2
    <3> QED  BY <3>1 DEF Elements
  <2> QED  BY <2>1, <2>2
<1>5. Elements(t) \cup {Head(q)} \subseteq Elements(q)
    BY <1>1, <1>3 DEF Elements
<1> QED  BY <1>4, <1>5 DEF t


(* What is held is in the heap. *)
LEMMA HeldInHeap == IInv => Held \subseteq heap /\ Held \subseteq Msgs
  BY InvParts DEF Owners, OtherTypes, GoodQueue, Held, Elements

LEMMA SameStatus == Held' = Held /\ fate' = fate => status' = status
  BY DEF status

(* A step that touches neither the queue nor the message in hand. *)
LEMMA QuietStep ==
    ASSUME IInv, FateInv, UNCHANGED <<queue, fate>>, putting' = {}, h'.hand = h.hand,
           h'.ret # "ENODEV", h'.place \notin {"sending", "sent"}
    PROVE  FateInv' /\ status' = status
<1>1. Held' = Held
    BY DEF Held, Elements
<1>2. status' = status
    BY <1>1, SameStatus
<1>3. FateInv'
    BY <1>1 DEF FateInv
<1> QED  BY <1>2, <1>3

LEMMA StoreAccepts ==
    ASSUME Roomy, IInv, FateInv, NEW m \in Msgs, QueueMessage(m)
    PROVE  FateInv' /\ Store!Accept(m)
<1>1. /\ m \notin heap
      /\ UNCHANGED <<work, h, net, faults, fate>>
    BY DEF QueueMessage
<1>2. m \notin Held
    BY <1>1, HeldInHeap
<1>3. queue \in Seq(Msgs) /\ Distinct(queue) /\ \A i \in 1..Len(queue) : queue[i] # m
    BY <1>2, InvParts DEF Owners, GoodQueue, Held, Elements
<1>4. Len(queue) < QueueDepth
    BY <1>3, HasRoom
<1>5. queue' = Append(queue, m) /\ putting' = putting
    BY <1>4 DEF QueueMessage
<1>6. Elements(queue') = Elements(queue) \cup {m}
    BY <1>3, <1>5, AppendElements
<1>7. Held' = Held \cup {m}
    BY <1>1, <1>6 DEF Held
<1>8. FateInv'
  <2>1. \A i \in 1..Len(queue') : queue'[i] \in Elements(queue) \cup {m}
      BY <1>6 DEF Elements
  <2>2. fate[m] = "waiting"
      BY <1>2 DEF FateInv
  <2>3. \A x \in Elements(queue) : fate[x] \in {"waiting", "unsure"}
      BY DEF FateInv, Elements
  <2>4. \A i \in 1..Len(queue') : fate'[queue'[i]] \in {"waiting", "unsure"}
      BY <1>1, <2>1, <2>2, <2>3
  <2> QED  BY <1>1, <1>5, <1>7, <2>4 DEF FateInv
<1>9. status[m] = "none" /\ status' = [status EXCEPT ![m] = "waiting"]
  <2>1. fate[m] = "waiting" /\ fate' = fate
      BY <1>1, <1>2 DEF FateInv
  <2>2. \A n \in Msgs : n \in Held' <=> n \in Held \/ n = m
      BY <1>7
  <2> QED  BY <1>2, <2>1, <2>2 DEF status
<1>10. Cardinality({n \in Msgs : status[n] # "none"}) < QueueDepth + 1
  <2> DEFINE held == {n \in Msgs : status[n] # "none"}
  <2>1. held \in SUBSET Msgs
      OBVIOUS
  <2> HIDE DEF held
  <2>2. /\ Cardinality(held) <= Cardinality(Msgs) /\ IsFiniteSet(held)
      BY <2>1, FS_Subset DEF Roomy
  <2>3. Cardinality(held) \in Nat /\ Cardinality(Msgs) \in Nat
      BY <2>2, FS_CardinalityType DEF Roomy
  <2>4. Cardinality(held) < QueueDepth + 1
      BY <2>2, <2>3, QueueAssumption DEF Roomy
  <2> QED  BY <2>4 DEF held
<1>11. Store!Accept(m)
  <2>1. /\ status[m] = "none"
        /\ Cardinality({n \in Msgs : status[n] # "none"}) < QueueDepth + 1
        /\ status' = [status EXCEPT ![m] = "waiting"]
      BY <1>9, <1>10
  <2> HIDE InvParts
  <2> QED  BY ONLY <2>1 DEF Store!Accept, Store!Becomes, Store!Cardinality, Cardinality, status
<1> QED  BY <1>8, <1>11

LEMMA StoreTake ==
    ASSUME Roomy, IInv, FateInv, Take
    PROVE  FateInv' /\ status' = status
<1> USE InvParts, QueueAssumption
<1> DEFINE m == Head(queue)
           t == Tail(queue)
<1>1. /\ h.hand = None /\ h.place = "loop" /\ queue # <<>>
      /\ UNCHANGED <<heap, work, net, faults, fate>>
    BY EmptyHanded DEF Take
<1>2. AfterGet = {<<t, {}>>}
    BY DEF AfterGet, FateInv
<1>3. /\ putting' = {}
      /\ \/ /\ queue' = PutBack(t, m)
            /\ h' = [h EXCEPT !.todo = @ - 1]
         \/ /\ queue' = t
            /\ h' = [h EXCEPT !.place = "sending", !.todo = @ - 1, !.hand = m, !.via = net.active]
  <2>1. PICK got \in AfterGet :
           /\ putting' = got[2]
           /\ \/ /\ queue' = PutBack(got[1], m)
                 /\ h' = [h EXCEPT !.todo = @ - 1]
              \/ /\ queue' = got[1]
                 /\ h' = [h EXCEPT !.place = "sending", !.todo = @ - 1,
                                   !.hand = m, !.via = net.active]
      BY DEF Take
  <2>2. got = <<t, {}>>
      BY <1>2, <2>1
  <2>3. got[1] = t /\ got[2] = {}
      BY <2>2
  <2> QED  BY <2>1, <2>3
<1>4. GoodQueue(t, heap, {}, m) /\ m \in Msgs
  <2>1. <<t, {}>> \in AfterGet
      BY <1>2
  <2>2. GoodQueue(<<t, {}>>[1], heap, <<t, {}>>[2], m) /\ m \in Msgs
      BY <1>1, <2>1, GetGood DEF Owners, OtherTypes
  <2> QED  BY <2>2
<1>5. Elements(queue) = Elements(t) \cup {m} /\ queue \in Seq(Msgs)
    BY <1>1, TailElements DEF Owners, GoodQueue
<1>6. /\ \A x \in Elements(queue) : fate[x] \in {"waiting", "unsure"}
      /\ h.hand \notin Msgs
    BY <1>1 DEF FateInv, Elements
<1> HIDE DEF m, t
<1>7. CASE queue' = PutBack(t, m) /\ h' = [h EXCEPT !.todo = @ - 1]
  <2>1. queue' = Append(t, m)
      BY <1>4, <1>7, PutBackAppends
  <2>2. Elements(queue') = Elements(queue)
      BY <1>4, <1>5, <2>1, AppendElements DEF GoodQueue
  <2>3. h'.hand = h.hand /\ h'.place = h.place /\ h'.ret = h.ret
      BY <1>7 DEF OtherTypes
  <2>4. Held' = Held
      BY <2>2, <2>3 DEF Held
  <2>5. \A i \in 1..Len(queue') : queue'[i] \in Elements(queue)
      BY <2>2 DEF Elements
  <2>6. FateInv'
      BY <1>1, <1>3, <1>6, <2>3, <2>4, <2>5 DEF FateInv
  <2> QED  BY <1>1, <2>4, <2>6, SameStatus
<1>8. CASE /\ queue' = t
           /\ h' = [h EXCEPT !.place = "sending", !.todo = @ - 1, !.hand = m, !.via = net.active]
  <2>1. h'.hand = m /\ h'.place = "sending" /\ h'.ret = h.ret
      BY <1>8 DEF OtherTypes
  <2>2. Held' = Held
      BY <1>1, <1>4, <1>5, <1>8, <2>1 DEF Held
  <2>3. \A i \in 1..Len(queue') : queue'[i] \in Elements(queue)
      BY <1>5, <1>8 DEF Elements
  <2>4. m \in Elements(queue)
      BY <1>5
  <2>5. FateInv'
      BY <1>1, <1>3, <1>6, <2>1, <2>2, <2>3, <2>4 DEF FateInv
  <2> QED  BY <1>1, <2>2, <2>5, SameStatus
<1> QED  BY <1>3, <1>7, <1>8

(* The new status of one held message *)
LEMMA StatusBecomes ==
    ASSUME NEW m \in Msgs, NEW f, m \in Held, Held' = Held,
           fate \in [Msgs -> {"waiting", "unsure", "sent", "rejected"}],
           fate' = [fate EXCEPT ![m] = f]
    PROVE  status' = [status EXCEPT ![m] = f] /\ status[m] = fate[m]
<1>1. \A n \in Msgs : fate'[n] = IF n = m THEN f ELSE fate[n]
    OBVIOUS
<1> QED  BY <1>1 DEF status

LEMMA StoreSend ==
    ASSUME Roomy, IInv, FateInv, Send
    PROVE  FateInv' /\ [Store!Next]_status
<1> USE InvParts, QueueAssumption
<1>1. /\ h.place = "sending" /\ h.hand \in Msgs
      /\ UNCHANGED <<queue, heap, putting, work, net>>
      /\ fate \in [Msgs -> {"waiting", "unsure", "sent", "rejected"}]
    BY DEF Send, Owners, OtherTypes
<1>2. fate[h.hand] \in {"waiting", "unsure"} /\ h.hand \in Held
    BY <1>1 DEF FateInv, Held
<1>3. PICK res, f :
         /\ SendEnds(res, f)
         /\ \/ res = "OK" /\ f = "sent"
            \/ res = "BADMSG" /\ f = "rejected"
            \/ res \in {"NOMQTT", "OTHER"} /\ f \in {fate[h.hand], "unsure"}
  <2>1. ASSUME NEW e \in Errors,
               SendEnds(IF e = "LATE" THEN "OTHER" ELSE e,
                        CASE e = "LATE" -> "unsure"
                          [] e = "BADMSG" -> "rejected"
                          [] OTHER -> fate[h.hand])
        PROVE  \E res, f :
                 /\ SendEnds(res, f)
                 /\ \/ res = "OK" /\ f = "sent"
                    \/ res = "BADMSG" /\ f = "rejected"
                    \/ res \in {"NOMQTT", "OTHER"} /\ f \in {fate[h.hand], "unsure"}
    <3>1. e \in {"NOMQTT", "BADMSG", "LATE", "OTHER"}
        BY DEF Roomy, AllErrors
    <3>2. CASE e = "LATE"
        BY <2>1, <3>2
    <3>3. CASE e = "BADMSG"
        BY <2>1, <3>3
    <3>4. CASE e \in {"NOMQTT", "OTHER"}
        BY <2>1, <3>4
    <3> QED  BY <3>1, <3>2, <3>3, <3>4
  <2> QED  BY <2>1 DEF Send
<1>4. /\ h' = [h EXCEPT !.place = "sent", !.ret = res]
      /\ fate' = [fate EXCEPT ![h.hand] = f]
    BY <1>3 DEF SendEnds
<1>5. h'.hand = h.hand /\ h'.place = "sent" /\ h'.ret = res
    BY <1>4 DEF OtherTypes
<1>6. Held' = Held
    BY <1>1, <1>5 DEF Held, Elements
<1>7. fate'[h.hand] = f /\ \A n \in Msgs : n # h.hand => fate'[n] = fate[n]
    BY <1>1, <1>4
<1>8. FateInv'
  <2>1. \A i \in 1..Len(queue) : queue[i] \in Msgs /\ queue[i] # h.hand
      BY DEF Owners, GoodQueue
  <2>2. \A i \in 1..Len(queue') : fate'[queue'[i]] \in {"waiting", "unsure"}
      BY <1>1, <1>7, <2>1 DEF FateInv
  <2>3. \A m \in Msgs : m \notin Held' => fate'[m] = "waiting"
      BY <1>2, <1>6, <1>7 DEF FateInv
  <2>4. f \in CASE res = "OK" -> {"sent"}
               [] res = "BADMSG" -> {"rejected"}
               [] OTHER -> {"waiting", "unsure"}
      BY <1>2, <1>3
  <2>5. h'.ret # "ENODEV" /\ putting' = {}
      BY <1>1, <1>3, <1>5 DEF FateInv
  <2> QED  BY <1>5, <1>7, <2>2, <2>3, <2>4, <2>5 DEF FateInv
<1>9. status' = [status EXCEPT ![h.hand] = f] /\ status[h.hand] \in {"waiting", "unsure"}
    BY <1>1, <1>2, <1>4, <1>6, StatusBecomes
<1>10. CASE f = status[h.hand]
  <2>1. status' = status
      BY <1>9, <1>10 DEF status
  <2> QED  BY <1>8, <2>1 DEF status
<1>11. CASE f # status[h.hand]
  <2>1. /\ \/ f = "sent"
           \/ f = "rejected"
           \/ f = "unsure" /\ status[h.hand] = "waiting"
        /\ status[h.hand] \in {"waiting", "unsure"}
        /\ status' = [status EXCEPT ![h.hand] = f]
    <3>1. fate[h.hand] = status[h.hand]
        BY <1>1, <1>2 DEF status
    <3> QED  BY <1>3, <1>9, <1>11, <3>1
  <2>2. PICK m \in Msgs : m = h.hand
      BY <1>1
  <2>3. /\ \/ f = "sent"
           \/ f = "rejected"
           \/ f = "unsure" /\ status[m] = "waiting"
        /\ status[m] \in {"waiting", "unsure"}
        /\ status' = [status EXCEPT ![m] = f]
      BY <2>1, <2>2
  <2>4. Store!Acknowledge(m) \/ Store!Reject(m) \/ Store!Unheard(m)
      BY ONLY <2>3 DEF Store!Acknowledge, Store!Reject, Store!Unheard, Store!Becomes, status
  <2>5. Store!Next
      BY <2>4 DEF Store!Next
  <2> QED  BY <1>8, <2>5
<1> QED  BY <1>10, <1>11

LEMMA StoreSettle ==
    ASSUME Roomy, IInv, FateInv, Settle
    PROVE  FateInv' /\ [Store!Next]_status
<1> USE InvParts, QueueAssumption
<1> DEFINE next(p) == [Idle EXCEPT !.place = p, !.todo = h.todo, !.using = h.using]
<1>1. /\ h.place = "sent" /\ h.hand \in Msgs /\ h.ret \in Results /\ h.ret # "ENODEV"
      /\ UNCHANGED <<putting, work, faults>>
      /\ GoodQueue(queue, heap, putting, h.hand)
      /\ fate \in [Msgs -> {"waiting", "unsure", "sent", "rejected"}]
    BY DEF Settle, Owners, OtherTypes, FateInv
<1>2. h' \in {next("loop"), next("giveUp"), Idle}
    BY <1>1 DEF Settle, Results
<1>3. h'.hand = None /\ h'.place \notin {"sending", "sent"} /\ h'.ret = "OK"
  <2>1. \A p \in {"loop", "giveUp"} :
           next(p).hand = None /\ next(p).place = p /\ next(p).ret = "OK"
      BY DEF Idle
  <2>2. Idle.hand = None /\ Idle.place = "idle" /\ Idle.ret = "OK"
      BY DEF Idle
  <2> HIDE DEF next
  <2> QED  BY <1>2, <2>1, <2>2
<1> HIDE DEF next
<1>4. CASE h.ret \in {"OK", "BADMSG"}
  <2>1. queue' = queue /\ fate' = [fate EXCEPT ![h.hand] = "waiting"]
      BY <1>4 DEF Settle, FreeHand
  <2>2. fate[h.hand] \in {"sent", "rejected"} /\ h.hand \in Held
      BY <1>1, <1>4 DEF FateInv, Held
  <2>3. h.hand \notin Elements(queue)
      BY <1>1 DEF GoodQueue, Elements
  <2>4. Held' = Held \ {h.hand}
      BY <1>1, <1>3, <2>1, <2>3 DEF Held, Elements
  <2>5. \A n \in Msgs : fate'[n] = IF n = h.hand THEN "waiting" ELSE fate[n]
      BY <1>1, <2>1
  <2>6. FateInv'
    <3>1. \A i \in 1..Len(queue') : fate'[queue'[i]] \in {"waiting", "unsure"}
        BY <1>1, <2>1, <2>5 DEF FateInv, GoodQueue
    <3>2. \A m \in Msgs : m \notin Held' => fate'[m] = "waiting"
        BY <2>4, <2>5 DEF FateInv
    <3> QED  BY <1>1, <1>3, <3>1, <3>2 DEF FateInv
  <2>7. status[h.hand] \in {"sent", "rejected"} /\ status' = [status EXCEPT ![h.hand] = "none"]
      BY <1>1, <2>2, <2>4, <2>5 DEF status
  <2>8. PICK m \in Msgs : m = h.hand
      BY <1>1
  <2>9. Store!Next
    <3>1. status[m] \in {"sent", "rejected"} /\ status' = [status EXCEPT ![m] = "none"]
        BY <2>7, <2>8
    <3>2. Store!Forget(m)
        BY ONLY <3>1 DEF Store!Forget, Store!Becomes, status
    <3> QED  BY <3>2 DEF Store!Next
  <2> QED  BY <2>6, <2>9
<1>5. CASE h.ret \notin {"OK", "BADMSG"}
  <2>1. queue' = PutBack(queue, h.hand) /\ fate' = fate
      BY <1>1, <1>5 DEF Settle, KeepHand
  <2>2. queue' = Append(queue, h.hand)
      BY <1>1, <2>1, PutBackAppends
  <2>3. Elements(queue') = Elements(queue) \cup {h.hand}
      BY <1>1, <2>2, AppendElements DEF GoodQueue
  <2>4. Held' = Held
      BY <1>1, <1>3, <2>3 DEF Held
  <2>5. FateInv'
    <3>1. fate[h.hand] \in {"waiting", "unsure"}
        BY <1>1, <1>5 DEF FateInv
    <3>2. \A x \in Elements(queue') : fate[x] \in {"waiting", "unsure"}
        BY <2>3, <3>1 DEF FateInv, Elements
    <3>3. \A i \in 1..Len(queue') : fate'[queue'[i]] \in {"waiting", "unsure"}
        BY <2>1, <3>2 DEF Elements
    <3> QED  BY <1>1, <1>3, <2>1, <2>4, <3>3 DEF FateInv
  <2>6. status' = status
      BY <2>1, <2>4, SameStatus
  <2> QED  BY <2>5, <2>6 DEF status
<1> QED  BY <1>4, <1>5

LEMMA StoreStep ==
    ASSUME Roomy, IInv, FateInv, [Next]_vars
    PROVE  FateInv' /\ [Store!Next]_status
<1> USE InvParts
<1>1. ASSUME NEW m \in Msgs, QueueMessage(m) PROVE FateInv' /\ [Store!Next]_status
  <2>1. FateInv' /\ Store!Accept(m)
      BY <1>1, StoreAccepts
  <2> QED  BY <2>1 DEF Store!Next
<1>2. ASSUME NEW m \in Msgs, PutTimesOut(m) PROVE FALSE
    BY <1>2 DEF PutTimesOut, FateInv
<1>3. ASSUME \/ Start \/ Prepared \/ Wfstat \/ Finish \/ GiveUp PROVE FateInv' /\ status' = status
  <2>1. h.hand = None /\ h.place \notin {"sending", "sent"}
      BY <1>3, EmptyHanded DEF Start, Prepared, Wfstat, Finish, GiveUp
  <2>2. UNCHANGED <<queue, fate, putting>> /\ putting = {} /\ h.ret # "ENODEV"
      BY <1>3 DEF Start, Prepared, Wfstat, Finish, GiveUp, FateInv
  <2>3. h'.hand = None /\ h'.ret \in {h.ret, "OK"} /\ h'.place \notin {"sending", "sent"}
    <3>1. CASE Start
        BY <2>1, <3>1 DEF Start, OtherTypes
    <3>2. CASE Prepared
        BY <2>1, <3>2 DEF Prepared, OtherTypes, Idle
    <3>3. CASE Wfstat
        BY <2>1, <3>3 DEF Wfstat, OtherTypes
    <3>4. CASE Finish
        BY <3>4 DEF Finish, Idle
    <3>5. CASE GiveUp
        BY <3>5 DEF GiveUp, Idle
    <3> QED  BY <1>3, <3>1, <3>2, <3>3, <3>4, <3>5
  <2> QED  BY <2>1, <2>2, <2>3, QuietStep
<1>4. ASSUME QueueWork \/ Environment \/ UNCHANGED vars PROVE FateInv' /\ status' = status
  <2>1. UNCHANGED <<queue, fate, putting, h>>
      BY <1>4 DEF QueueWork, Environment, vars
  <2>2. Held' = Held
      BY <2>1 DEF Held, Elements
  <2>3. FateInv'
      BY <2>1, <2>2 DEF FateInv
  <2> QED  BY <2>1, <2>2, <2>3, SameStatus
<1>5. CASE Take
    BY <1>5, StoreTake
<1>6. CASE Send
    BY <1>6, StoreSend
<1>7. CASE Settle
    BY <1>7, StoreSettle
<1> QED  BY <1>1, <1>2, <1>3, <1>4, <1>5, <1>6, <1>7 DEF Next, Handler, status

(* Wherever the queue has room for every message there is, and no send ends in
   -ENODEV, mqttQ_work_handler and its callers implement MsgStore: no accepted
   message is lost.  Both conditions are needed: a message put back may find the queue
   full, and after -ENODEV the message in hand is lost also where the queue has room. *)
THEOREM KeepsEveryMessage ==
    ASSUME Roomy
    PROVE  Spec => KeepsMessages
<1>1. Init => FateInv /\ Store!Init
  <2> SUFFICES ASSUME Init PROVE FateInv /\ Store!Init
      OBVIOUS
  <2>1. Held = {}
      BY DEF Init, Idle, Held, Elements
  <2>2. FateInv
      BY <2>1 DEF Init, Idle, FateInv
  <2>3. Store!Init
      BY <2>1 DEF Store!Init
  <2> QED  BY <2>2, <2>3
<1>2. IInv /\ FateInv /\ [Next]_vars => FateInv' /\ [Store!Next]_status
    BY StoreStep
<1>3. IInv /\ FateInv /\ [Next]_vars
        => FateInv' /\ [Store!Next]_[m \in Msgs |-> IF m \in Held THEN fate[m] ELSE "none"]
    BY <1>2 DEF status
<1> QED  BY <1>1, <1>3, Invariance, PTL DEF Spec, KeepsMessages, Store!Spec
=============================================================================
