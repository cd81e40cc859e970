--------------------------- MODULE SpiLink_proofs ---------------------------
(***************************************************************************)
(* Proofs about SpiLink, for every number of callers and handles, every    *)
(* length of the queue and every number of failures: type correctness, a   *)
(* handle has one owner (HandlesOwnedOnce), and the reply that a caller    *)
(* gets on a handle that is not unsure is its own (OwnReply), from a       *)
(* buffer that was not freed (NoStaleBuffer).                              *)
(*                                                                         *)
(* The argument for the last two, for each handle that is not unsure: at   *)
(* most one message with that handle is under way, in the send queue, at   *)
(* the modem or in the receive queue, and its sender is waiting (Sure).    *)
(* So a caller that frees the handle leaves no message behind that could   *)
(* be taken for the reply to the next command.                             *)
(***************************************************************************)
EXTENDS SpiLink, WellFoundedInduction, TLAPS

(* What the modem gets to see: commands with a handle *)
Reply == [from : Callers, handle : Handles, copy : 0..MaxFaults]

(* TypeOK by the part of the state it is about, and what it leaves open *)
TableOK == table \in [Handles -> Entry]
CallerOK == caller \in [Callers -> CallerState]
SendOK ==
    /\ sendq \in Seq(Command)
    /\ Len(sendq) <= MaxQueue
    /\ \A i \in 1..Len(sendq) : /\ sendq[i].from = None <=> sendq[i].handle = NoReply
                                /\ sendq[i].copy <= faults
RecvOK == recvq \in Seq(Reply)
ModemOK == modem \subseteq Reply
FlagsOK == power \in {"on", "soft", "off"} /\ ready \in BOOLEAN
UnsureOK == unsure \subseteq Handles
FaultsOK == faults \in 0..MaxFaults

Types == TableOK /\ CallerOK /\ SendOK /\ RecvOK /\ ModemOK /\ FlagsOK /\ UnsureOK /\ FaultsOK

(* The senders of the messages with handle h in a queue or at the modem, and
   that there is one such message at most *)
Froms(q, h) == {q[i].from : i \in {k \in 1..Len(q) : q[k].handle = h}}
OnceIn(q, h) == \A i, j \in 1..Len(q) : q[i].handle = h /\ q[j].handle = h => i = j
FromsOf(s, h) == {m.from : m \in {n \in s : n.handle = h}}
OnceOf(s, h) == \A m, n \in s : m.handle = h /\ n.handle = h => m = n

WaitsFor(c, h) ==
    /\ c \in Callers
    /\ caller[c].place = "waiting"
    /\ caller[c].handle = h
    /\ table[h].data = None

Sure(h) ==
    /\ OnceIn(sendq, h) /\ OnceIn(recvq, h) /\ OnceOf(modem, h)
    /\ Froms(sendq, h) = {} \/ Froms(recvq, h) = {}
    /\ Froms(sendq, h) = {} \/ FromsOf(modem, h) = {}
    /\ Froms(recvq, h) = {} \/ FromsOf(modem, h) = {}
    /\ \A c \in Froms(sendq, h) \cup Froms(recvq, h) \cup FromsOf(modem, h) : WaitsFor(c, h)
    /\ table[h].data # None => /\ table[h].live /\ table[h].used
                               /\ \A c \in Callers : Owns(c, h) => c = table[h].data
    /\ \A c \in Callers : caller[c].place = "answered" /\ caller[c].handle = h => caller[c].got = c

AllSure == \A h \in Handles \ unsure : Sure(h)

IInv == Types /\ HandlesOwnedOnce /\ AllSure

-----------------------------------------------------------------------------
(* Queues *)

LEMMA TailFacts ==
    ASSUME NEW S, NEW q \in Seq(S), q # <<>>
    PROVE  /\ Head(q) \in S /\ Head(q) = q[1]
           /\ Len(q) \in Nat \ {0}
           /\ Tail(q) \in Seq(S)
           /\ Len(Tail(q)) = Len(q) - 1
           /\ \A i \in 1..Len(Tail(q)) : i + 1 \in 1..Len(q) /\ Tail(q)[i] = q[i + 1]
  OBVIOUS

LEMMA AppendFacts ==
    ASSUME NEW S, NEW q \in Seq(S), NEW x \in S
    PROVE  /\ Append(q, x) \in Seq(S)
           /\ Len(q) \in Nat
           /\ Len(Append(q, x)) = Len(q) + 1
           /\ \A i \in 1..Len(q) : Append(q, x)[i] = q[i]
           /\ Append(q, x)[Len(q) + 1] = x
  OBVIOUS

LEMMA NewHeadFacts ==
    ASSUME NEW S, NEW q \in Seq(S), q # <<>>, NEW x \in S
    PROVE  /\ <<x>> \o Tail(q) \in Seq(S)
           /\ Len(q) \in Nat \ {0}
           /\ Len(<<x>> \o Tail(q)) = Len(q)
           /\ (<<x>> \o Tail(q))[1] = x
           /\ \A i \in 1..Len(q) : i # 1 => (<<x>> \o Tail(q))[i] = q[i]
  OBVIOUS

LEMMA TailFroms ==
    ASSUME NEW S, NEW q \in Seq(S), q # <<>>, NEW h
    PROVE  /\ Froms(Tail(q), h) \subseteq Froms(q, h)
           /\ Head(q).handle = h => Head(q).from \in Froms(q, h)
           /\ OnceIn(q, h) => OnceIn(Tail(q), h)
           /\ OnceIn(q, h) /\ Head(q).handle = h => Froms(Tail(q), h) = {}
<1> DEFINE t == Tail(q)
<1>1. /\ Head(q) = q[1]
      /\ Len(q) \in Nat \ {0}
      /\ Len(t) = Len(q) - 1
      /\ \A i \in 1..Len(t) : i + 1 \in 1..Len(q) /\ t[i] = q[i + 1]
    BY TailFacts
<1>2. 1 \in 1..Len(q) /\ \A i \in 1..Len(t) : i + 1 # 1
    BY <1>1
<1> HIDE DEF t
<1>3. Froms(t, h) \subseteq Froms(q, h)
    BY <1>1 DEF Froms
<1>4. Head(q).handle = h => Head(q).from \in Froms(q, h)
    BY <1>1, <1>2 DEF Froms
<1>5. OnceIn(q, h) => OnceIn(t, h)
    BY <1>1 DEF OnceIn
<1>6. ASSUME OnceIn(q, h), Head(q).handle = h
      PROVE  Froms(t, h) = {}
  <2>1. \A i \in 1..Len(t) : t[i].handle # h
      BY <1>1, <1>2, <1>6 DEF OnceIn
  <2> QED  BY <2>1 DEF Froms
<1> QED  BY <1>3, <1>4, <1>5, <1>6 DEF t

LEMMA AppendFroms ==
    ASSUME NEW S, NEW q \in Seq(S), NEW x \in S, NEW h
    PROVE  /\ x.handle # h => /\ Froms(Append(q, x), h) = Froms(q, h)
                              /\ OnceIn(q, h) => OnceIn(Append(q, x), h)
           /\ x.handle = h /\ Froms(q, h) = {} => /\ Froms(Append(q, x), h) = {x.from}
                                                  /\ OnceIn(Append(q, x), h)
<1> DEFINE a == Append(q, x)
<1>1. /\ Len(q) \in Nat
      /\ Len(a) = Len(q) + 1
      /\ \A i \in 1..Len(q) : a[i] = q[i]
      /\ a[Len(q) + 1] = x
    BY AppendFacts
<1> HIDE DEF a
<1>2. /\ \A i \in 1..Len(a) : i \in 1..Len(q) \/ i = Len(q) + 1
      /\ \A i \in 1..Len(q) : i \in 1..Len(a)
      /\ Len(q) + 1 \in 1..Len(a)
    BY <1>1
<1>3. ASSUME x.handle # h
      PROVE  Froms(a, h) = Froms(q, h) /\ (OnceIn(q, h) => OnceIn(a, h))
    BY <1>1, <1>2, <1>3 DEF Froms, OnceIn
<1>4. ASSUME x.handle = h, Froms(q, h) = {}
      PROVE  Froms(a, h) = {x.from} /\ OnceIn(a, h)
  <2>1. \A i \in 1..Len(q) : q[i].handle # h
      BY <1>4 DEF Froms
  <2> QED  BY <1>1, <1>2, <1>4, <2>1 DEF Froms, OnceIn
<1> QED  BY <1>3, <1>4 DEF a

LEMMA NewHeadFroms ==
    ASSUME NEW S, NEW q \in Seq(S), q # <<>>, NEW x \in S, NEW h, x.handle # h, Head(q).handle # h
    PROVE  /\ Froms(<<x>> \o Tail(q), h) = Froms(q, h)
           /\ OnceIn(q, h) => OnceIn(<<x>> \o Tail(q), h)
<1> DEFINE a == <<x>> \o Tail(q)
<1>1. /\ Len(q) \in Nat \ {0}
      /\ Len(a) = Len(q)
      /\ a[1] = x
      /\ q[1].handle # h
      /\ \A i \in 1..Len(q) : i # 1 => a[i] = q[i]
    BY NewHeadFacts
<1> HIDE DEF a
<1>2. \A i \in 1..Len(q) : q[i].handle = h => i # 1 /\ a[i] = q[i]
    BY <1>1
<1>3. \A i \in 1..Len(q) : a[i].handle = h => i # 1 /\ a[i] = q[i]
    BY <1>1
<1>4. Froms(a, h) = Froms(q, h) /\ (OnceIn(q, h) => OnceIn(a, h))
    BY <1>1, <1>2, <1>3 DEF Froms, OnceIn
<1> QED  BY <1>4 DEF a

-----------------------------------------------------------------------------
(* Handles *)

LEMMA SmallestExists ==
    ASSUME NEW T, T \subseteq Nat, T # {}
    PROVE  \E i \in T : \A j \in T : i <= j
<1>1. PICK i \in T : \A j \in T : ~(<<j, i>> \in OpToRel(<, Nat))
    BY WFMin, NatLessThanWellFounded, Zenon
<1>2. \A j \in T : ~(j < i)
    BY <1>1 DEF OpToRel
<1>3. \A j \in T : i <= j
    BY <1>2
<1> QED  BY <1>3

LEMMA NextHandleIsFree ==
    ASSUME NextHandle # Beyond
    PROVE  NextHandle \in Handles /\ ~table[NextHandle].used
<1>1. FreeHandles # {} /\ FreeHandles \subseteq Nat
    BY SpiAssumption DEF NextHandle, FreeHandles, Handles
<1>2. \E h \in FreeHandles : \A g \in FreeHandles : h <= g
    BY <1>1, SmallestExists
<1>3. NextHandle \in FreeHandles
    BY <1>1, <1>2 DEF NextHandle
<1> QED  BY <1>3 DEF FreeHandles

LEMMA NotHandles ==
    /\ Beyond \notin Handles /\ NoReply \notin Handles
    /\ Beyond \in 0..Beyond /\ NoReply \in 0..Beyond
    /\ \A h \in Handles : h \in 0..Beyond
    BY SpiAssumption DEF Beyond, NoReply, Handles

LEMMA FaultType == FaultsOK /\ Fault => FaultsOK' /\ faults' = faults + 1
    BY SpiAssumption DEF FaultsOK, Fault

LEMMA CopiesAreNumbers ==
    ASSUME NEW q \in Seq(Command)
    PROVE  \A i \in 1..Len(q) : q[i] \in Command /\ q[i].copy \in Nat
<1>1. \A i \in 1..Len(q) : q[i] \in Command
    OBVIOUS
<1>2. \A m \in Command : m.copy \in Nat
    BY SpiAssumption DEF Command
<1> QED  BY <1>1, <1>2

(* More faults leave the copies' numbers in their bound. *)
LEMMA SendStaysOK ==
    ASSUME SendOK, FaultsOK, sendq' = sendq, Fault \/ UNCHANGED faults
    PROVE  SendOK'
<1>1. faults \in Nat /\ faults' \in Nat /\ faults <= faults'
    BY FaultType DEF FaultsOK
<1>2. \A i \in 1..Len(sendq) : sendq[i].copy \in Nat
    BY CopiesAreNumbers DEF SendOK
<1>3. \A i \in 1..Len(sendq) : sendq[i].copy <= faults'
    BY <1>1, <1>2 DEF SendOK
<1> QED  BY <1>3 DEF SendOK

LEMMA TailSendOK ==
    ASSUME SendOK, FaultsOK, sendq # <<>>, sendq' = Tail(sendq), Fault \/ UNCHANGED faults
    PROVE  SendOK'
<1>1. /\ Len(sendq) \in Nat \ {0}
      /\ Tail(sendq) \in Seq(Command)
      /\ Len(Tail(sendq)) = Len(sendq) - 1
      /\ \A i \in 1..Len(Tail(sendq)) : i + 1 \in 1..Len(sendq) /\ Tail(sendq)[i] = sendq[i + 1]
    BY TailFacts DEF SendOK
<1>2. faults \in Nat /\ faults' \in Nat /\ faults <= faults'
    BY FaultType DEF FaultsOK
<1>3. \A i \in 1..Len(sendq) : sendq[i].copy \in Nat
    BY CopiesAreNumbers DEF SendOK
<1>4. \A i \in 1..Len(sendq') : sendq'[i].copy <= faults'
    BY <1>1, <1>2, <1>3 DEF SendOK
<1>5. \A i \in 1..Len(sendq') : sendq'[i].from = None <=> sendq'[i].handle = NoReply
    BY <1>1 DEF SendOK
<1>6. Len(sendq') <= MaxQueue
    BY <1>1, SpiAssumption DEF SendOK
<1> QED  BY <1>1, <1>4, <1>5, <1>6 DEF SendOK

LEMMA AppendSendOK ==
    ASSUME SendOK, FaultsOK, UNCHANGED faults, Len(sendq) < MaxQueue,
           NEW c \in Callers \cup {None}, NEW h \in Handles \cup {NoReply}, c = None <=> h = NoReply,
           sendq' = Append(sendq, [from |-> c, handle |-> h, copy |-> 0])
    PROVE  SendOK'
<1> DEFINE x == [from |-> c, handle |-> h, copy |-> 0]
<1>1. x \in Command
    BY SpiAssumption DEF Command
<1>2. /\ Append(sendq, x) \in Seq(Command)
      /\ Len(sendq) \in Nat
      /\ Len(Append(sendq, x)) = Len(sendq) + 1
      /\ \A i \in 1..Len(sendq) : Append(sendq, x)[i] = sendq[i]
      /\ Append(sendq, x)[Len(sendq) + 1] = x
    BY <1>1, AppendFacts DEF SendOK
<1>3. x.from = c /\ x.handle = h /\ x.copy = 0 /\ 0 <= faults
    BY DEF FaultsOK
<1> HIDE DEF x
<1>4. \A i \in 1..Len(sendq') : i \in 1..Len(sendq) \/ i = Len(sendq) + 1
    BY <1>2 DEF x
<1>5. sendq' = Append(sendq, x)
    BY DEF x
<1>6. \A i \in 1..Len(sendq') : /\ sendq'[i].from = None <=> sendq'[i].handle = NoReply
                                /\ sendq'[i].copy <= faults'
    BY <1>2, <1>3, <1>4, <1>5 DEF SendOK
<1>7. Len(sendq') <= MaxQueue
    BY <1>2, <1>5, SpiAssumption
<1> QED  BY <1>2, <1>5, <1>6, <1>7 DEF SendOK

LEMMA NewHeadSendOK ==
    ASSUME SendOK, FaultsOK, sendq # <<>>, Fault,
           sendq' = <<[Head(sendq) EXCEPT !.copy = @ + 1]>> \o Tail(sendq)
    PROVE  SendOK'
<1> DEFINE m == Head(sendq)
           x == [m EXCEPT !.copy = @ + 1]
<1>1. faults \in Nat /\ faults' \in 0..MaxFaults /\ faults' = faults + 1
    BY FaultType DEF FaultsOK
<1>2. m \in Command /\ m = sendq[1] /\ Len(sendq) \in Nat \ {0}
    BY TailFacts DEF SendOK
<1>3. m.copy \in Nat /\ m.copy <= faults
    BY <1>2, CopiesAreNumbers DEF SendOK
<1>4. x.copy = m.copy + 1 /\ x.from = m.from /\ x.handle = m.handle
    BY <1>2 DEF Command
<1>5. m.copy + 1 \in 0..MaxFaults
    BY <1>1, <1>3, SpiAssumption
<1>6. x \in Command
    BY <1>2, <1>5 DEF Command
<1>7. /\ <<x>> \o Tail(sendq) \in Seq(Command)
      /\ Len(<<x>> \o Tail(sendq)) = Len(sendq)
      /\ (<<x>> \o Tail(sendq))[1] = x
      /\ \A i \in 1..Len(sendq) : i # 1 => (<<x>> \o Tail(sendq))[i] = sendq[i]
    BY <1>6, NewHeadFacts DEF SendOK
<1>8. sendq' = <<x>> \o Tail(sendq)
    OBVIOUS
<1> HIDE DEF x
<1>9. \A i \in 1..Len(sendq) : sendq[i].copy \in Nat /\ sendq[i].copy <= faults
    BY CopiesAreNumbers DEF SendOK
<1>10. \A i \in 1..Len(sendq') : sendq'[i].copy <= faults'
  <2>1. x.copy <= faults'
      BY <1>1, <1>3, <1>4
  <2>2. ASSUME NEW i \in 1..Len(sendq), i # 1
        PROVE  sendq'[i].copy <= faults'
    <3>1. sendq'[i] = sendq[i]
        BY <1>7, <1>8, <2>2
    <3> QED  BY <1>1, <1>9, <3>1
  <2>3. sendq'[1] = x /\ Len(sendq') = Len(sendq)
      BY <1>7, <1>8
  <2> QED  BY <2>1, <2>2, <2>3
<1>11. \A i \in 1..Len(sendq') : sendq'[i].from = None <=> sendq'[i].handle = NoReply
  <2>1. x.from = None <=> x.handle = NoReply
      BY <1>2, <1>4 DEF SendOK
  <2> QED  BY <1>7, <1>8, <2>1 DEF SendOK
<1> QED  BY <1>7, <1>8, <1>10, <1>11 DEF SendOK

-----------------------------------------------------------------------------
(* When a step keeps HandlesOwnedOnce and Sure *)

LEMMA OwnedSame ==
    ASSUME HandlesOwnedOnce,
           \A h \in Handles, c \in Callers :
               Owns(c, h)' => Owns(c, h) /\ table'[h].used = table[h].used
    PROVE  HandlesOwnedOnce'
    BY DEF HandlesOwnedOnce

(* No message with handle h is new. *)
MsgsShrink(h) ==
    /\ OnceIn(sendq, h) => OnceIn(sendq', h)
    /\ OnceIn(recvq, h) => OnceIn(recvq', h)
    /\ OnceOf(modem, h) => OnceOf(modem', h)
    /\ Froms(sendq', h) \subseteq Froms(sendq, h)
    /\ Froms(recvq', h) \subseteq Froms(recvq, h)
    /\ FromsOf(modem', h) \subseteq FromsOf(modem, h)

LEMMA MsgsSame ==
    ASSUME UNCHANGED <<sendq, recvq, modem>>, NEW h
    PROVE  MsgsShrink(h)
    BY DEF MsgsShrink

(* Neither the entry of h nor a caller that has to do with it changes. *)
LEMMA SureSame ==
    ASSUME NEW h, Sure(h), MsgsShrink(h), table'[h] = table[h],
           \A c \in Callers : Owns(c, h)' => caller'[c] = caller[c],
           \A c \in Callers : WaitsFor(c, h) => caller'[c] = caller[c]
    PROVE  Sure(h)'
<1>1. \A c : WaitsFor(c, h) => WaitsFor(c, h)'
    BY DEF WaitsFor
<1>2. /\ OnceIn(sendq', h) /\ OnceIn(recvq', h) /\ OnceOf(modem', h)
      /\ Froms(sendq', h) = {} \/ Froms(recvq', h) = {}
      /\ Froms(sendq', h) = {} \/ FromsOf(modem', h) = {}
      /\ Froms(recvq', h) = {} \/ FromsOf(modem', h) = {}
    BY DEF Sure, MsgsShrink
<1>3. \A c \in Froms(sendq', h) \cup Froms(recvq', h) \cup FromsOf(modem', h) : WaitsFor(c, h)'
    BY <1>1 DEF Sure, MsgsShrink
<1>4. \A c \in Callers : Owns(c, h)' => Owns(c, h)
    BY DEF Owns
<1>5. table'[h].data # None => /\ table'[h].live /\ table'[h].used
                               /\ \A c \in Callers : Owns(c, h)' => c = table'[h].data
    BY <1>4 DEF Sure
<1>6. \A c \in Callers : caller'[c].place = "answered" /\ caller'[c].handle = h
                              => caller'[c].got = c
    BY DEF Sure, Owns
<1> QED  BY <1>2, <1>3, <1>5, <1>6 DEF Sure

(* Messages only move. *)
LEMMA SureMoves ==
    ASSUME NEW h, Sure(h), UNCHANGED <<table, caller>>,
           OnceIn(sendq', h), OnceIn(recvq', h), OnceOf(modem', h),
           Froms(sendq', h) = {} \/ Froms(recvq', h) = {},
           Froms(sendq', h) = {} \/ FromsOf(modem', h) = {},
           Froms(recvq', h) = {} \/ FromsOf(modem', h) = {},
           Froms(sendq', h) \cup Froms(recvq', h) \cup FromsOf(modem', h) \subseteq
               Froms(sendq, h) \cup Froms(recvq, h) \cup FromsOf(modem, h)
    PROVE  Sure(h)'
<1>1. \A c \in Froms(sendq', h) \cup Froms(recvq', h) \cup FromsOf(modem', h) : WaitsFor(c, h)'
  <2>1. \A c : WaitsFor(c, h) => WaitsFor(c, h)'
      BY DEF WaitsFor
  <2> QED  BY <2>1 DEF Sure
<1>2. /\ table'[h].data # None => /\ table'[h].live /\ table'[h].used
                                  /\ \A c \in Callers : Owns(c, h)' => c = table'[h].data
      /\ \A c \in Callers : caller'[c].place = "answered" /\ caller'[c].handle = h
                                 => caller'[c].got = c
  <2>1. \A c : Owns(c, h)' <=> Owns(c, h)
      BY DEF Owns
  <2> QED  BY <2>1 DEF Sure
<1> QED  BY <1>1, <1>2 DEF Sure

(* Only a caller that waits has sent a message. *)
LEMMA NoMessages ==
    ASSUME NEW h, Sure(h), \A c \in Callers : ~WaitsFor(c, h)
    PROVE  Froms(sendq, h) = {} /\ Froms(recvq, h) = {} /\ FromsOf(modem, h) = {}
    BY DEF Sure, WaitsFor

-----------------------------------------------------------------------------
(* The steps of a caller *)

LEMMA CallerFacts ==
    ASSUME CallerOK, NEW c \in Callers
    PROVE  /\ caller[c] \in CallerState
           /\ caller[c].place \in {"idle", "waiting", "answered"}
           /\ caller[c].handle \in 0..Beyond
           /\ caller[c].got \in Callers \cup {None, Garbage}
    BY DEF CallerOK, CallerState

LEMMA IdleFacts ==
    Idle \in CallerState /\ Idle.place = "idle" /\ Empty \in Entry /\ Empty.data = None
    BY NotHandles DEF Idle, CallerState, Empty, Entry

LEMMA PollKeeps ==
    ASSUME IInv, NEW c \in Callers, Poll(c)
    PROVE  IInv'
<1> USE DEF IInv
<1>0. PICK h \in 0..Beyond : h = caller[c].handle
    BY CallerFacts DEF Types
<1>1. PICK got \in Callers \cup {Garbage} :
          /\ h \in Handles => /\ table[h].data # None
                              /\ got = table[h].data \/ (~table[h].live /\ got = Garbage)
          /\ caller' = [caller EXCEPT ![c].place = "answered", ![c].got = got]
    BY <1>0 DEF Poll
<1>2. caller[c].place = "waiting" /\ UNCHANGED <<table, sendq, recvq, modem, power, ready, unsure, faults>>
    BY DEF Poll
<1>3. caller[c] \in CallerState /\ CallerOK
    BY CallerFacts DEF Types
<1>4. /\ caller'[c] = [place |-> "answered", handle |-> h, got |-> got]
      /\ \A d \in Callers : d # c => caller'[d] = caller[d]
    BY <1>0, <1>1, <1>3 DEF CallerOK, CallerState
<1>5. Types'
  <2>1. CallerOK'
    <3>1. caller'[c] \in CallerState
        BY <1>3, <1>4, CallerFacts DEF CallerState
    <3> QED  BY <1>1, <1>3, <3>1 DEF CallerOK
  <2>2. SendOK'
      BY <1>2 DEF Types, SendOK
  <2> QED  BY <1>2, <2>1, <2>2 DEF Types, TableOK, RecvOK, ModemOK, FlagsOK, UnsureOK, FaultsOK
<1>6. \A d \in Callers, g \in Handles : Owns(d, g)' <=> Owns(d, g)
    BY <1>0, <1>2, <1>4 DEF Owns
<1>7. HandlesOwnedOnce'
    BY <1>2, <1>6, OwnedSame
<1>8. ASSUME NEW g \in Handles \ unsure', g # h
      PROVE  Sure(g)'
  <2>1. Sure(g) /\ MsgsShrink(g) /\ table'[g] = table[g]
      BY <1>2, MsgsSame DEF AllSure
  <2>2. ~Owns(c, g)' /\ ~WaitsFor(c, g)
      BY <1>0, <1>4, <1>8 DEF Owns, WaitsFor
  <2> QED  BY <1>4, <2>1, <2>2, SureSame
<1>9. ASSUME h \in Handles \ unsure'
      PROVE  Sure(h)'
  <2>1. Sure(h) /\ Owns(c, h)
      BY <1>0, <1>2, <1>9 DEF AllSure, Owns
  <2>2. table[h].data # None /\ got = table[h].data /\ got = c
      BY <1>1, <1>9, <2>1 DEF Sure
  <2>3. Froms(sendq, h) = {} /\ Froms(recvq, h) = {} /\ FromsOf(modem, h) = {}
      BY <2>1, <2>2, NoMessages DEF WaitsFor
  <2>4. Sure(h)
      BY <2>1
  <2>5. \A d \in Callers : Owns(d, h) => d = c
      BY <1>9, <2>1 DEF HandlesOwnedOnce
  <2>6. /\ OnceIn(sendq', h) /\ OnceIn(recvq', h) /\ OnceOf(modem', h)
        /\ Froms(sendq', h) = {} /\ Froms(recvq', h) = {} /\ FromsOf(modem', h) = {}
      BY <1>2, <2>3, <2>4 DEF Sure
  <2>7. table'[h].live /\ table'[h].used /\ table'[h].data = c
      BY <1>2, <2>2, <2>4 DEF Sure
  <2>8. \A d \in Callers : caller'[d].place = "answered" /\ caller'[d].handle = h => caller'[d].got = d
      BY <1>4, <2>2, <2>4 DEF Sure
  <2>9. \A d \in Callers : Owns(d, h)' => d = c
      BY <1>4, <2>5 DEF Owns
  <2> QED  BY <2>6, <2>7, <2>8, <2>9 DEF Sure
<1> QED  BY <1>5, <1>7, <1>8, <1>9 DEF AllSure

(* Without a handle: the caller waits, on no entry of the table. *)
LEMMA AskWithoutHandleKeeps ==
    ASSUME IInv, NEW c \in Callers, caller[c].place = "idle", Wait(c, Beyond),
           UNCHANGED <<table, sendq, recvq, modem, power, ready, unsure, faults>>
    PROVE  IInv'
<1> USE DEF IInv
<1>1. CallerOK
    BY DEF Types
<1>2. /\ caller'[c] = [place |-> "waiting", handle |-> Beyond, got |-> None]
      /\ \A d \in Callers : d # c => caller'[d] = caller[d]
    BY <1>1 DEF Wait, CallerOK
<1>3. Types'
  <2>1. CallerOK'
    <3>1. [place |-> "waiting", handle |-> Beyond, got |-> None] \in CallerState
        BY NotHandles DEF CallerState
    <3> QED  BY <1>1, <3>1 DEF CallerOK, Wait
  <2>2. SendOK'
      BY DEF Types, SendOK
  <2> QED  BY <2>1, <2>2 DEF Types, TableOK, RecvOK, ModemOK, FlagsOK, UnsureOK, FaultsOK
<1>4. \A d \in Callers, g \in Handles : Owns(d, g)' => Owns(d, g) /\ d # c
    BY <1>2, NotHandles DEF Owns
<1>5. HandlesOwnedOnce'
    BY <1>4, OwnedSame
<1>6. ASSUME NEW g \in Handles \ unsure'
      PROVE  Sure(g)'
  <2>1. Sure(g) /\ MsgsShrink(g) /\ table'[g] = table[g]
      BY MsgsSame DEF AllSure
  <2>2. ~Owns(c, g)' /\ ~WaitsFor(c, g)
      BY <1>4 DEF WaitsFor
  <2> QED  BY <1>2, <2>1, <2>2, SureSame
<1> QED  BY <1>3, <1>5, <1>6 DEF AllSure

(* With a handle: it was nobody's, and the caller's command is the only message
   that has it. *)
LEMMA AskWithHandleKeeps ==
    ASSUME IInv, NEW c \in Callers, caller[c].place = "idle", Len(sendq) < MaxQueue,
           NEW h \in Handles, ~table[h].used,
           table' = [table EXCEPT ![h].used = TRUE],
           \/ /\ sendq' = Append(sendq, [from |-> c, handle |-> h, copy |-> 0])
              /\ Wait(c, h)
              /\ UNCHANGED faults
           \/ /\ Fault
              /\ Wait(c, h) \/ UNCHANGED caller
              /\ UNCHANGED sendq,
           UNCHANGED <<recvq, modem, power, ready, unsure>>
    PROVE  IInv'
<1> USE DEF IInv
<1>1. CallerOK /\ TableOK /\ SendOK /\ FaultsOK
    BY DEF Types
<1>2. /\ \/ caller'[c] = [place |-> "waiting", handle |-> h, got |-> None]
         \/ caller'[c] = caller[c] /\ UNCHANGED sendq
      /\ \A d \in Callers : d # c => caller'[d] = caller[d]
    BY <1>1 DEF Wait, CallerOK
<1>3. /\ table'[h] = [table[h] EXCEPT !.used = TRUE]
      /\ \A g \in Handles : g # h => table'[g] = table[g]
    BY <1>1 DEF TableOK
<1>4. table'[h].used /\ table'[h].data = table[h].data /\ table'[h] \in Entry
    BY <1>1, <1>3 DEF TableOK, Entry
<1>5. \A d \in Callers : ~Owns(d, h)
    BY DEF HandlesOwnedOnce
<1>6. Types'
  <2>1. CallerOK'
    <3>1. [place |-> "waiting", handle |-> h, got |-> None] \in CallerState
        BY NotHandles DEF CallerState
    <3> QED  BY <1>1, <3>1 DEF CallerOK, Wait
  <2>2. TableOK'
      BY <1>1, <1>3, <1>4 DEF TableOK
  <2>3. FaultsOK'
      BY <1>1, FaultType DEF FaultsOK
  <2>4. SendOK'
    <3>1. CASE sendq' = Append(sendq, [from |-> c, handle |-> h, copy |-> 0]) /\ UNCHANGED faults
      <4>1. c # None /\ h # NoReply
          BY SpiAssumption, NotHandles
      <4> QED  BY <1>1, <3>1, <4>1, AppendSendOK
    <3>2. CASE UNCHANGED sendq /\ Fault
        BY <1>1, <3>2, SendStaysOK
    <3> QED  BY <3>1, <3>2
  <2> QED  BY <2>1, <2>2, <2>3, <2>4 DEF Types, RecvOK, ModemOK, FlagsOK, UnsureOK
<1>7. HandlesOwnedOnce'
  <2>1. \A d \in Callers : Owns(d, h)' => d = c
      BY <1>2, <1>5 DEF Owns
  <2>2. \A d \in Callers, g \in Handles : g # h /\ Owns(d, g)' => Owns(d, g)
      BY <1>2 DEF Owns
  <2> QED  BY <1>3, <1>4, <2>1, <2>2 DEF HandlesOwnedOnce
<1> DEFINE x == [from |-> c, handle |-> h, copy |-> 0]
<1>8. x.handle = h /\ x.from = c /\ x \in Command /\ sendq \in Seq(Command)
    BY <1>1, SpiAssumption DEF SendOK, Command
<1>9. sendq' = Append(sendq, x) \/ sendq' = sendq
    OBVIOUS
<1> HIDE DEF x
<1>10. ASSUME NEW g
       PROVE  /\ g # h => /\ Froms(Append(sendq, x), g) = Froms(sendq, g)
                          /\ OnceIn(sendq, g) => OnceIn(Append(sendq, x), g)
              /\ Froms(sendq, h) = {} => /\ Froms(Append(sendq, x), h) = {c}
                                         /\ OnceIn(Append(sendq, x), h)
    BY <1>8, AppendFroms
<1>11. ASSUME NEW g \in Handles \ unsure', g # h
       PROVE  Sure(g)'
  <2>1. Sure(g) /\ table'[g] = table[g]
      BY <1>3, <1>11 DEF AllSure
  <2>2. MsgsShrink(g)
    <3>1. /\ Froms(sendq', g) = Froms(sendq, g)
          /\ OnceIn(sendq, g) => OnceIn(sendq', g)
        BY <1>9, <1>11, <1>10
    <3> QED  BY <3>1 DEF MsgsShrink
  <2>3. ~WaitsFor(c, g) /\ ~Owns(c, g)'
      BY <1>2, <1>11 DEF WaitsFor, Owns
  <2> QED  BY <1>2, <2>1, <2>2, <2>3, SureSame
<1>12. ASSUME h \notin unsure'
       PROVE  Sure(h)'
  <2>1. Sure(h)
      BY <1>12 DEF AllSure
  <2>2. Froms(sendq, h) = {} /\ Froms(recvq, h) = {} /\ FromsOf(modem, h) = {}
      BY <1>5, <2>1, NoMessages DEF WaitsFor, Owns
  <2>3. table'[h].data = None
      BY <1>4, <2>1 DEF Sure
  <2>4. OnceIn(sendq', h) /\ OnceIn(recvq', h) /\ OnceOf(modem', h)
      BY <1>9, <1>10, <2>1, <2>2 DEF Sure
  <2>5. /\ Froms(recvq', h) = {} /\ FromsOf(modem', h) = {}
        /\ Froms(sendq', h) = {} \/ (sendq' # sendq /\ Froms(sendq', h) = {c})
      BY <1>9, <1>10, <2>2
  <2>6. \A d \in Froms(sendq', h) : WaitsFor(d, h)'
      BY <1>2, <2>3, <2>5 DEF WaitsFor
  <2>7. \A d \in Callers : ~(caller'[d].place = "answered" /\ caller'[d].handle = h)
      BY <1>2, <1>5 DEF Owns
  <2> QED  BY <2>3, <2>4, <2>5, <2>6, <2>7 DEF Sure
<1> QED  BY <1>6, <1>7, <1>11, <1>12 DEF AllSure

LEMMA AskKeeps ==
    ASSUME IInv, NEW c \in Callers, Ask(c)
    PROVE  IInv'
<1>1. CASE NextHandle = Beyond
    BY <1>1, AskWithoutHandleKeeps DEF Ask
<1>2. CASE NextHandle # Beyond
  <2>1. PICK h \in Handles : h = NextHandle /\ ~table[h].used
      BY <1>2, NextHandleIsFree
  <2> HIDE DEF NextHandle
  <2> QED  BY <1>2, <2>1, AskWithHandleKeeps DEF Ask
<1> QED  BY <1>1, <1>2

(* The caller gives up its handle.  It has its reply, or the handle is unsure
   from now on. *)
LEMMA ReleaseKeeps ==
    ASSUME IInv, NEW c \in Callers, caller[c].place # "idle",
           NEW h \in 0..Beyond, h = caller[c].handle,
           caller' = [caller EXCEPT ![c] = Idle],
           UNCHANGED <<sendq, recvq, modem, ready, faults>>,
           FlagsOK', TableOK', UnsureOK', unsure \subseteq unsure',
           \A g \in Handles : g # h => table'[g] = table[g],
           h \in Handles \ unsure' => /\ caller[c].place = "answered"
                                      /\ table'[h] = table[h] \/ table'[h] = Empty
    PROVE  IInv'
<1> USE DEF IInv
<1>1. CallerOK
    BY DEF Types
<1>2. /\ caller'[c] = Idle
      /\ \A d \in Callers : d # c => caller'[d] = caller[d]
    BY <1>1 DEF CallerOK
<1>3. Types'
  <2>1. CallerOK'
      BY <1>1, IdleFacts DEF CallerOK
  <2>2. SendOK'
      BY DEF Types, SendOK
  <2> QED  BY <2>1, <2>2 DEF Types, RecvOK, ModemOK, FaultsOK
<1>4. \A d \in Callers, g \in Handles : Owns(d, g)' => Owns(d, g) /\ d # c
    BY <1>2, IdleFacts DEF Owns
<1>5. h \in Handles => \A d \in Callers : Owns(d, h) => d = c
    BY DEF HandlesOwnedOnce, Owns
<1>6. HandlesOwnedOnce'
  <2>1. \A d \in Callers, g \in Handles : Owns(d, g)' => g # h
      BY <1>4, <1>5
  <2> QED  BY <1>4, <2>1, OwnedSame
<1>7. ASSUME NEW g \in Handles \ unsure', g # h
      PROVE  Sure(g)'
  <2>1. Sure(g) /\ MsgsShrink(g) /\ table'[g] = table[g]
      BY <1>7, MsgsSame DEF AllSure
  <2>2. ~Owns(c, g)' /\ ~WaitsFor(c, g)
      BY <1>4, <1>7 DEF WaitsFor
  <2> QED  BY <1>2, <2>1, <2>2, SureSame
<1>8. ASSUME h \in Handles \ unsure'
      PROVE  Sure(h)'
  <2>1. Sure(h)
      BY <1>8 DEF AllSure
  <2>2. \A d \in Callers : ~WaitsFor(d, h)
      BY <1>5, <1>8 DEF WaitsFor, Owns
  <2>3. Froms(sendq, h) = {} /\ Froms(recvq, h) = {} /\ FromsOf(modem, h) = {}
      BY <2>1, <2>2, NoMessages
  <2>4. /\ OnceIn(sendq', h) /\ OnceIn(recvq', h) /\ OnceOf(modem', h)
        /\ Froms(sendq', h) = {} /\ Froms(recvq', h) = {} /\ FromsOf(modem', h) = {}
      BY <2>1, <2>3 DEF Sure
  <2>5. \A d \in Callers : ~Owns(d, h)'
      BY <1>4, <1>5, <1>8
  <2>6. table'[h].data # None => table'[h].live /\ table'[h].used
      BY <1>8, <2>1, IdleFacts DEF Sure
  <2>7. \A d \in Callers : ~(caller'[d].place = "answered" /\ caller'[d].handle = h)
      BY <2>5 DEF Owns
  <2> QED  BY <2>4, <2>5, <2>6, <2>7 DEF Sure
<1> QED  BY <1>3, <1>6, <1>7, <1>8 DEF AllSure

LEMMA StopWaitingFacts ==
    ASSUME Types, NEW h \in 0..Beyond, StopWaiting(h)
    PROVE  /\ TableOK' /\ UnsureOK' /\ unsure \subseteq unsure'
           /\ \A g \in Handles : g # h => table'[g] = table[g]
           /\ h \notin Handles \ unsure'
<1>1. \A g \in Handles : table[g] \in Entry /\ [table[g] EXCEPT !.used = FALSE, !.live = FALSE] \in Entry
    BY DEF Types, TableOK, Entry
<1>2. TableOK'
    BY <1>1 DEF StopWaiting, TableOK
<1> QED  BY <1>2 DEF StopWaiting, Types, UnsureOK

LEMMA GiveUpKeeps ==
    ASSUME IInv, NEW c \in Callers, GiveUp(c)
    PROVE  IInv'
<1>1. PICK h \in 0..Beyond : h = caller[c].handle
    BY CallerFacts DEF IInv, Types
<1>2. StopWaiting(h)
    BY <1>1 DEF GiveUp
<1>3. FlagsOK'
    BY DEF GiveUp, IInv, Types, FlagsOK
<1>4. caller[c].place # "idle"
    BY DEF GiveUp
<1> QED  BY <1>1, <1>2, <1>3, <1>4, StopWaitingFacts, ReleaseKeeps DEF GiveUp, IInv

LEMMA FinishKeeps ==
    ASSUME IInv, NEW c \in Callers, Finish(c)
    PROVE  IInv'
<1>1. PICK h \in 0..Beyond : h = caller[c].handle
    BY CallerFacts DEF IInv, Types
<1>2. /\ caller[c].place = "answered" /\ caller[c].place # "idle"
      /\ caller' = [caller EXCEPT ![c] = Idle]
      /\ UNCHANGED <<sendq, recvq, modem, ready, faults>>
    BY DEF Finish
<1>3. FlagsOK'
    BY DEF Finish, IInv, Types, FlagsOK
<1>4. CASE FreeReply(h)
  <2>1. TableOK'
      BY <1>4, IdleFacts DEF FreeReply, IInv, Types, TableOK
  <2>2. UnsureOK' /\ unsure' = unsure
      BY <1>4 DEF FreeReply, IInv, Types, UnsureOK
  <2>3. \A g \in Handles : table'[g] = IF g = h THEN Empty ELSE table[g]
      BY <1>4 DEF FreeReply
  <2> QED  BY <1>1, <1>2, <1>3, <2>1, <2>2, <2>3, ReleaseKeeps
<1>5. CASE UNCHANGED <<table, unsure>>
  <2>1. TableOK' /\ UnsureOK'
      BY <1>5 DEF IInv, Types, TableOK, UnsureOK
  <2> QED  BY <1>1, <1>2, <1>3, <1>5, <2>1, ReleaseKeeps
<1>6. CASE StopWaiting(h)
    BY <1>1, <1>2, <1>3, <1>6, StopWaitingFacts, ReleaseKeeps DEF IInv
<1> QED  BY <1>1, <1>4, <1>5, <1>6 DEF Finish

-----------------------------------------------------------------------------
(* The steps of the link *)

(* No message is new for a handle that is not unsure. *)
LEMMA ShrinkKeeps ==
    ASSUME IInv, UNCHANGED <<table, caller>>, unsure \subseteq unsure',
           SendOK', RecvOK', ModemOK', FlagsOK', UnsureOK', FaultsOK',
           \A h \in Handles \ unsure' : MsgsShrink(h)
    PROVE  IInv'
<1> USE DEF IInv
<1>1. Types'
    BY DEF Types, TableOK, CallerOK
<1>2. HandlesOwnedOnce'
    BY OwnedSame DEF Owns
<1>3. ASSUME NEW h \in Handles \ unsure'
      PROVE  Sure(h)'
    BY <1>3, SureSame DEF AllSure
<1> QED  BY <1>1, <1>2, <1>3 DEF AllSure

LEMMA HeadFacts ==
    ASSUME SendOK, sendq # <<>>
    PROVE  /\ Head(sendq) \in Command
           /\ Head(sendq).from # None => Head(sendq) \in Reply
           /\ Head(sendq).from = None => Head(sendq).handle \notin Handles
           /\ sendq \in Seq(Command)
<1>1. Head(sendq) \in Command /\ Head(sendq) = sendq[1] /\ 1 \in 1..Len(sendq)
    BY TailFacts DEF SendOK
<1>2. Head(sendq).from = None <=> Head(sendq).handle = NoReply
    BY <1>1 DEF SendOK
<1> QED  BY <1>1, <1>2, NotHandles DEF SendOK, Command, Reply

LEMMA DropCommandKeeps ==
    ASSUME IInv, sendq # <<>>, DropCommand, UNCHANGED <<table, caller, power>>
    PROVE  IInv'
<1>1. SendOK /\ FaultsOK /\ FlagsOK
    BY DEF IInv, Types
<1>2. sendq' = Tail(sendq) /\ UNCHANGED <<recvq, modem, unsure>> /\ (Fault \/ UNCHANGED faults)
    BY DEF DropCommand
<1>3. SendOK' /\ FaultsOK'
    BY <1>1, <1>2, TailSendOK, FaultType DEF FaultsOK
<1>4. FlagsOK'
    BY <1>1, Zenon DEF FlagsOK, DropCommand, ReadyAfter
<1>5. RecvOK' /\ ModemOK' /\ UnsureOK'
    BY <1>2 DEF IInv, Types, RecvOK, ModemOK, UnsureOK
<1>6. ASSUME NEW h
      PROVE  MsgsShrink(h)
  <2>1. sendq \in Seq(Command)
      BY <1>1 DEF SendOK
  <2>2. Froms(Tail(sendq), h) \subseteq Froms(sendq, h) /\ (OnceIn(sendq, h) => OnceIn(Tail(sendq), h))
      BY <2>1, TailFroms
  <2> QED  BY <1>2, <2>2 DEF MsgsShrink
<1> QED  BY <1>2, <1>3, <1>4, <1>5, <1>6, ShrinkKeeps

LEMMA RefusedKeeps ==
    ASSUME IInv, Refused, UNCHANGED <<table, caller, power>>
    PROVE  IInv'
<1>1. SendOK /\ FaultsOK /\ FlagsOK
    BY DEF IInv, Types
<1>2. UNCHANGED <<sendq, recvq, modem, unsure>> /\ (Fault \/ UNCHANGED faults)
    BY DEF Refused
<1>3. SendOK' /\ FaultsOK'
    BY <1>1, <1>2, SendStaysOK, FaultType DEF FaultsOK
<1>4. FlagsOK'
    BY <1>1, Zenon DEF FlagsOK, Refused
<1>5. RecvOK' /\ ModemOK' /\ UnsureOK'
    BY <1>2 DEF IInv, Types, RecvOK, ModemOK, UnsureOK
<1> QED  BY <1>2, <1>3, <1>4, <1>5, MsgsSame, ShrinkKeeps

LEMMA TransferAgainKeeps ==
    ASSUME IInv, sendq # <<>>, TransferAgain, UNCHANGED <<table, caller, power>>
    PROVE  IInv'
<1>1. SendOK /\ FaultsOK /\ FlagsOK /\ ModemOK
    BY DEF IInv, Types
<1>2. PICK m \in Command : m = Head(sendq)
    BY <1>1, HeadFacts
<1> DEFINE x == [m EXCEPT !.copy = @ + 1]
<1>3. /\ Fault /\ UNCHANGED recvq
      /\ \E reply \in modem \cup {m} : modem' = (modem \ {reply}) \cup Taken(m)
      /\ sendq' = <<x>> \o Tail(sendq)
      /\ unsure' = unsure \cup ({m.handle} \cap Handles)
      /\ ready' = (ready /\ ~IsHardStop(m))
    BY <1>2 DEF TransferAgain, ReadyAfter
<1>4. SendOK' /\ FaultsOK'
    BY <1>1, <1>2, <1>3, NewHeadSendOK, FaultType
<1>5. FlagsOK'
    BY <1>1, <1>3, Zenon DEF FlagsOK
<1>6. ModemOK'
  <2>1. Taken(m) \subseteq Reply
      BY <1>1, <1>2, HeadFacts DEF Taken
  <2> QED  BY <1>1, <1>3, <2>1 DEF ModemOK
<1>7. RecvOK' /\ UnsureOK' /\ unsure \subseteq unsure'
    BY <1>3 DEF IInv, Types, RecvOK, UnsureOK
<1>8. x \in Command /\ x.handle = m.handle
  <2>1. 1 \in 1..Len(sendq') /\ sendq'[1] = x
    <3>1. Len(sendq) \in Nat \ {0} /\ sendq \in Seq(Command)
        BY <1>1, TailFacts DEF SendOK
    <3> HIDE DEF x
    <3> QED  BY <1>3, <3>1
  <2> QED  BY <1>2, <1>4, <2>1, CopiesAreNumbers DEF SendOK, Command
<1> HIDE DEF x
<1>9. ASSUME NEW h \in Handles \ unsure'
      PROVE  MsgsShrink(h)
  <2>1. m.handle # h
      BY <1>3, <1>9
  <2>2. /\ Froms(<<x>> \o Tail(sendq), h) = Froms(sendq, h)
        /\ OnceIn(sendq, h) => OnceIn(<<x>> \o Tail(sendq), h)
    <3>1. sendq \in Seq(Command) /\ x.handle # h /\ Head(sendq).handle # h
        BY <1>1, <1>2, <1>8, <2>1 DEF SendOK
    <3> QED  BY <1>8, <3>1, NewHeadFroms
  <2>3. \A n \in modem' : n.handle = h => n \in modem
      BY <1>3, <2>1 DEF Taken
  <2>4. FromsOf(modem', h) \subseteq FromsOf(modem, h) /\ (OnceOf(modem, h) => OnceOf(modem', h))
      BY <2>3 DEF FromsOf, OnceOf
  <2> QED  BY <1>3, <2>2, <2>4 DEF MsgsShrink
<1> QED  BY <1>4, <1>5, <1>6, <1>7, <1>9, ShrinkKeeps

(* A command moves to the modem, a reply to the receive queue. *)
LEMMA TransferKeeps ==
    ASSUME IInv, sendq # <<>>, Transfer, UNCHANGED <<table, caller, power>>
    PROVE  IInv'
<1>1. SendOK /\ RecvOK /\ FaultsOK /\ FlagsOK /\ ModemOK
    BY DEF IInv, Types
<1>2. PICK m \in Command : m = Head(sendq)
    BY <1>1, HeadFacts
<1>3. /\ UNCHANGED <<unsure, faults>>
      /\ sendq' = Tail(sendq)
      /\ ready' = (ready /\ ~IsHardStop(m))
      /\ \/ modem' = modem \cup Taken(m) /\ UNCHANGED recvq
         \/ \E reply \in modem :
               /\ modem' = (modem \ {reply}) \cup Taken(m)
               /\ recvq' = Append(recvq, reply)
    BY <1>2 DEF Transfer, ReadyAfter
<1>4. SendOK' /\ FaultsOK'
    BY <1>1, <1>3, TailSendOK DEF FaultsOK
<1>5. FlagsOK'
    BY <1>1, <1>3, Zenon DEF FlagsOK
<1>6. ModemOK' /\ RecvOK'
  <2>1. Taken(m) \subseteq Reply
      BY <1>1, <1>2, HeadFacts DEF Taken
  <2>2. ModemOK'
      BY <1>1, <1>3, <2>1 DEF ModemOK
  <2>3. RecvOK'
    <3>1. ASSUME NEW reply \in modem, recvq' = Append(recvq, reply)
          PROVE  recvq' \in Seq(Reply)
      <4>1. reply \in Reply /\ recvq \in Seq(Reply)
          BY <1>1 DEF ModemOK, RecvOK
      <4> HIDE DEF Reply
      <4> QED  BY <3>1, <4>1
    <3> QED  BY <1>1, <1>3, <3>1 DEF RecvOK
  <2> QED  BY <2>2, <2>3
<1>7. Types'
    BY <1>3, <1>4, <1>5, <1>6 DEF IInv, Types, TableOK, CallerOK, UnsureOK
<1>8. HandlesOwnedOnce'
    BY OwnedSame DEF IInv, Owns
<1>9. ASSUME NEW h \in Handles \ unsure'
      PROVE  Sure(h)'
  <2>1. Sure(h)
      BY <1>3, <1>9 DEF IInv, AllSure
  <2>2. /\ Froms(Tail(sendq), h) \subseteq Froms(sendq, h)
        /\ m.handle = h => m.from \in Froms(sendq, h)
        /\ OnceIn(sendq, h) => OnceIn(Tail(sendq), h)
        /\ OnceIn(sendq, h) /\ m.handle = h => Froms(Tail(sendq), h) = {}
      BY <1>1, <1>2, TailFroms DEF SendOK
  <2>3. m.handle = h => Froms(Tail(sendq), h) = {} /\ Froms(recvq, h) = {} /\ FromsOf(modem, h) = {}
      BY <2>1, <2>2 DEF Sure
  <2> DEFINE after == modem \cup Taken(m)
  <2>4. /\ FromsOf(after, h) \subseteq FromsOf(modem, h) \cup Froms(sendq, h)
        /\ OnceOf(after, h)
        /\ m.handle # h => FromsOf(after, h) = FromsOf(modem, h)
    <3>1. CASE m.handle # h
      <4>1. \A n : n \in after /\ n.handle = h <=> n \in modem /\ n.handle = h
          BY <3>1 DEF Taken
      <4>2. FromsOf(after, h) = FromsOf(modem, h) /\ (OnceOf(modem, h) => OnceOf(after, h))
          BY <4>1 DEF FromsOf, OnceOf
      <4> QED  BY <2>1, <4>2 DEF Sure
    <3>2. CASE m.handle = h
      <4>1. \A n \in modem : n.handle # h
          BY <2>3, <3>2 DEF FromsOf
      <4>2. \A n : n \in after /\ n.handle = h => n = m
          BY <4>1 DEF Taken
      <4>3. FromsOf(after, h) \subseteq {m.from} /\ OnceOf(after, h)
          BY <4>2 DEF FromsOf, OnceOf
      <4> QED  BY <2>2, <3>2, <4>3
    <3> QED  BY <3>1, <3>2
  <2>5. /\ Froms(Tail(sendq), h) = {} \/ FromsOf(after, h) = {}
        /\ Froms(recvq, h) = {} \/ FromsOf(after, h) = {}
        /\ Froms(Tail(sendq), h) = {} \/ Froms(recvq, h) = {}
      BY <2>1, <2>2, <2>3, <2>4 DEF Sure
  <2> HIDE DEF after
  <2>6. CASE modem' = after /\ UNCHANGED recvq
      BY <1>3, <2>1, <2>2, <2>4, <2>5, <2>6, SureMoves DEF Sure
  <2>7. ASSUME NEW reply \in modem, modem' = (modem \ {reply}) \cup Taken(m),
               recvq' = Append(recvq, reply)
        PROVE  Sure(h)'
    <3>1. reply \in Reply /\ recvq \in Seq(Reply)
        BY <1>1 DEF ModemOK, RecvOK
    <3>2. modem' \subseteq after
        BY <2>7 DEF after
    <3>3. FromsOf(modem', h) \subseteq FromsOf(after, h) /\ OnceOf(modem', h)
        BY <2>4, <3>2 DEF FromsOf, OnceOf
    <3>4. CASE reply.handle # h
      <4>1. Froms(recvq', h) = Froms(recvq, h) /\ (OnceIn(recvq, h) => OnceIn(recvq', h))
          BY <2>7, <3>1, <3>4, AppendFroms
      <4> QED  BY <1>3, <2>1, <2>2, <2>4, <2>5, <3>3, <4>1, SureMoves DEF Sure
    <3>5. CASE reply.handle = h
      <4>1. reply.from \in FromsOf(modem, h)
          BY <3>5 DEF FromsOf
      <4>2. m.handle # h /\ Froms(recvq, h) = {} /\ Froms(sendq, h) = {}
          BY <2>1, <2>3, <4>1 DEF Sure
      <4>3. Froms(recvq', h) = {reply.from} /\ OnceIn(recvq', h)
        <5>1. /\ Froms(Append(recvq, reply), h) = {reply.from}
              /\ OnceIn(Append(recvq, reply), h)
            BY <3>1, <3>5, <4>2, AppendFroms
        <5> QED  BY <2>7, <5>1
      <4>4. FromsOf(modem', h) = {}
        <5>1. \A n \in modem : n.handle = h => n = reply
            BY <2>1, <3>5 DEF Sure, OnceOf
        <5>2. \A n \in modem' : n.handle # h
            BY <2>7, <4>2, <5>1 DEF Taken
        <5> QED  BY <5>2 DEF FromsOf
      <4>5. Froms(sendq', h) = {} /\ OnceIn(sendq', h)
          BY <1>3, <2>1, <2>2, <4>2 DEF Sure
      <4> QED  BY <2>1, <3>3, <4>1, <4>3, <4>4, <4>5, SureMoves
    <3> QED  BY <3>4, <3>5
  <2> QED  BY <1>3, <2>6, <2>7 DEF after
<1> QED  BY <1>7, <1>8, <1>9 DEF IInv, AllSure

(* The reply that is put into a handle's entry was the last message with the
   handle, and its owner's. *)
LEMMA RecvWorkKeeps ==
    ASSUME IInv, RecvWork
    PROVE  IInv'
<1>1. TableOK /\ SendOK /\ recvq \in Seq(Reply) /\ recvq # <<>> /\ FaultsOK
    BY DEF IInv, Types, RecvOK, RecvWork
<1>2. Head(recvq) \in Reply /\ Tail(recvq) \in Seq(Reply)
    BY <1>1, TailFacts
<1>3. PICK h \in Handles, d \in Callers : h = Head(recvq).handle /\ d = Head(recvq).from
    BY <1>2 DEF Reply
<1>4. /\ \/ /\ table[h].used
            /\ table' = [table EXCEPT ![h].data = d, ![h].live = TRUE]
         \/ table' = [table EXCEPT ![h].data = None, ![h].live = FALSE]
         \/ UNCHANGED table
      /\ Fault \/ UNCHANGED faults
      /\ recvq' = Tail(recvq)
      /\ UNCHANGED <<caller, sendq, modem, power, ready, unsure>>
    BY <1>3 DEF RecvWork
<1>5. /\ \A g \in Handles : g # h => table'[g] = table[g]
      /\ table'[h] \in Entry /\ table'[h].used = table[h].used
      /\ \/ table[h].used /\ table'[h].data = d /\ table'[h].live
         \/ table'[h].data = None
         \/ table'[h] = table[h]
      /\ table' \in [Handles -> Entry]
  <2>1. table \in [Handles -> Entry] /\ table[h] \in Entry
      BY <1>1 DEF TableOK
  <2>2. CASE table[h].used /\ table' = [table EXCEPT ![h].data = d, ![h].live = TRUE]
    <3>1. table'[h] = [table[h] EXCEPT !.data = d, !.live = TRUE]
        BY <2>1, <2>2
    <3>2. table'[h] = [used |-> table[h].used, data |-> d, live |-> TRUE]
        BY <2>1, <3>1 DEF Entry
    <3>3. table'[h] \in Entry
        BY <2>1, <3>2 DEF Entry
    <3> QED  BY <2>1, <2>2, <3>2, <3>3
  <2>3. CASE table' = [table EXCEPT ![h].data = None, ![h].live = FALSE]
    <3>1. table'[h] = [table[h] EXCEPT !.data = None, !.live = FALSE]
        BY <2>1, <2>3
    <3>2. table'[h] = [used |-> table[h].used, data |-> None, live |-> FALSE]
        BY <2>1, <3>1 DEF Entry
    <3>3. table'[h] \in Entry
        BY <2>1, <3>2 DEF Entry
    <3> QED  BY <2>1, <2>3, <3>2, <3>3
  <2>4. CASE UNCHANGED table
      BY <2>1, <2>4
  <2> QED  BY <1>4, <2>2, <2>3, <2>4
<1>6. Types'
  <2>1. SendOK' /\ FaultsOK'
      BY <1>1, <1>4, SendStaysOK, FaultType DEF FaultsOK
  <2>2. TableOK' /\ RecvOK'
      BY <1>2, <1>4, <1>5 DEF TableOK, RecvOK
  <2> QED  BY <1>4, <2>1, <2>2 DEF IInv, Types, CallerOK, ModemOK, FlagsOK, UnsureOK
<1>7. \A g \in Handles : table'[g].used = table[g].used
    BY <1>5
<1>8. HandlesOwnedOnce'
    BY <1>4, <1>7, OwnedSame DEF IInv, Owns
<1>9. ASSUME NEW g
      PROVE  /\ MsgsShrink(g)
             /\ h = g => d \in Froms(recvq, g)
             /\ OnceIn(recvq, g) /\ h = g => Froms(recvq', g) = {}
  <2>1. /\ Froms(Tail(recvq), g) \subseteq Froms(recvq, g)
        /\ h = g => d \in Froms(recvq, g)
        /\ OnceIn(recvq, g) => OnceIn(Tail(recvq), g)
        /\ OnceIn(recvq, g) /\ h = g => Froms(Tail(recvq), g) = {}
      BY <1>1, <1>3, TailFroms
  <2> QED  BY <1>4, <2>1 DEF MsgsShrink
<1>10. ASSUME NEW g \in Handles \ unsure', g # h
       PROVE  Sure(g)'
  <2>1. Sure(g) /\ table'[g] = table[g] /\ UNCHANGED caller
      BY <1>4, <1>5, <1>10 DEF IInv, AllSure
  <2> QED  BY <1>9, <2>1, SureSame
<1>11. ASSUME h \notin unsure'
       PROVE  Sure(h)'
  <2>1. Sure(h)
      BY <1>4, <1>11 DEF IInv, AllSure
  <2>2. d \in Froms(recvq, h) /\ MsgsShrink(h) /\ Froms(recvq', h) = {}
      BY <1>9, <2>1 DEF Sure
  <2>3. WaitsFor(d, h) /\ table[h].data = None
      BY <2>1, <2>2 DEF Sure, WaitsFor
  <2>4. \A c \in Callers : Owns(c, h) => c = d
      BY <2>3 DEF IInv, HandlesOwnedOnce, WaitsFor, Owns
  <2>5. Froms(sendq', h) = {} /\ FromsOf(modem', h) = {}
      BY <1>4, <2>1, <2>2 DEF Sure
  <2>6. OnceIn(sendq', h) /\ OnceIn(recvq', h) /\ OnceOf(modem', h)
      BY <2>1, <2>2 DEF Sure, MsgsShrink
  <2>7. \A c \in Callers : Owns(c, h)' => c = d
      BY <1>4, <2>4 DEF Owns
  <2>8. table'[h].data # None => table'[h].live /\ table'[h].used /\ table'[h].data = d
      BY <1>5, <2>3
  <2>9. \A c \in Callers : caller'[c].place = "answered" /\ caller'[c].handle = h
                               => caller'[c].got = c
      BY <1>4, <2>1 DEF Sure
  <2> QED  BY <2>2, <2>5, <2>6, <2>7, <2>8, <2>9 DEF Sure
<1> QED  BY <1>6, <1>8, <1>10, <1>11 DEF IInv, AllSure

(* The empty command has no handle. *)
LEMMA DataReadyKeeps ==
    ASSUME IInv, DataReady
    PROVE  IInv'
<1>1. SendOK /\ FaultsOK /\ FlagsOK
    BY DEF IInv, Types
<1> DEFINE x == [from |-> None, handle |-> NoReply, copy |-> 0]
<1>2. sendq' = Append(sendq, x) /\ UNCHANGED <<table, caller, recvq, modem, power, unsure, faults>>
    BY DEF DataReady
<1>3. SendOK'
    BY <1>1, <1>2, AppendSendOK DEF DataReady
<1>4. FlagsOK'
    BY <1>1, Zenon DEF FlagsOK, DataReady
<1>5. RecvOK' /\ ModemOK' /\ UnsureOK' /\ FaultsOK'
    BY <1>2 DEF IInv, Types, RecvOK, ModemOK, UnsureOK, FaultsOK
<1>6. x \in Command /\ x.handle = NoReply /\ sendq \in Seq(Command)
    BY <1>1, SpiAssumption DEF Command, SendOK
<1> HIDE DEF x
<1>7. ASSUME NEW h \in Handles
      PROVE  MsgsShrink(h)
  <2>1. x.handle # h
      BY <1>6, NotHandles
  <2>2. /\ Froms(Append(sendq, x), h) = Froms(sendq, h)
        /\ OnceIn(sendq, h) => OnceIn(Append(sendq, x), h)
      BY <1>6, <2>1, AppendFroms
  <2> QED  BY <1>2, <2>2 DEF MsgsShrink
<1> QED  BY <1>2, <1>3, <1>4, <1>5, <1>7, ShrinkKeeps

LEMMA ModemKeeps ==
    ASSUME IInv, DeclareDead \/ PowerOn \/ ModemForgets
    PROVE  IInv'
<1>1. SendOK /\ FaultsOK /\ FlagsOK /\ ModemOK
    BY DEF IInv, Types
<1>2. /\ UNCHANGED <<table, caller, sendq, recvq, unsure>>
      /\ modem' \subseteq modem
      /\ Fault \/ UNCHANGED faults
    BY DEF DeclareDead, PowerOn, ModemForgets
<1>3. SendOK' /\ FaultsOK'
    BY <1>1, <1>2, SendStaysOK, FaultType DEF FaultsOK
<1>4. FlagsOK'
    BY <1>1, Zenon DEF FlagsOK, DeclareDead, PowerOn, ModemForgets
<1>5. RecvOK' /\ ModemOK' /\ UnsureOK'
    BY <1>1, <1>2 DEF IInv, Types, RecvOK, ModemOK, UnsureOK
<1>6. ASSUME NEW h
      PROVE  MsgsShrink(h)
  <2>1. FromsOf(modem', h) \subseteq FromsOf(modem, h) /\ (OnceOf(modem, h) => OnceOf(modem', h))
      BY <1>2 DEF FromsOf, OnceOf
  <2> QED  BY <1>2, <2>1 DEF MsgsShrink
<1> QED  BY <1>2, <1>3, <1>4, <1>5, <1>6, ShrinkKeeps

-----------------------------------------------------------------------------
(* The inductive invariant *)

LEMMA InitInv == Init => IInv
<1> SUFFICES ASSUME Init
             PROVE  IInv
    OBVIOUS
<1>1. sendq = <<>> /\ recvq = <<>> /\ modem = {} /\ unsure = {} /\ faults = 0
    BY DEF Init
<1>2. \A h \in Handles : table[h] = Empty
    BY DEF Init
<1>3. \A c \in Callers : caller[c] = Idle
    BY DEF Init
<1>4. Types
  <2>1. TableOK /\ CallerOK
      BY IdleFacts DEF Init, TableOK, CallerOK
  <2>2. SendOK /\ RecvOK
      BY <1>1, SpiAssumption DEF SendOK, RecvOK
  <2>3. FlagsOK
      BY DEF Init, FlagsOK
  <2>4. ModemOK /\ UnsureOK /\ FaultsOK
      BY <1>1, SpiAssumption DEF ModemOK, UnsureOK, FaultsOK
  <2> QED  BY <2>1, <2>2, <2>3, <2>4 DEF Types
<1>5. HandlesOwnedOnce
    BY <1>3, IdleFacts DEF HandlesOwnedOnce, Owns
<1>6. ASSUME NEW h \in Handles
      PROVE  Sure(h)
  <2>1. Len(sendq) = 0 /\ Len(recvq) = 0
      BY <1>1
  <2>2. OnceIn(sendq, h) /\ Froms(sendq, h) = {}
      BY <2>1 DEF OnceIn, Froms
  <2>3. OnceIn(recvq, h) /\ Froms(recvq, h) = {}
      BY <2>1 DEF OnceIn, Froms
  <2>4. OnceOf(modem, h) /\ FromsOf(modem, h) = {}
      BY <1>1 DEF OnceOf, FromsOf
  <2>5. table[h].data = None
      BY <1>2, IdleFacts
  <2>6. \A c \in Callers : caller[c].place # "answered"
      BY <1>3, IdleFacts
  <2> QED  BY <2>2, <2>3, <2>4, <2>5, <2>6 DEF Sure
<1> QED  BY <1>4, <1>5, <1>6 DEF IInv, AllSure

LEMMA StutterKeeps ==
    ASSUME IInv, UNCHANGED vars
    PROVE  IInv'
<1>1. /\ UNCHANGED <<table, caller>> /\ UNCHANGED <<sendq, recvq, modem>>
      /\ UNCHANGED power /\ UNCHANGED ready /\ UNCHANGED unsure /\ UNCHANGED faults
    BY DEF vars
<1>2. SendOK' /\ RecvOK' /\ ModemOK' /\ UnsureOK' /\ FaultsOK'
    BY <1>1 DEF IInv, Types, SendOK, RecvOK, ModemOK, UnsureOK, FaultsOK
<1>3. FlagsOK'
    BY <1>1, Zenon DEF IInv, Types, FlagsOK
<1> QED  BY <1>1, <1>2, <1>3, MsgsSame, ShrinkKeeps

LEMMA StepInv == IInv /\ [Next]_vars => IInv'
<1> SUFFICES ASSUME IInv, [Next]_vars
             PROVE  IInv'
    OBVIOUS
<1>1. CASE \E c \in Callers : Ask(c) \/ Poll(c) \/ GiveUp(c) \/ Finish(c)
    BY <1>1, AskKeeps, PollKeeps, GiveUpKeeps, FinishKeeps
<1>2. CASE SendWork
    BY <1>2, DropCommandKeeps, RefusedKeeps, TransferKeeps, TransferAgainKeeps DEF SendWork
<1>3. CASE RecvWork
    BY <1>3, RecvWorkKeeps
<1>4. CASE DataReady
    BY <1>4, DataReadyKeeps
<1>5. CASE DeclareDead \/ PowerOn \/ ModemForgets
    BY <1>5, ModemKeeps
<1>6. CASE UNCHANGED vars
    BY <1>6, StutterKeeps
<1> QED  BY <1>1, <1>2, <1>3, <1>4, <1>5, <1>6 DEF Next

LEMMA Invariance == Spec => []IInv
    BY InitInv, StepInv, PTL DEF Spec

-----------------------------------------------------------------------------
(* Every part of the state has its type, in particular the send queue its
   bound. *)
THEOREM TypeCorrect == Spec => []TypeOK
<1>1. IInv => TypeOK
  <2>1. Reply \subseteq Command
      BY DEF Reply, Command
  <2>2. \A q \in Seq(Reply) : q \in Seq(Command)
      BY <2>1
  <2> QED  BY <2>1, <2>2, Zenon DEF IInv, Types, TableOK, CallerOK, SendOK, RecvOK, ModemOK, FlagsOK,
                                UnsureOK, FaultsOK, TypeOK
<1> QED  BY <1>1, Invariance, PTL

(* However many commands are under way, get_next_handle_id() never gives a
   handle to a second caller while the first one waits on it. *)
THEOREM HandleHasOneOwner == Spec => []HandlesOwnedOnce
<1>1. IInv => HandlesOwnedOnce
    BY DEF IInv
<1> QED  BY <1>1, Invariance, PTL

(* A caller of modem_spi_recv_resp() gets the reply to its own command, unless
   somebody stopped waiting on its handle before, or a command with that handle
   went out twice. *)
THEOREM RepliesAreOwn == Spec => []OwnReply
<1>1. IInv => OwnReply
    BY DEF IInv, AllSure, Sure, OwnReply
<1> QED  BY <1>1, Invariance, PTL

(* With the same exception, no entry of modem_handles points to a buffer that
   was freed or that nobody waits for. *)
THEOREM NoBufferIsStale == Spec => []NoStaleBuffer
<1>1. IInv => NoStaleBuffer
    BY DEF IInv, AllSure, Sure, NoStaleBuffer
<1> QED  BY <1>1, Invariance, PTL
=============================================================================
