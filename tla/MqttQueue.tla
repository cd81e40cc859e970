----------------------------- MODULE MqttQueue -----------------------------
(***************************************************************************)
(* The queue of MQTT messages for the cloud                                *)
(* (src/commercial_collar/src/comm_mgr/src/commMgr.c).  Any thread queues  *)
(* a message with commMgr_queue_mqtt_message(): a copy on mqtt_heap and an *)
(* entry in mqttq.  A timer puts mqttQ_work_handler() on commMgr_work_q,   *)
(* which takes as many messages as were waiting when it started, gives     *)
(* each to the active radio, and puts back the ones that could not be sent.*)
(*                                                                         *)
(* The radio is what the handler sees of it: which one is active, whether  *)
(* its broker is connected, whether a switch is under way (module          *)
(* RadioMgr).  It changes whenever the handler is blocked.                 *)
(*                                                                         *)
(* g_comm_mgr_disable_Q_work, which only a developer shell sets, is FALSE. *)
(***************************************************************************)
EXTENDS Naturals, Sequences, FiniteSets

CONSTANTS
    Msgs,        \* the messages that may be queued
    Onboarding,  \* those of topic MQTT_MESSAGE_TYPE_ONBOARDING, priority 1
    TooBig,      \* those longer than WIFI_MSG_SIZE - 100
    None,        \* no message
    QueueDepth,  \* entries of mqttq (30)
    HeapSlots,   \* messages that fit in mqtt_heap
    Errors,      \* the errors the environment causes
    MaxFaults,   \* how often
    MaxWork      \* runs of the handler pending on commMgr_work_q

(* What sending a message may end in, other than success: the radio is     *)
(* off; MQTT not connected (-634, the DA); -EFBIG or -EINVAL; the cloud    *)
(* has the message and the answer is lost; any other failure.              *)
AllErrors == {"ENODEV", "NOMQTT", "BADMSG", "LATE", "OTHER"}

ASSUME QueueAssumption ==
    /\ Onboarding \subseteq Msgs
    /\ TooBig \subseteq Msgs
    /\ None \notin Msgs
    /\ QueueDepth \in Nat \ {0}
    /\ HeapSlots \in Nat
    /\ Errors \subseteq AllErrors
    /\ MaxFaults \in Nat
    /\ MaxWork \in Nat \ {0}

VARIABLES
    queue,   \* mqttq
    heap,    \* the messages with a buffer in mqtt_heap
    putting, \* those whose producer is blocked in k_msgq_put()
    work,    \* runs of mqttQ_work_handler() pending
    h,       \* where the handler is, and its locals
    net,     \* the radio: active, mqtt (brokers connected), switching, onboarded
    faults,  \* errors so far
    fate     \* history: what became of the message since it was accepted

vars == <<queue, heap, putting, work, h, net, faults, fate>>

Radios == {"DA", "LTE"}

(* Where the handler is: between two runs, in rm_prepare_radio_for_use(),
   in wifi_get_wfstat(), at the head of the loop, in the send, in its final
   k_sleep(), in the rm_done_with_radio() before rm_switch_to(). *)
Places == {"idle", "prepare", "wfstat", "loop", "sending", "sent", "giveUp"}
Results == {"OK", "ENODEV", "NOMQTT", "BADMSG", "OTHER"}

(* The handler's locals between two runs *)
Idle == [place |-> "idle", todo |-> 0, hand |-> None, using |-> "LTE", via |-> "LTE", ret |-> "OK"]

Elements(q) == {q[i] : i \in 1..Len(q)}

Init ==
    /\ queue = <<>>
    /\ heap = {}
    /\ putting = {}
    /\ work = 0
    /\ h = Idle
    /\ net = [active |-> "LTE", mqtt |-> {}, switching |-> FALSE, onboarded |-> FALSE]
    /\ faults = 0
    /\ fate = [m \in Msgs |-> "waiting"]

Fault == faults < MaxFaults /\ faults' = faults + 1
NoFault == UNCHANGED faults

-----------------------------------------------------------------------------
(* commMgr_queue_mqtt_message(): without a free buffer it returns -ENOMEM;
   k_msgq_put() waits up to 20 ms for a free entry. *)
QueueMessage(m) ==
    /\ m \notin heap
    /\ Cardinality(heap) < HeapSlots
    /\ heap' = heap \cup {m}
    /\ IF Len(queue) < QueueDepth
       THEN queue' = Append(queue, m) /\ UNCHANGED putting
       ELSE putting' = putting \cup {m} /\ UNCHANGED queue
    /\ UNCHANGED <<work, h, net, faults, fate>>

PutTimesOut(m) ==
    /\ m \in putting
    /\ putting' = putting \ {m}
    /\ heap' = heap \ {m}
    /\ UNCHANGED <<queue, work, h, net, faults, fate>>

(* mqttQ_work_timer, and send_queued_mqtt_msgs(): one more work item *)
QueueWork ==
    /\ work < MaxWork
    /\ work' = work + 1
    /\ UNCHANGED <<queue, heap, putting, h, net, faults, fate>>

-----------------------------------------------------------------------------
(* Faulty variant for a mutation run: an entry too many. *)
PutBackAnyway(q, m) == Append(q, m)

(* k_msgq_put(K_NO_WAIT); its result is ignored everywhere in the handler *)
PutBack(q, m) == IF Len(q) < QueueDepth THEN Append(q, m) ELSE q

(* The queue and the blocked producers once k_msgq_get() has taken the head:
   the entry it frees goes to one of the producers at once. *)
AfterGet ==
    IF putting = {} THEN {<<Tail(queue), {}>>}
    ELSE {<<Append(Tail(queue), m), putting \ {m}>> : m \in putting}

(* The buffer of the message in hand is released *)
FreeHand ==
    /\ heap' = heap \ {h.hand}
    /\ fate' = [fate EXCEPT ![h.hand] = "waiting"]

(* Faulty variant for a mutation run: the buffer is released as well. *)
KeepHandFreed == queue' = PutBack(queue, h.hand) /\ heap' = heap \ {h.hand} /\ UNCHANGED fate

(* Faulty variant for a mutation run: a message is tried once. *)
DropHand == heap' = heap \ {h.hand} /\ UNCHANGED <<queue, fate>>

(* The message in hand is put back *)
KeepHand == queue' = PutBack(queue, h.hand) /\ UNCHANGED <<heap, fate>>

IsConnected == net.active \in net.mqtt

(* mqttQ_work_handler(), up to rm_prepare_radio_for_use() *)
Start ==
    /\ h.place = "idle" /\ work > 0
    /\ work' = work - 1
    /\ h' = IF IsConnected /\ ~net.switching /\ queue # <<>>
            THEN [h EXCEPT !.place = "prepare", !.todo = Len(queue), !.using = net.active]
            ELSE h
    /\ UNCHANGED <<queue, heap, putting, net, faults, fate>>

Prepared ==
    /\ h.place = "prepare"
    /\ \/ /\ h.using \in net.mqtt
          /\ h' = [h EXCEPT !.place = IF h.using = "DA" THEN "wfstat" ELSE "loop"]
          /\ NoFault
       \/ /\ h.using \notin net.mqtt
          /\ h' = Idle
          /\ NoFault
       \/ /\ h.using = "DA" /\ Fault \* the DA does not wake
          /\ h' = Idle
    /\ UNCHANGED <<queue, heap, putting, work, net, fate>>

(* The DA is asked whether it is connected to an AP.  If not a switch to LTE
   is begun, and the messages are sent all the same. *)
Wfstat ==
    /\ h.place = "wfstat"
    /\ h' = [h EXCEPT !.place = "loop"]
    /\ \/ NoFault /\ UNCHANGED net
       \/ Fault /\ net' = [net EXCEPT !.switching = TRUE]
    /\ UNCHANGED <<queue, heap, putting, work, fate>>

(* The loop is left: rm_done_with_radio(), which may wait for the DA but does
   nothing to the queue, and return *)
Finish ==
    /\ h.place = "loop"
    /\ h.todo = 0 \/ queue = <<>>
    /\ h' = Idle
    /\ UNCHANGED <<queue, heap, putting, work, net, faults, fate>>

(* One iteration of the loop, up to the radio.  A message that may not be
   sent before onboarding goes to the end of the queue. *)
Take ==
    /\ h.place = "loop" /\ h.todo > 0 /\ queue # <<>>
    /\ \E got \in AfterGet :
          /\ putting' = got[2]
          /\ LET m == Head(queue) IN
             IF ~net.onboarded /\ m \notin Onboarding
             THEN /\ queue' = PutBack(got[1], m)
                  /\ h' = [h EXCEPT !.todo = @ - 1]
             ELSE /\ queue' = got[1]
                  /\ h' = [h EXCEPT !.place = "sending", !.todo = @ - 1,
                                    !.hand = m, !.via = net.active]
    /\ UNCHANGED <<heap, work, net, faults, fate>>

(* Faulty variants for mutation runs: success is reported as the (positive)
   handle of the command, as modem_send_mqtt() does when no reply is asked for;
   a message that can never be sent, as one that could not be sent now. *)
SendEndsInHandle(result, f) ==
    /\ h' = [h EXCEPT !.place = "sent", !.ret = IF result = "OK" THEN "OTHER" ELSE result]
    /\ fate' = [fate EXCEPT ![h.hand] = f]
SendEndsVaguely(result, f) ==
    /\ h' = [h EXCEPT !.place = "sent", !.ret = IF result = "BADMSG" THEN "OTHER" ELSE result]
    /\ fate' = [fate EXCEPT ![h.hand] = f]

(* send_mqtt_message(): it prepares the radio that is active now, which need
   not be the one the handler prepared. *)
SendEnds(result, f) ==
    /\ h' = [h EXCEPT !.place = "sent", !.ret = result]
    /\ fate' = [fate EXCEPT ![h.hand] = f]

Send ==
    /\ h.place = "sending"
    /\ \/ /\ h.via \in net.mqtt
          /\ ~(h.via = "DA" /\ h.hand \in TooBig)
          /\ SendEnds("OK", "sent") /\ NoFault
       \/ /\ h.via = "DA" /\ h.hand \in TooBig
          /\ SendEnds("BADMSG", "rejected") /\ NoFault
       \/ /\ h.via \notin net.mqtt
          /\ SendEnds("OTHER", fate[h.hand]) /\ NoFault
       \/ \E e \in Errors :
             /\ e = "NOMQTT" => h.via = "DA"
             /\ SendEnds(IF e = "LATE" THEN "OTHER" ELSE e,
                         CASE e = "LATE" -> "unsure"
                           [] e = "BADMSG" -> "rejected"
                           [] OTHER -> fate[h.hand])
             /\ Fault
    /\ UNCHANGED <<queue, heap, putting, work, net>>

(* What the handler does with the result *)
Settle ==
    /\ h.place = "sent"
    /\ LET next(p) == [Idle EXCEPT !.place = p, !.todo = h.todo, !.using = h.using]
           lteIsOff == h.ret = "ENODEV" /\ h.using = "LTE" /\ ~net.switching
       IN  CASE h.ret \in {"OK", "BADMSG"} ->
                   /\ FreeHand
                   /\ h' = next("loop")
                   /\ UNCHANGED <<queue, net>>
             [] lteIsOff -> \* returns with the message, and the radio, in hand
                   /\ h' = Idle
                   /\ net' = [net EXCEPT !.switching = TRUE]
                   /\ UNCHANGED <<queue, heap, fate>>
             [] OTHER ->
                   /\ KeepHand
                   /\ h' = IF h.ret = "NOMQTT" THEN next("giveUp") ELSE Idle
                   /\ UNCHANGED net
    /\ UNCHANGED <<putting, work, faults>>

(* After -634: rm_done_with_radio() returned, rm_switch_to(LTE) *)
GiveUp ==
    /\ h.place = "giveUp"
    /\ h' = Idle
    /\ net' = [net EXCEPT !.switching = TRUE]
    /\ UNCHANGED <<queue, heap, putting, work, faults, fate>>

Handler == Start \/ Prepared \/ Wfstat \/ Finish \/ Take \/ Send \/ Settle \/ GiveUp

-----------------------------------------------------------------------------
(* The rest of the system: brokers come and go, the radio manager switches,
   the collar is onboarded or the DA is found not to be. *)
LinkChanges(r) ==
    net' = [net EXCEPT !.mqtt = IF r \in @ THEN @ \ {r} ELSE @ \cup {r}]

SwitchBegins == ~net.switching /\ net' = [net EXCEPT !.switching = TRUE]

SwitchCommits(r) ==
    net.switching /\ net' = [net EXCEPT !.switching = FALSE, !.active = r]

OnboardedChanges == net' = [net EXCEPT !.onboarded = ~@]

Environment ==
    /\ \/ SwitchBegins \/ OnboardedChanges
       \/ \E r \in Radios : LinkChanges(r) \/ SwitchCommits(r)
    /\ UNCHANGED <<queue, heap, putting, work, h, faults, fate>>

Next ==
    \/ \E m \in Msgs : QueueMessage(m) \/ PutTimesOut(m)
    \/ QueueWork
    \/ Handler
    \/ Environment

Spec == Init /\ [][Next]_vars

(* The work queue's thread runs when it can, and the timer is periodic. *)
FairSpec == Spec /\ WF_vars(Handler) /\ WF_vars(QueueWork)

-----------------------------------------------------------------------------
(* The types; the queue and the heap are within their limits *)
TypeOK ==
    /\ queue \in Seq(Msgs)
    /\ Len(queue) <= QueueDepth
    /\ heap \subseteq Msgs
    /\ putting \subseteq Msgs
    /\ work \in 0..MaxWork
    /\ h \in [place : Places, todo : Nat, hand : Msgs \cup {None},
              using : Radios, via : Radios, ret : Results]
    /\ net \in [active : Radios, mqtt : SUBSET Radios, switching : BOOLEAN, onboarded : BOOLEAN]
    /\ faults \in 0..MaxFaults
    /\ fate \in [Msgs -> {"waiting", "unsure", "sent", "rejected"}]

(* Every message has one owner, and its buffer is not freed while it has: an
   entry of the queue, the handler, or a producer that still waits.  Two
   owners would be a message sent from freed memory, or freed twice. *)
OwnedOnce ==
    /\ \A i, j \in 1..Len(queue) : i # j => queue[i] # queue[j]
    /\ \A i \in 1..Len(queue) : queue[i] \in heap /\ queue[i] # h.hand /\ queue[i] \notin putting
    /\ putting \subseteq heap
    /\ h.hand # None => h.hand \in heap /\ h.hand \notin putting
    /\ h.place \in {"sending", "sent"} <=> h.hand # None

(* A message the radio has acknowledged is not queued any more: it would be
   sent again though nothing went wrong (mqttQ_work_handler). *)
AckedIsGone == \A i \in 1..Len(queue) : fate[queue[i]] # "sent"

(* What is in the store: on the queue or in the handler's hand *)
Held == Elements(queue) \cup ({h.hand} \ {None})

Store == INSTANCE MsgStore WITH
            Capacity <- QueueDepth + 1,
            status <- [m \in Msgs |-> IF m \in Held THEN fate[m] ELSE "none"]

(* An accepted message leaves the queue only when it was acknowledged or
   rejected: mqttQ_work_handler keeps it when the error is transient. *)
KeepsMessages == Store!Spec

(* While messages can be sent each of them leaves the queue in the end:
   mqttQ_work_handler lets no message block another one for ever.  Of a collar that
   is not onboarded only the onboarding messages can be sent: the others, which are
   put back, do not keep them from it. *)
CanSend == IsConnected /\ ~net.switching
Drains ==
    \A m \in Msgs : <>[](CanSend /\ (net.onboarded \/ m \in Onboarding)) =>
                       (m \in Held ~> m \notin Held)
=============================================================================
