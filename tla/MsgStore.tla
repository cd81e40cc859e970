------------------------------ MODULE MsgStore ------------------------------
(***************************************************************************)
(* What the code that queues MQTT messages for the cloud counts on: a      *)
(* message that was accepted stays in the store until the cloud            *)
(* acknowledged it or it was found to be one that can never be sent.  A    *)
(* message whose acknowledgement was lost is sent again (at least once).   *)
(***************************************************************************)
EXTENDS FiniteSets, Naturals

CONSTANTS
    Msgs,     \* the messages
    Capacity  \* how many the store holds

VARIABLE status \* of each message

Statuses == {"none", "waiting", "unsure", "sent", "rejected"}

Init == status = [m \in Msgs |-> "none"]

Becomes(m, s) == status' = [status EXCEPT ![m] = s]

Accept(m) ==
    /\ status[m] = "none"
    /\ Cardinality({n \in Msgs : status[n] # "none"}) < Capacity
    /\ Becomes(m, "waiting")

(* The cloud has the message, and the sender does not know. *)
Unheard(m) == status[m] = "waiting" /\ Becomes(m, "unsure")

Acknowledge(m) == status[m] \in {"waiting", "unsure"} /\ Becomes(m, "sent")

Reject(m) == status[m] \in {"waiting", "unsure"} /\ Becomes(m, "rejected")

Forget(m) == status[m] \in {"sent", "rejected"} /\ Becomes(m, "none")

Next == \E m \in Msgs :
           Accept(m) \/ Unheard(m) \/ Acknowledge(m) \/ Reject(m) \/ Forget(m)

Spec == Init /\ [][Next]_status
=============================================================================
