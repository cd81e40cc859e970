----------------------------- MODULE FifoStore -----------------------------
(***************************************************************************)
(* What a file queue promises: a store of records that survives a reset.   *)
(* A record is put behind all the others, and only the first one is taken. *)
(* Positions may have gaps; their order is the order of the queue.         *)
(***************************************************************************)
EXTENDS Naturals, FiniteSets

CONSTANT Records

VARIABLE slots \* the record at each position in use

Positions == DOMAIN slots

Init == slots = [i \in {} |-> 0]

PutRecord ==
    \E i \in DOMAIN slots' \ Positions, rec \in Records :
        /\ \A j \in Positions : j < i
        /\ slots' = [j \in Positions \cup {i} |-> IF j = i THEN rec ELSE slots[j]]

TakeFirst ==
    \E i \in Positions :
        /\ \A j \in Positions : i <= j
        /\ slots' = [j \in Positions \ {i} |-> slots[j]]

Next == PutRecord \/ TakeFirst

Spec == Init /\ [][Next]_slots
=============================================================================
