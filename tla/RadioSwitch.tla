---------------------------- MODULE RadioSwitch -----------------------------
(***************************************************************************)
(* What the radio manager promises its callers (radioMgr.h): one radio is  *)
(* active, a caller may ask at any time for the other one, and may change  *)
(* its mind while the switch is under way; the switch then goes on to the  *)
(* newly requested radio, and it ends.                                     *)
(***************************************************************************)
CONSTANTS
    Radio,      \* the radios that can carry MQTT
    None        \* no radio is active: only after boot

VARIABLES
    active,     \* the radio that rm_get_active_mqtt_radio() returns
    wanted,     \* the radio the manager was last asked for
    switching   \* a switch is under way

vars == <<active, wanted, switching>>

TypeOK ==
    /\ active \in Radio \cup {None}
    /\ wanted \in Radio
    /\ switching \in BOOLEAN

Init ==
    /\ active = None
    /\ wanted \in Radio
    /\ switching = FALSE

Request(radio) ==
    /\ wanted' = radio
    /\ switching' = TRUE
    /\ UNCHANGED active

Finish ==
    /\ switching
    /\ active' = wanted
    /\ switching' = FALSE
    /\ UNCHANGED wanted

Next == Finish \/ \E radio \in Radio : Request(radio)

Spec == Init /\ [][Next]_vars

FairSpec == Spec /\ WF_vars(Finish)

(* Whenever no switch is under way, the radio in use is the one that was asked
   for last. *)
ActiveIsWanted == ~switching /\ active # None => active = wanted
=============================================================================
