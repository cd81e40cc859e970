---------------------------- MODULE MCTelemetry ----------------------------
(* Model checking of Telemetry: two shadow documents whose scan periods and
   telemetry counts give another count on each radio and in each mode. *)
EXTENDS Telemetry

MCFirstDoc ==
    [S |-> [norm |-> 40, fmd |-> 10], T |-> [norm |-> 1, fmd |-> 1], Rec |-> 20]
MCOtherDoc ==
    [S |-> [norm |-> 10, fmd |-> 10], T |-> [norm |-> 1, fmd |-> 2], Rec |-> 20]
MCDocs == {MCFirstDoc, MCOtherDoc}
=============================================================================
