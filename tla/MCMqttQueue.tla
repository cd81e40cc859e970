---------------------------- MODULE MCMqttQueue ----------------------------
(***************************************************************************)
(* MqttQueue for TLC.  The .cfg files name the messages; the ordinary ones *)
(* among them are interchangeable wherever no liveness is checked.         *)
(***************************************************************************)
EXTENDS MqttQueue, TLC

Symmetry == Permutations(Msgs \ (Onboarding \cup TooBig))
=============================================================================
