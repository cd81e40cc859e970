------------------------------ MODULE MCWifiAt ------------------------------
(* Model-checking instance of WifiAt: the constants are given in WifiAt.cfg. *)
EXTENDS WifiAt, TLC

Symmetry == Permutations(Callers) \cup Permutations(Buffers)
=============================================================================
