---------------------------- MODULE MCRadioRefs ----------------------------
(* TLC instances of RadioRefs; the bound is in the .cfg files. *)
EXTENDS RadioRefs
=============================================================================
