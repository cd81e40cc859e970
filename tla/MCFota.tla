------------------------------ MODULE MCFota ------------------------------
(* TLC instances of Fota; the bounds are in the .cfg files. *)
EXTENDS Fota
=============================================================================
