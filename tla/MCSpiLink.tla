----------------------------- MODULE MCSpiLink -----------------------------
(* TLC instances of SpiLink; the constants are in the .cfg files. *)
EXTENDS SpiLink
=============================================================================
