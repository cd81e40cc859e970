---------------------------- MODULE MCFileQueue ----------------------------
(* TLC instances of FileQueue; the constants are in the .cfg files. *)
EXTENDS FileQueue
=============================================================================
