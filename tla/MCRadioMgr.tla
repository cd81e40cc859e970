----------------------------- MODULE MCRadioMgr -----------------------------
(***************************************************************************)
(* The instance of RadioMgr that TLC checks.  Its state space is finite by *)
(* the bounds alone, so the .cfg files only choose how many commands may   *)
(* fail, how many setbacks and how many calls from other threads there     *)
(* are, and whether such a call may arrive in the middle of a handler.     *)
(***************************************************************************)
EXTENDS RadioMgr
=============================================================================
