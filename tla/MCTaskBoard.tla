----------------------------- MODULE MCTaskBoard ----------------------------
(* Instances of TaskBoard for TLC; the cfgs give the tasks. *)
EXTENDS TaskBoard
=============================================================================
