---------------------------- MODULE MCTaskTracker ----------------------------
(* The instance of TaskTracker for TLC: one chat, a run and the one that    *)
(* replaces it, two subscribers and a replay buffer of one event.  Its      *)
(* temporal properties rule out symmetry.                                   *)
EXTENDS TaskTracker

==============================================================================
