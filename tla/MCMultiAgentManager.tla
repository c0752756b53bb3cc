------------------------- MODULE MCMultiAgentManager -------------------------
(* An instance of MultiAgentManager for TLC: no symmetry, since the run      *)
(* checks liveness too.                                                     *)
EXTENDS MultiAgentManager
==============================================================================
