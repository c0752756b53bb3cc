----------------------------- MODULE MCLLMLimiter -----------------------------
(* An instance of LLMLimiter for TLC: no symmetry, since the run checks      *)
(* liveness too.                                                            *)
EXTENDS LLMLimiter
==============================================================================
