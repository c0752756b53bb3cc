------------------------------ MODULE MCTaskPlan ------------------------------
(* Instances of TaskPlan for TLC.                                           *)
EXTENDS TaskPlan

CONSTANTS a1, t1, m1   \* an agent step, a tool step, a simulated step
==============================================================================
