----------------------------- MODULE MCWorkflow -----------------------------
(* Six steps in three waves, two permits: a and b start, c waits for a, d   *)
(* for c and b, and e and f for b.                                          *)
EXTENDS Workflow, TLC

CONSTANTS a, b, c, d, e, f

MCDependsOn == (a :> {}) @@ (b :> {}) @@ (c :> {a}) @@ (d :> {b, c})
               @@ (e :> {b}) @@ (f :> {b})
=============================================================================
