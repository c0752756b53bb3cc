--------------------------- MODULE MCToolApprovals ---------------------------
(* Instances of ToolApprovals for TLC: two flagged calls of a guarded tool, *)
(* one that is never run and one in which nothing is found.                 *)
EXTENDS ToolApprovals, TLC

CONSTANTS a, b, d, f

MCTool == (a :> "shell") @@ (b :> "shell") @@ (d :> "wipe") @@ (f :> "read")
MCInput == (a :> "x") @@ (b :> "y") @@ (d :> "x") @@ (f :> "x")

Symmetry == Permutations(Turns) \cup Permutations(Sessions)
==============================================================================
