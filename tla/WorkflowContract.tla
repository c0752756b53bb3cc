-------------------------- MODULE WorkflowContract --------------------------
(***************************************************************************)
(* What coordinate_workflow promises of an ad-hoc workflow                  *)
(* (agents/tools/agent_workforce.py), without the tasks that run it: a step *)
(* begins when all it depends on is done, is skipped when some of it never  *)
(* will be, and the workflow is done exactly when every step is.  After a   *)
(* cancellation nothing begins and the workflow ends cancelled; a step that *)
(* had begun may still finish behind its back.                              *)
(***************************************************************************)
CONSTANTS
    Steps,
    DependsOn   \* the steps each step waits for

VARIABLES
    status,     \* status of the workflow
    step,       \* status of each step
    asked       \* a cancellation has been asked for

vars == <<status, step, asked>>

Terminal == {"done", "failed", "cancelled"}
StepTerminal == {"done", "failed", "skipped", "cancelled"}

Init ==
    /\ status = "pending"
    /\ step = [s \in Steps |-> "pending"]
    /\ asked = FALSE

Start ==
    /\ status = "pending" /\ ~asked
    /\ status' = "running"
    /\ UNCHANGED <<step, asked>>

Ask ==
    /\ status \notin Terminal
    /\ asked' = TRUE
    /\ UNCHANGED <<status, step>>

Begin(s) ==
    /\ status = "running" /\ ~asked /\ step[s] = "pending"
    /\ \A d \in DependsOn[s] : step[d] = "done"
    /\ step' = [step EXCEPT ![s] = "running"]
    /\ UNCHANGED <<status, asked>>

Skip(s) ==
    /\ status = "running" /\ ~asked /\ step[s] = "pending"
    /\ \E d \in DependsOn[s] : step[d] \in {"failed", "skipped"}
    /\ step' = [step EXCEPT ![s] = "skipped"]
    /\ UNCHANGED <<status, asked>>

End(s) ==
    /\ step[s] = "running"
    /\ \E r \in {"done", "failed"} : step' = [step EXCEPT ![s] = r]
    /\ UNCHANGED <<status, asked>>

CancelStep(s) ==
    /\ asked /\ step[s] = "running"
    /\ step' = [step EXCEPT ![s] = "cancelled"]
    /\ UNCHANGED <<status, asked>>

(* A step that was under way when the workflow was cancelled finishes.      *)
Late(s) ==
    /\ status = "cancelled" /\ step[s] = "cancelled"
    /\ \A d \in DependsOn[s] : step[d] = "done"
    /\ \E r \in {"done", "failed"} : step' = [step EXCEPT ![s] = r]
    /\ UNCHANGED <<status, asked>>

Conclude ==
    /\ status = "running" /\ ~asked
    /\ \A s \in Steps : step[s] \in StepTerminal
    /\ status' = IF \A s \in Steps : step[s] = "done" THEN "done" ELSE "failed"
    /\ UNCHANGED <<step, asked>>

Abort ==
    /\ status = "running" /\ asked
    /\ status' = "cancelled"
    /\ step' = [s \in Steps |-> IF step[s] \in {"pending", "running"}
                                THEN "cancelled" ELSE step[s]]
    /\ UNCHANGED asked

Progress ==
    \/ Start \/ Conclude \/ Abort
    \/ \E s \in Steps : Begin(s) \/ Skip(s) \/ End(s) \/ CancelStep(s)

Next == Progress \/ Ask \/ \E s \in Steps : Late(s)

Safety == Init /\ [][Next]_vars

(* Nothing but a cancellation before its start keeps a workflow from ending. *)
Spec == Safety /\ WF_vars(Progress)
=============================================================================
