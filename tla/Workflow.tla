------------------------------ MODULE Workflow ------------------------------
(***************************************************************************)
(* One ad-hoc workflow of agents/tools/agent_workforce.py: the task that    *)
(* drives it (_run_workflow), the task of each step (_run_step), the call   *)
(* that waits for it (coordinate_workflow), and the three ways to cancel    *)
(* it: cancel_workflow, the task monitor (request_cancel_task) and run      *)
(* control (RunControlStore.cancel_run).                                    *)
(*                                                                         *)
(* The driver goes in waves: it gathers the pending steps none of whose     *)
(* dependencies is pending and looks again when the whole wave is over.     *)
(* Cancelling it cancels the gather and thereby every task of the wave, but *)
(* each of those is told only in a step of its own, a call may swallow the  *)
(* cancellation, and the driver wakes as soon as one of them is cancelled.  *)
(*                                                                         *)
(* The calls on the monitor and on run control never suspend (their locks   *)
(* are not held across an await), so each is part of the step around it.    *)
(* What remains are the awaits of the driver on its wave, of a step on the  *)
(* semaphore and on its agent, and of the two callers on the driver.        *)
(* The branches that only read cancel_event are left out: whoever sets it   *)
(* cancels the driver too, so the exception always comes first.             *)
(***************************************************************************)
EXTENDS Integers, FiniteSets

CONSTANTS
    Steps,
    DependsOn,      \* the steps each step waits for
    MaxConcurrency  \* permits of the workflow's semaphore

(* _validate_plan: dependencies exist and are free of cycles; the rank of a *)
(* step is larger than that of every step it depends on.                    *)
ValidPlan ==
    /\ IsFiniteSet(Steps) /\ Steps # {} /\ DependsOn \in [Steps -> SUBSET Steps]
    /\ \E rank \in [Steps -> 1..Cardinality(Steps)] :
           \A s \in Steps : \A d \in DependsOn[s] : rank[d] < rank[s]

ASSUME PlanAssumption == ValidPlan
ASSUME PermitAssumption == MaxConcurrency \in Nat \ {0}

VARIABLES
    status,     \* exec_.status
    step,       \* status of each step
    driver,     \* the task of _run_workflow: not begun, gathering, over
    task,       \* the task of each step in its wave
    asked,      \* the driver's task has been cancelled
    monitor,    \* status of the workflow in the task monitor
    caller,     \* coordinate_workflow: waiting for the driver, or returned
    entry,      \* status of the workflow in run control
    canceller   \* cancel_run: idle, or waiting (2 s at most) for the driver

execVars == <<status, step, driver, task, asked>>
outerVars == <<caller, entry, canceller>>
vars == <<execVars, monitor, outerVars>>

Terminal == {"done", "failed", "cancelled"}
StepTerminal == {"done", "failed", "skipped", "cancelled"}
TaskState == {"none", "new", "queued", "executing", "over", "cancelled"}

TypeOK ==
    /\ status \in {"pending", "running"} \cup Terminal
    /\ step \in [Steps -> {"pending", "running"} \cup StepTerminal]
    /\ driver \in {"new", "gathering", "over"}
    /\ task \in [Steps -> TaskState]
    /\ asked \in BOOLEAN
    /\ monitor \in {"running"} \cup Terminal
    /\ caller \in {"waiting", "returned"}
    /\ entry \in {"running"} \cup Terminal
    /\ canceller \in {"idle", "waiting"}

(* coordinate_workflow up to its first await: with wait or without.         *)
Init ==
    /\ status = "pending"
    /\ step = [s \in Steps |-> "pending"]
    /\ driver = "new"
    /\ task = [s \in Steps |-> "none"]
    /\ asked = FALSE
    /\ monitor = "running"
    /\ caller \in {"waiting", "returned"}
    /\ entry = "running"
    /\ canceller = "idle"

Executing == {s \in Steps : task[s] = "executing"}
PermitFree == Cardinality(Executing) < MaxConcurrency
NobodyQueued == \A s \in Steps : task[s] # "queued"
WaveOver == \A s \in Steps : task[s] \in {"none", "over"}

(***************************************************************************)
(* The driver                                                              *)
(***************************************************************************)
Ready == ~asked /\ (driver = "new" \/ (driver = "gathering" /\ WaveOver))

(* The next wave: the pending steps that wait for no pending step.          *)
Wave == {s \in Steps : step[s] = "pending"
                       /\ \A d \in DependsOn[s] : step[d] # "pending"}

Gather ==
    /\ Ready /\ Wave # {}
    /\ driver' = "gathering"
    /\ status' = "running"
    /\ task' = [s \in Steps |-> IF s \in Wave THEN "new" ELSE task[s]]
    /\ UNCHANGED <<step, asked, monitor, outerVars>>

(* Mutant of Verdict: looks at the last steps only, which are skipped when  *)
(* an earlier one fails.                                                    *)
LastVerdict ==
    IF \E s \in Steps : step[s] = "failed" /\ \A t \in Steps : s \notin DependsOn[t]
    THEN "failed" ELSE "done"

Verdict == IF \E s \in Steps : step[s] = "failed" THEN "failed" ELSE "done"

(* Every step is terminal: the workflow's outcome and the monitor's.        *)
Conclude ==
    /\ Ready /\ \A s \in Steps : step[s] \in StepTerminal
    /\ status' = Verdict
    /\ monitor' = Verdict
    /\ driver' = "over"
    /\ UNCHANGED <<step, task, asked, outerVars>>

(* Mutant of Interrupted: the wave is taken for over only when one of its   *)
(* tasks reports the cancellation.                                          *)
AwaitCancelledTask ==
    /\ driver = "gathering" /\ asked
    /\ \E s \in Steps : task[s] = "cancelled"
    /\ status' = "cancelled"
    /\ monitor' = "cancelled"
    /\ step' = [s \in Steps |-> IF step[s] \in {"pending", "running"}
                                THEN "cancelled" ELSE step[s]]
    /\ driver' = "over"
    /\ UNCHANGED <<task, asked, outerVars>>

(* The gather ends with a CancelledError: with the first of its tasks that  *)
(* is cancelled, or with the last one when all of them swallowed it.        *)
Interrupted ==
    /\ driver = "gathering" /\ asked
    /\ (\E s \in Steps : task[s] = "cancelled") \/ WaveOver
    /\ status' = "cancelled"
    /\ monitor' = "cancelled"
    /\ step' = [s \in Steps |-> IF step[s] \in {"pending", "running"}
                                THEN "cancelled" ELSE step[s]]
    /\ driver' = "over"
    /\ UNCHANGED <<task, asked, outerVars>>

(* Mutant of Vanish: a task state that done() does not know.                *)
VanishUnknown ==
    /\ driver = "new" /\ asked
    /\ driver' = "cancelled"
    /\ UNCHANGED <<status, step, task, asked, monitor, outerVars>>

(* Cancelled before its first step, the driver never runs: nothing in it    *)
(* sets a status.                                                           *)
Vanish ==
    /\ driver = "new" /\ asked
    /\ driver' = "over"
    /\ UNCHANGED <<status, step, task, asked, monitor, outerVars>>

(***************************************************************************)
(* The steps                                                               *)
(***************************************************************************)
Blocked(s) == \E d \in DependsOn[s] : step[d] # "done"

(* An asyncio.Semaphore hands a permit to those that queue for it before    *)
(* anyone else (from Python 3.11 on; before, a newcomer may overtake them). *)
Begin(s) ==
    /\ step' = [step EXCEPT ![s] = "running"]
    /\ task' = [task EXCEPT ![s] = IF PermitFree /\ NobodyQueued
                                   THEN "executing" ELSE "queued"]

Skip(s) ==
    /\ step' = [step EXCEPT ![s] = "skipped"]
    /\ task' = [task EXCEPT ![s] = "over"]

StepBegin(s) ==
    /\ task[s] = "new" /\ ~asked
    /\ (Blocked(s) /\ Skip(s)) \/ (~Blocked(s) /\ Begin(s))
    /\ UNCHANGED <<status, driver, asked, monitor, outerVars>>

StepAcquire(s) ==
    /\ task[s] = "queued" /\ ~asked /\ PermitFree
    /\ task' = [task EXCEPT ![s] = "executing"]
    /\ UNCHANGED <<status, step, driver, asked, monitor, outerVars>>

(* The agent answers, fails or times out, also when it swallowed its        *)
(* cancellation, and also when the driver is over by then.                  *)
StepEnd(s) ==
    /\ task[s] = "executing"
    /\ \E r \in {"done", "failed"} : step' = [step EXCEPT ![s] = r]
    /\ task' = [task EXCEPT ![s] = "over"]
    /\ UNCHANGED <<status, driver, asked, monitor, outerVars>>

(* The CancelledError reaches a step: only inside the call of its agent is  *)
(* there a handler that sets its status.                                    *)
StepCancelled(s) ==
    /\ asked /\ task[s] \in {"new", "queued", "executing"}
    /\ step' = IF task[s] = "executing" THEN [step EXCEPT ![s] = "cancelled"] ELSE step
    /\ task' = [task EXCEPT ![s] = "cancelled"]
    /\ UNCHANGED <<status, driver, asked, monitor, outerVars>>

(***************************************************************************)
(* Cancellation                                                            *)
(***************************************************************************)
SignalDriver == asked' = (asked \/ driver # "over")

(* Mutant of MonitorCancel: a task that has ended is marked cancelled too.  *)
MarkCancelled ==
    /\ monitor' = "cancelled"
    /\ SignalDriver

(* request_cancel_task with the workflow's handler.                         *)
MonitorCancel ==
    IF monitor \in Terminal THEN UNCHANGED <<monitor, asked>>
    ELSE monitor' = "cancelled" /\ SignalDriver

RequestCancel ==
    /\ MonitorCancel
    /\ UNCHANGED <<status, step, driver, task, outerVars>>

(* cancel_workflow by another tool call; nobody knows the identifier before *)
(* the driver has begun.                                                    *)
CancelWorkflow ==
    /\ driver # "new" /\ status \notin Terminal
    /\ SignalDriver
    /\ UNCHANGED <<status, step, driver, task, monitor, outerVars>>

(* cancel_run on the workflow or on the run it belongs to: the monitor,     *)
(* then cancel_workflow, which cancels the driver once more and waits for   *)
(* it unless the workflow has ended; then the entry is marked.              *)
CancelRun ==
    /\ canceller = "idle" /\ entry \notin Terminal
    /\ MonitorCancel
    /\ \/ /\ status \in Terminal
          /\ entry' = "cancelled"
          /\ UNCHANGED canceller
       \/ /\ status \notin Terminal
          /\ canceller' = "waiting"
          /\ UNCHANGED entry
    /\ UNCHANGED <<status, step, driver, task, caller>>

CancelRunMark ==
    /\ canceller = "waiting"
    /\ canceller' = "idle"
    /\ entry' = "cancelled"
    /\ UNCHANGED <<execVars, monitor, caller>>

(***************************************************************************)
(* The waiting call                                                        *)
(***************************************************************************)
CallerReturns ==
    /\ caller = "waiting" /\ driver = "over" /\ status \in {"done", "failed"}
    /\ caller' = "returned"
    /\ entry' = status
    /\ UNCHANGED <<execVars, monitor, canceller>>

(* A CancelledError ends the wait: the driver's, or that of the chat turn,  *)
(* which may come at any time and which the shield keeps from the driver.   *)
CallerCancelled ==
    /\ caller = "waiting"
    /\ caller' = "returned"
    /\ entry' = "cancelled"
    /\ UNCHANGED <<execVars, monitor, canceller>>

(* Mutant of CallerTimesOut: falls through to the report of the outcome.    *)
TimesOutAndReports ==
    /\ caller = "waiting" /\ driver # "over"
    /\ caller' = "returned"
    /\ entry' = IF status = "done" THEN "done" ELSE "failed"
    /\ UNCHANGED <<execVars, monitor, canceller>>

(* The wait times out; the workflow and its entry stay as they are.         *)
CallerTimesOut ==
    /\ caller = "waiting" /\ driver # "over"
    /\ caller' = "returned"
    /\ UNCHANGED <<execVars, monitor, entry, canceller>>

Driver == Gather \/ Conclude \/ Interrupted \/ Vanish
Step(s) == StepBegin(s) \/ StepAcquire(s) \/ StepEnd(s) \/ StepCancelled(s)
Cancel == RequestCancel \/ CancelWorkflow \/ CancelRun \/ CancelRunMark
Caller == CallerReturns \/ CallerCancelled \/ CallerTimesOut

Next == Driver \/ (\E s \in Steps : Step(s)) \/ Cancel \/ Caller

Spec == Init /\ [][Next]_vars

(* The event loop runs every task that can go on, and step_timeout_seconds  *)
(* ends every call of an agent.  Nobody has to cancel anything.             *)
Fairness == WF_vars(Driver) /\ \A s \in Steps : WF_vars(Step(s))
FairSpec == Spec /\ Fairness

(***************************************************************************)
(* Properties                                                              *)
(***************************************************************************)
(* max_concurrency: no more agents work for the workflow than it has        *)
(* permits, those counted that still unwind after it has been cancelled.    *)
PermitsKept == Cardinality(Executing) <= MaxConcurrency

(* A workflow reported done has done every step: waves, skips and           *)
(* cancellations never let a step slip by (the verdict looks for failed     *)
(* steps only).                                                             *)
DoneMeansDone == status = "done" => \A s \in Steps : step[s] = "done"

(* Whichever way a cancellation comes and however it races with the end,    *)
(* an ended workflow has the same outcome in the task monitor.              *)
MonitorAgrees == status \in Terminal => monitor = status

(* Run control reports an outcome other than "cancelled" only when it is    *)
(* the workflow's, however its callers overtake each other.                 *)
EntryTruthful == entry \in {"done", "failed"} => status = entry

(* The tasks implement the contract, with its fairness: in particular every *)
(* cancellation that finds the driver at work ends the workflow, also when  *)
(* all of its steps swallow it.                                             *)
Contract == INSTANCE WorkflowContract
ImplementsContract == Contract!Spec
=============================================================================
