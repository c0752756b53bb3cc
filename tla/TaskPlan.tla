------------------------------- MODULE TaskPlan -------------------------------
(***************************************************************************)
(* One task plan: its record in TaskPlanStore (app/task_plan.py), the       *)
(* executor task that drives it (app/task_plan_executor.py) and the         *)
(* requests that reach both (app/routers/task_plan.py, chat control).       *)
(*                                                                         *)
(* Store operations hold a lock around code without awaits: each is atomic, *)
(* and so is a turn of _run_plan between its awaits, which are the poll of  *)
(* a paused plan, the sleep of a simulated step, the agent of an agent step *)
(* and, for a cancel request, the wait for the task it cancelled.  A turn   *)
(* is cut at the head of the loop after a step, where nothing else runs.    *)
(*                                                                         *)
(* The order fields stay contiguous, so a step's order is its place in the  *)
(* sequence.  Monitor records, run-control entries and subscribers mirror   *)
(* these states and are left out.                                           *)
(***************************************************************************)
EXTENDS Integers, SequencesExt

CONSTANTS
    Steps,         \* pool of steps
    AgentSteps,    \* steps with an agent_id
    ToolSteps,     \* steps with a tool_name and no agent_id; the rest are simulated
    GatedSteps,    \* steps added with requires_confirmation in their metadata
    PlanGated,     \* the plan's metadata has requires_confirmation
    MaxEdits,      \* bound on the status edits of clients
    NoStep

ASSUME KindAssumption ==
    /\ AgentSteps \subseteq Steps /\ ToolSteps \subseteq Steps \ AgentSteps
    /\ GatedSteps \subseteq Steps /\ PlanGated \in BOOLEAN
ASSUME EditsAssumption == MaxEdits \in Nat
ASSUME NoStepAssumption == NoStep \notin Steps

VARIABLES
    plan,           \* PlanStatus; "none" before create, "gone" after eviction
    steps,          \* the plan's steps in order
    status,         \* PlanStepStatus of each step
    gated,          \* steps whose metadata has requires_confirmation
    confirmed,      \* steps whose metadata has confirmed
    planConfirmed,  \* the plan's metadata has confirmed
    current,        \* current_step_id
    exec,           \* where the executor task stands
    registered,     \* the plan is in the executor's _running
    canceller,      \* an executor.cancel_plan: waiting for the task it cancelled, or
                    \* ready to go on because that task has ended
    edits,          \* the status edits so far
    edited,         \* history: steps whose status is the one a client wrote
    withdrawn       \* history: a client took from the step in execution the
                    \* confirmation that it needs

storeVars == <<plan, steps, status, gated, confirmed, planConfirmed, current>>
execVars == <<exec, registered>>
historyVars == <<edited, withdrawn>>
vars == <<storeVars, execVars, canceller, edits, historyVars>>

PlanTerminal == {"done", "failed", "cancelled"}
PlanState == {"none", "draft", "running", "waiting", "gone"} \cup PlanTerminal
StepOpen == {"pending", "running", "waiting"}
PlanStepStatus == StepOpen \cup {"done", "failed", "cancelled"}
StepState == PlanStepStatus \cup {"unused"}

TypeOK ==
    /\ plan \in PlanState
    /\ steps \in Seq(Steps)
    /\ status \in [Steps -> StepState]
    /\ gated \in SUBSET Steps /\ confirmed \in SUBSET Steps
    /\ planConfirmed \in BOOLEAN
    /\ current \in Steps \cup {NoStep}
    /\ exec \in {"none", "created", "poll", "sim", "agent", "turn"}
    /\ registered \in BOOLEAN /\ canceller \in {"idle", "waiting", "ready"}
    /\ edits \in 0..MaxEdits
    /\ edited \in SUBSET Steps /\ withdrawn \in BOOLEAN

Init ==
    /\ plan = "none" /\ steps = <<>> /\ status = [s \in Steps |-> "unused"]
    /\ gated = {} /\ confirmed = {} /\ planConfirmed = FALSE /\ current = NoStep
    /\ exec = "none" /\ registered = FALSE /\ canceller = "idle"
    /\ edits = 0 /\ edited = {} /\ withdrawn = FALSE

(* The executor task has a pending cancellation.                            *)
TaskCancelled == canceller = "waiting"

Exists == plan \notin {"none", "gone"}
NeedsConfirmation == PlanGated /\ ~planConfirmed
StepNeedsConfirmation(s) == s \in gated /\ s \notin confirmed

(* The steps the executor may pick up, by position.                         *)
Eligible ==
    {i \in 1..Len(steps) : \/ status[steps[i]] = "pending"
                           \/ status[steps[i]] = "waiting" /\ steps[i] \in confirmed}

(* The step that the executor executes.                                     *)
Working == IF exec \in {"sim", "agent"} THEN current ELSE NoStep

(* History, in every action but a client's edit: a status that the code     *)
(* writes over is no longer the client's.                                   *)
Overwrites ==
    /\ edited' = {s \in edited : status'[s] = status[s]}
    /\ withdrawn' = (withdrawn /\ Working' = Working)

------------------------------------------------------------------------------
(* Requests on the store.                                                   *)

(* create_plan, whose metadata may carry the confirmation already; its      *)
(* initial steps are added to the draft by AddStep.                         *)
Create ==
    /\ plan = "none"
    /\ plan' = "draft"
    /\ planConfirmed' \in BOOLEAN
    /\ UNCHANGED <<steps, status, gated, confirmed, current, execVars, canceller>>

(* add_step at the end, or after the step `after'; the metadata it is given *)
(* may gate the step and may confirm it already.                            *)
AddStep(s, after) ==
    /\ Exists /\ plan \notin PlanTerminal
    /\ status[s] = "unused"
    /\ \/ /\ after = NoStep
          /\ steps' = Append(steps, s)
       \/ \E i \in 1..Len(steps) :
          /\ steps[i] = after
          /\ steps' = InsertAt(steps, i + 1, s)
    /\ status' = [status EXCEPT ![s] = "pending"]
    /\ gated' = gated \cup ({s} \cap GatedSteps)
    /\ confirmed' \in {confirmed, confirmed \cup {s}}
    /\ UNCHANGED <<plan, planConfirmed, current, execVars, canceller>>

(* update_step from the status endpoint, which asks nothing of the plan and *)
(* takes any status; the metadata merged with it may give or take the gate  *)
(* and the confirmation of the step.                                        *)
EditStep(s, v) ==
    /\ edits < MaxEdits /\ edits' = edits + 1
    /\ Exists /\ status[s] # "unused"
    /\ status' = [status EXCEPT ![s] = v]
    /\ gated' \in {gated \cup {s}, gated \ {s}}
    /\ confirmed' \in {confirmed \cup {s}, confirmed \ {s}}
    /\ edited' = IF v = status[s] THEN edited ELSE edited \cup {s}
    /\ withdrawn' = (withdrawn \/ (s = Working /\ s \in gated' \ confirmed'))
    /\ UNCHANGED <<plan, steps, planConfirmed, current, execVars, canceller>>

(* The plan is the oldest of a full store when another is created.          *)
Evict ==
    /\ Exists
    /\ plan' = "gone"
    /\ UNCHANGED <<steps, status, gated, confirmed, planConfirmed, current, execVars, canceller>>

(* Mutant of Pause: a status that nothing else knows.                       *)
PauseUnknownStatus ==
    /\ plan = "running"
    /\ plan' = "paused"
    /\ UNCHANGED <<steps, status, gated, confirmed, planConfirmed, current, execVars, canceller>>

(* pause_plan, of the store and of the executor.                            *)
Pause ==
    /\ plan = "running"
    /\ plan' = "waiting"
    /\ UNCHANGED <<steps, status, gated, confirmed, planConfirmed, current, execVars, canceller>>

(* Mutant of StoreCancel: leaves running steps to the executor.             *)
StoreCancelNotRunning ==
    IF Exists
    THEN /\ plan' = "cancelled"
         /\ status' = [s \in Steps |-> IF status[s] \in StepOpen \ {"running"}
                                       THEN "cancelled" ELSE status[s]]
    ELSE UNCHANGED <<plan, status>>

(* store.cancel_plan: no status is spared, every open step is cancelled.    *)
StoreCancel ==
    IF Exists
    THEN /\ plan' = "cancelled"
         /\ status' = [s \in Steps |-> IF status[s] \in StepOpen THEN "cancelled" ELSE status[s]]
    ELSE UNCHANGED <<plan, status>>

------------------------------------------------------------------------------
(* Requests on the executor.                                                *)

(* A new executor task.                                                     *)
Spawn == exec' = "created" /\ registered' = TRUE

(* Mutant of Start: the gate is not looked at.                              *)
StartUngated ==
    /\ plan \in {"draft", "waiting"} /\ ~registered
    /\ plan' = "running"
    /\ Spawn
    /\ UNCHANGED <<steps, status, gated, confirmed, planConfirmed, current, canceller>>

(* start_plan: a plan that needs confirmation is parked, not started.       *)
Start ==
    /\ plan \in {"draft", "waiting"}
    /\ \/ /\ NeedsConfirmation
          /\ plan' = "waiting"
          /\ UNCHANGED execVars
       \/ /\ ~NeedsConfirmation /\ ~registered
          /\ plan' = "running"
          /\ Spawn
    /\ UNCHANGED <<steps, status, gated, confirmed, planConfirmed, current, canceller>>

(* Mutants of Resume: the status is not looked at; the executor is taken to *)
(* be there, polling, or to be gone.                                        *)
ResumeAnyStatus ==
    /\ Exists
    /\ planConfirmed' = (planConfirmed \/ PlanGated)
    /\ confirmed' = confirmed \cup ({current} \cap gated)
    /\ plan' = "running"
    /\ IF registered /\ exec # "none" THEN UNCHANGED execVars ELSE Spawn
    /\ UNCHANGED <<steps, status, gated, current, canceller>>

ResumeNeverSpawns ==
    /\ plan = "waiting"
    /\ plan' = "running"
    /\ planConfirmed' = (planConfirmed \/ PlanGated)
    /\ confirmed' = confirmed \cup ({current} \cap gated)
    /\ UNCHANGED <<steps, status, gated, current, execVars, canceller>>

ResumeAlwaysSpawns ==
    /\ Exists
    /\ planConfirmed' = (planConfirmed \/ PlanGated)
    /\ confirmed' = confirmed \cup ({current} \cap gated)
    /\ IF plan = "waiting" THEN plan' = "running" /\ Spawn ELSE UNCHANGED <<plan, execVars>>
    /\ UNCHANGED <<steps, status, gated, current, canceller>>

(* resume_plan: the confirmations are written whether or not the plan turns *)
(* out to be waiting.                                                       *)
Resume ==
    /\ Exists
    /\ planConfirmed' = (planConfirmed \/ PlanGated)
    /\ confirmed' = confirmed \cup ({current} \cap gated)
    /\ IF plan = "waiting"
       THEN /\ plan' = "running"
            /\ IF registered /\ exec # "none" THEN UNCHANGED execVars ELSE Spawn
       ELSE UNCHANGED <<plan, execVars>>
    /\ UNCHANGED <<steps, status, gated, current, canceller>>

(* cancel_plan while the task is alive: cancel it and wait for its end.  A  *)
(* second request for the same task would do the same again.                *)
CancelBegin ==
    /\ registered /\ exec # "none" /\ canceller = "idle"
    /\ canceller' = "waiting"
    /\ UNCHANGED <<storeVars, execVars>>

(* cancel_plan with no live task, on a plan of any status.                  *)
CancelNow ==
    /\ Exists /\ ~(registered /\ exec # "none")
    /\ StoreCancel
    /\ registered' = FALSE
    /\ UNCHANGED <<steps, gated, confirmed, planConfirmed, current, exec, canceller>>

(* Mutant of CancelEnd: trusts the executor's handler to write the store.   *)
CancelEndTrustsExecutor ==
    /\ canceller = "ready"
    /\ registered' = FALSE /\ canceller' = "idle"
    /\ UNCHANGED <<storeVars, exec>>

(* The rest of cancel_plan once the awaited task has ended.                 *)
CancelEnd ==
    /\ canceller = "ready"
    /\ StoreCancel
    /\ registered' = IF Exists THEN FALSE ELSE registered
    /\ canceller' = "idle"
    /\ UNCHANGED <<steps, gated, confirmed, planConfirmed, current, exec>>

------------------------------------------------------------------------------
(* The executor task.                                                       *)

(* _run_plan returns: its finally cleans up, and the request that waits for *)
(* its end goes on.                                                         *)
Leave ==
    /\ exec' = "none" /\ registered' = FALSE
    /\ canceller' = IF TaskCancelled THEN "ready" ELSE canceller

AtHead == exec \in {"created", "poll", "turn"} /\ ~TaskCancelled

(* The plan has ended, or left the store.                                   *)
StopAtHead ==
    /\ AtHead /\ plan \in PlanTerminal \cup {"gone"}
    /\ Leave
    /\ UNCHANGED storeVars

(* Paused: go to sleep for the next poll.                                   *)
Poll ==
    /\ AtHead /\ exec # "poll" /\ plan = "waiting"
    /\ exec' = "poll"
    /\ UNCHANGED <<storeVars, registered, canceller>>

(* No step is left to pick up.                                              *)
Finish ==
    /\ AtHead /\ plan = "running" /\ Eligible = {}
    /\ plan' = "done" /\ current' = NoStep
    /\ Leave
    /\ UNCHANGED <<steps, status, gated, confirmed, planConfirmed>>

(* The plan and step s wait for the user: a gate, or a tool step.           *)
Park(s) ==
    /\ status' = [status EXCEPT ![s] = "waiting"]
    /\ plan' = "waiting" /\ exec' = "poll"
    /\ UNCHANGED <<registered, canceller>>

(* Step s fails and the plan with it, whatever its status.                  *)
FailStep(s) ==
    /\ status' = [status EXCEPT ![s] = "failed"]
    /\ plan' = "failed"
    /\ Leave

(* Step s is the first in order that may be picked up.                      *)
NextUp(s) == \E i \in Eligible : steps[i] = s /\ \A j \in Eligible : i <= j

(* The next step in order begins.                                           *)
BeginStep(s) ==
    /\ AtHead /\ plan = "running" /\ NextUp(s)
    /\ current' = s
    /\ \/ (StepNeedsConfirmation(s) \/ s \in ToolSteps) /\ Park(s)
       \/ /\ ~StepNeedsConfirmation(s) /\ s \notin ToolSteps
          /\ status' = [status EXCEPT ![s] = "running"]
          /\ exec' = IF s \in AgentSteps THEN "agent" ELSE "sim"
          /\ UNCHANGED <<plan, registered, canceller>>
    /\ UNCHANGED <<steps, gated, confirmed, planConfirmed>>

(* No runner is registered for the agent step that is next.                 *)
NoRunner(s) ==
    /\ AtHead /\ plan = "running" /\ NextUp(s)
    /\ s \in AgentSteps /\ ~StepNeedsConfirmation(s)
    /\ current' = s
    /\ FailStep(s)
    /\ UNCHANGED <<steps, gated, confirmed, planConfirmed>>

(* What a cancellation of the task leaves to go on: an agent may swallow it.*)
GoesOn == exec = "agent" \/ (exec = "sim" /\ ~TaskCancelled)

(* The simulated step, or the agent, is done; the plan may have been paused,*)
(* and the step edited, meanwhile.                                          *)
CompleteStep ==
    /\ GoesOn /\ Exists
    /\ status' = [status EXCEPT ![current] = "done"]
    /\ exec' = "turn"
    /\ UNCHANGED <<plan, steps, gated, confirmed, planConfirmed, current, registered,
                   canceller>>

(* The agent raised, timed out or reported a failure.                       *)
AgentFails ==
    /\ exec = "agent" /\ Exists
    /\ FailStep(current)
    /\ UNCHANGED <<steps, gated, confirmed, planConfirmed, current>>

(* The plan left the store under the step: KeyError, and no FAILED to write *)
StepLost ==
    /\ GoesOn /\ plan = "gone"
    /\ Leave
    /\ UNCHANGED storeVars

(* CancelledError at an await of the task, or the head of the loop finds    *)
(* the event of a cancellation that the agent swallowed.                    *)
Cancelled ==
    /\ exec \in {"poll", "sim", "agent", "turn"} /\ TaskCancelled
    /\ StoreCancel
    /\ Leave
    /\ UNCHANGED <<steps, gated, confirmed, planConfirmed, current>>

(* Cancelled before its first step: _run_plan is never entered.             *)
Aborted ==
    /\ exec = "created" /\ TaskCancelled
    /\ exec' = "none" /\ canceller' = "ready"
    /\ UNCHANGED <<storeVars, registered>>

------------------------------------------------------------------------------

Requests ==
    \/ Create
    \/ \E s \in Steps, after \in Steps \cup {NoStep} : AddStep(s, after)
    \/ Evict \/ Pause
    \/ Start \/ Resume
    \/ CancelBegin \/ CancelNow \/ CancelEnd

Edits == \E s \in Steps, v \in PlanStepStatus : EditStep(s, v)

ExecutorSteps ==
    \/ StopAtHead \/ Poll \/ Finish
    \/ \E s \in Steps : BeginStep(s) \/ NoRunner(s)
    \/ CompleteStep \/ AgentFails \/ StepLost
    \/ Cancelled \/ Aborted

Executor == ExecutorSteps /\ Overwrites /\ UNCHANGED edits

Next ==
    \/ /\ exec # "turn"
       /\ Edits \/ (Requests /\ Overwrites /\ UNCHANGED edits)
    \/ Executor

Spec == Init /\ [][Next]_vars

(* The loop runs the executor task and resumes a waiting cancel request; a  *)
(* simulated step and an agent end (the agent has a timeout).               *)
Fairness == WF_vars(Executor) /\ WF_vars(CancelEnd /\ Overwrites /\ UNCHANGED edits)
FairSpec == Spec /\ Fairness

------------------------------------------------------------------------------
(* Properties.                                                              *)

(* Nothing that needs confirmation runs without it: no executor for a gated *)
(* plan, no execution of a gated step, along any path of start, pause,      *)
(* resume, insertion and edits; only a client's edit can take the           *)
(* confirmation back under the step that executes.                          *)
RiskGate ==
    /\ NeedsConfirmation => exec = "none"
    /\ Working # NoStep /\ ~withdrawn => ~StepNeedsConfirmation(Working)

(* A step that the code shows as running is the one the executor executes:  *)
(* cancelling, failing or losing the executor leaves none in RUNNING.       *)
RunningStepHasExecutor ==
    \A s \in Steps : Exists /\ status[s] = "running" /\ s \notin edited => s = Working

(* What executes in a plan that is still on is shown as running.            *)
WorkingStepIsRunning ==
    plan \in {"running", "waiting"} /\ Working # NoStep /\ Working \notin edited =>
        status[Working] = "running"

(* No pending step is left in a plan that is DONE, also when steps are      *)
(* inserted or reopened while the last one executes.                        *)
NoPendingWhenDone ==
    plan = "done" => \A s \in Steps \ edited : status[s] # "pending"

(* What the store shows is so, but for the statuses that a client wrote and *)
(* nothing has written over: all of the above, over every order of          *)
(* requests, insertions, edits, failures and eviction                       *)
(* (task_plan_executor.py:242, 349).                                        *)
StatusesTruthful == RunningStepHasExecutor /\ WorkingStepIsRunning /\ NoPendingWhenDone

(* A cancelled plan is not taken up again: no late result and no request    *)
(* makes it running, waiting or done.  (It may still turn failed: a resume  *)
(* between Aborted and CancelEnd starts an executor CancelEnd forgets.)     *)
CancelledNotResumed ==
    [][plan = "cancelled" => plan' \in {"cancelled", "failed", "gone"}]_vars

(* A running plan does not stay running by itself: it ends or waits.  (A    *)
(* client that reopens steps for ever keeps it running; its edits are       *)
(* finitely many here.)                                                     *)
PlanProgresses == plan = "running" ~> plan # "running"

(* A cancel request that waits for the executor ends with a closed plan.    *)
CancelCompletes ==
    canceller = "waiting" ~> canceller = "idle" /\ plan \in {"cancelled", "gone"}

(* task_plan_executor.py:255, "No more pending steps - all done": a DONE    *)
(* plan has no step still waiting for the user.                             *)
AllDone == plan = "done" => \A s \in Steps : status[s] \notin StepOpen

------------------------------------------------------------------------------
(* The contract.                                                            *)

Contract == INSTANCE GatedPlan WITH
    granted <- confirmed, planGranted <- planConfirmed, working <- Working

(* Starts, resumes, pauses, cancels, edits and evictions, whenever they     *)
(* reach the executor, leave the plan with at most one worker, which works  *)
(* on nothing unconfirmed and on nothing while another step is worked on;   *)
(* what becomes of plan and steps is told by the store in the same step.    *)
ImplementsGatedPlan == Contract!Spec
==============================================================================
