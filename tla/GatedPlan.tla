------------------------------ MODULE GatedPlan ------------------------------
(***************************************************************************)
(* What a plan promises its user (app/task_plan.py with                     *)
(* app/task_plan_executor.py), without the executor's task, its entry among *)
(* the running ones, its polls, its end and the requests that wait for it:  *)
(* one worker takes up one step at a time, only while the plan runs, and    *)
(* only what the user has let run if that was needed.  Requests never leave *)
(* a second worker behind, cancelling closes every open step, and a plan is *)
(* done when nothing is pending.                                            *)
(***************************************************************************)
CONSTANTS
    Steps,
    PlanGated,      \* the plan needs it
    NoStep

VARIABLES
    plan,
    status,
    gated,          \* the steps that need the user's confirmation
    granted,        \* the steps that the user has confirmed
    planGranted,    \* the user has confirmed the plan
    working         \* the step in execution, or NoStep

vars == <<plan, status, gated, granted, planGranted, working>>

Init ==
    /\ plan = "none"
    /\ status = [s \in Steps |-> "unused"]
    /\ gated = {} /\ granted = {} /\ planGranted = FALSE
    /\ working = NoStep

Exists == plan \notin {"none", "gone"}
MayRun == PlanGated => planGranted
StepMayRun(s) == s \in gated => s \in granted
Untaken(s) == status[s] \in {"pending", "waiting"}

------------------------------------------------------------------------------
(* Requests.                                                                *)

Create ==
    /\ plan = "none" /\ plan' = "draft"
    /\ planGranted' \in BOOLEAN
    /\ UNCHANGED <<status, gated, granted, working>>

(* What a client says of the gate and the confirmation of a step.           *)
Mark(s) ==
    /\ gated' \in {gated \cup {s}, gated \ {s}}
    /\ granted' \in {granted \cup {s}, granted \ {s}}

Add(s) ==
    /\ Exists /\ plan \notin {"done", "failed", "cancelled"}
    /\ status[s] = "unused"
    /\ status' = [status EXCEPT ![s] = "pending"]
    /\ Mark(s)
    /\ UNCHANGED <<plan, planGranted, working>>

Edit(s, v) ==
    /\ Exists /\ status[s] # "unused"
    /\ status' = [status EXCEPT ![s] = v]
    /\ Mark(s)
    /\ UNCHANGED <<plan, planGranted, working>>

Evict ==
    /\ Exists /\ plan' = "gone"
    /\ UNCHANGED <<status, gated, granted, planGranted, working>>

(* A pause, or a start that has to wait for the user.                       *)
Hold ==
    /\ plan = "running" \/ (plan \in {"draft", "waiting"} /\ ~MayRun)
    /\ plan' = "waiting"
    /\ UNCHANGED <<status, gated, granted, planGranted, working>>

Start ==
    /\ plan \in {"draft", "waiting"} /\ MayRun
    /\ plan' = "running"
    /\ UNCHANGED <<status, gated, granted, planGranted, working>>

(* The user goes on with a plan, and so confirms what it waited for.        *)
Confirm ==
    /\ Exists
    /\ plan' = IF plan = "waiting" THEN "running" ELSE plan
    /\ planGranted' = (planGranted \/ PlanGated)
    /\ granted' = granted \/ \E s \in gated : granted' = granted \cup {s}
    /\ UNCHANGED <<status, gated, working>>

(* Every open step is closed.  The worker stops with it, unless it came     *)
(* after the one that was told to stop.                                     *)
Cancel ==
    /\ Exists /\ plan' = "cancelled"
    /\ status' = [s \in Steps |-> IF status[s] \in {"pending", "running", "waiting"}
                                  THEN "cancelled" ELSE status[s]]
    /\ working' \in {working, NoStep}
    /\ UNCHANGED <<gated, granted, planGranted>>

------------------------------------------------------------------------------
(* The worker.                                                              *)

Free == plan = "running" /\ MayRun /\ working = NoStep

Begin(s) ==
    /\ Free /\ Untaken(s) /\ StepMayRun(s)
    /\ status' = [status EXCEPT ![s] = "running"]
    /\ working' = s
    /\ UNCHANGED <<plan, gated, granted, planGranted>>

(* The plan and the step wait for the user.                                 *)
Park(s) ==
    /\ Free /\ Untaken(s)
    /\ status' = [status EXCEPT ![s] = "waiting"]
    /\ plan' = "waiting"
    /\ UNCHANGED <<gated, granted, planGranted, working>>

Complete ==
    /\ Exists /\ working # NoStep
    /\ status' = [status EXCEPT ![working] = "done"]
    /\ working' = NoStep
    /\ UNCHANGED <<plan, gated, granted, planGranted>>

(* A step fails, in execution or on being taken up.                         *)
Fail(s) ==
    /\ Exists
    /\ working = s \/ (Free /\ Untaken(s) /\ StepMayRun(s))
    /\ status' = [status EXCEPT ![s] = "failed"]
    /\ plan' = "failed" /\ working' = NoStep
    /\ UNCHANGED <<gated, granted, planGranted>>

(* The plan has left the store under the worker.                            *)
Lose ==
    /\ plan = "gone"
    /\ working' = NoStep
    /\ UNCHANGED <<plan, status, gated, granted, planGranted>>

Finish ==
    /\ Free /\ \A s \in Steps : status[s] # "pending"
    /\ plan' = "done"
    /\ UNCHANGED <<status, gated, granted, planGranted, working>>

------------------------------------------------------------------------------

Next ==
    \/ Create \/ Evict \/ Hold \/ Start \/ Confirm \/ Cancel
    \/ \E s \in Steps :
        \/ Add(s) \/ Begin(s) \/ Park(s) \/ Fail(s)
        \/ \E v \in {"pending", "running", "waiting", "done", "failed", "cancelled"} : Edit(s, v)
    \/ Complete \/ Lose \/ Finish

Spec == Init /\ [][Next]_vars
==============================================================================
