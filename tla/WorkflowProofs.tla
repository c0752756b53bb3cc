--------------------------- MODULE WorkflowProofs ---------------------------
(***************************************************************************)
(* Proofs about Workflow: its safety properties, and that it implements     *)
(* WorkflowContract, for every plan without cycles and every number of      *)
(* permits.                                                                 *)
(***************************************************************************)
EXTENDS Workflow, FiniteSetTheorems, TLAPS

USE DEF ValidPlan

(* The driver and the status it sets.  Before the driver has begun nothing  *)
(* has; once it is over, steps are under way only after a cancellation.     *)
Phase ==
    /\ driver = "new" => status = "pending"
    /\ driver = "gathering" => status = "running"
    /\ driver = "over" => status \in Terminal \/ (status = "pending" /\ asked)
    /\ status = "pending" => \A s \in Steps : task[s] = "none" /\ step[s] = "pending"
    /\ status = "cancelled" => asked
    /\ driver = "over" /\ ~asked => WaveOver

(* What the status of a step says of its task, and back.                    *)
StepTask ==
    \A s \in Steps :
        /\ task[s] = "none" => step[s] \in {"pending", "cancelled"}
        /\ task[s] = "new" => step[s] \in {"pending", "cancelled"}
        /\ task[s] \in {"queued", "executing"} => step[s] \in {"running", "cancelled"}
        /\ task[s] = "over" => step[s] \in {"done", "failed", "skipped"}
        /\ task[s] = "cancelled" => asked /\ step[s] \in {"pending", "running", "cancelled"}
        /\ step[s] = "cancelled" => asked
        /\ task[s] = "executing" /\ step[s] = "cancelled" => status = "cancelled"

(* A wave waits for nothing that is not over.                               *)
Waves ==
    \A s \in Steps : task[s] \in {"new", "queued", "executing"} =>
        \A d \in DependsOn[s] : task[d] = "over"

(* A step that has begun has all it depends on.                             *)
DepsFirst ==
    \A s \in Steps :
        task[s] \in {"queued", "executing"} \/ step[s] \in {"running", "done", "failed"} =>
            \A d \in DependsOn[s] : step[d] = "done"

(* Steps are skipped only because some step has failed.                     *)
SkipsHaveCause ==
    (\E s \in Steps : step[s] = "skipped") => \E s \in Steps : step[s] = "failed"

Control == Phase /\ StepTask /\ Waves /\ DepsFirst /\ SkipsHaveCause
Outcomes == DoneMeansDone /\ MonitorAgrees /\ EntryTruthful
IInv == TypeOK /\ Control /\ Outcomes /\ PermitsKept

(* What a step that leaves the driver and the steps alone may change.       *)
Outer ==
    /\ UNCHANGED <<status, step, driver, task>>
    /\ asked' \in {asked, driver # "over"}
    /\ asked => asked'
    /\ monitor' \in {monitor, "cancelled"}
    /\ status \in Terminal => monitor' = monitor
    /\ caller' \in {"waiting", "returned"}
    /\ canceller' \in {"idle", "waiting"}
    /\ entry' \in {entry, "cancelled"} \/ (entry' = status /\ status \in {"done", "failed"})

-----------------------------------------------------------------------------

(* The initial states satisfy the invariant.                                *)
LEMMA InitIInv == Init => IInv
<1>1. SUFFICES ASSUME Init PROVE IInv
  OBVIOUS
<1>2. Executing = {}
  BY <1>1 DEF Init, Executing
<1>3. PermitsKept
  BY <1>2, FS_EmptySet, PermitAssumption DEF PermitsKept
<1>4. TypeOK /\ Outcomes
  BY <1>1 DEF Init, TypeOK, TaskState, StepTerminal, Terminal, Outcomes, DoneMeansDone,
              MonitorAgrees, EntryTruthful
<1>5. Control
  BY <1>1 DEF Init, Control, Phase, StepTask, Waves, DepsFirst, SkipsHaveCause
<1> QED BY <1>3, <1>4, <1>5 DEF IInv

(* Cancellations and callers preserve the invariant.                        *)
LEMMA OuterIInv == IInv /\ Outer => IInv'
<1>1. SUFFICES ASSUME IInv, Outer PROVE IInv'
  OBVIOUS
<1>2. TypeOK'
  BY <1>1 DEF IInv, Outer, TypeOK, Terminal
<1>3. Phase'
  BY <1>1 DEF IInv, Control, Phase, Outer, WaveOver, TypeOK
<1>4. StepTask'
  BY <1>1 DEF IInv, Control, StepTask, Outer
<1>5. Waves' /\ DepsFirst' /\ SkipsHaveCause'
  BY <1>1 DEF IInv, Control, Waves, DepsFirst, SkipsHaveCause, Outer
<1>6. Outcomes'
  BY <1>1 DEF IInv, Outer, Outcomes, DoneMeansDone, MonitorAgrees, EntryTruthful, TypeOK, Terminal
<1>7. PermitsKept'
  BY <1>1 DEF IInv, Outer, PermitsKept, Executing
<1> QED BY <1>2, <1>3, <1>4, <1>5, <1>6, <1>7 DEF IInv, Control

(* Each cancellation, and each way the waiting call ends, is such a step.   *)
LEMMA OutsideIsOuter == IInv /\ (Cancel \/ Caller) => Outer
<1>1. SUFFICES ASSUME IInv, Cancel \/ Caller PROVE Outer
  OBVIOUS
<1> USE DEF Outer, IInv, TypeOK, execVars, outerVars
<1>2. CASE RequestCancel
  BY <1>1, <1>2 DEF RequestCancel, MonitorCancel, SignalDriver, Outcomes, MonitorAgrees, Terminal
<1>3. CASE CancelWorkflow
  BY <1>1, <1>3 DEF CancelWorkflow, SignalDriver, Terminal
<1>4. CASE CancelRun
  BY <1>1, <1>4 DEF CancelRun, MonitorCancel, SignalDriver, Outcomes, MonitorAgrees, Terminal
<1>5. CASE CancelRunMark
  BY <1>1, <1>5 DEF CancelRunMark
<1>6. CASE CallerReturns
  BY <1>1, <1>6 DEF CallerReturns
<1>7. CASE CallerCancelled
  BY <1>1, <1>7 DEF CallerCancelled
<1>8. CASE CallerTimesOut
  BY <1>1, <1>8 DEF CallerTimesOut
<1> QED BY <1>1, <1>2, <1>3, <1>4, <1>5, <1>6, <1>7, <1>8 DEF Cancel, Caller

-----------------------------------------------------------------------------

(* While the driver may go on, a step that is not pending is over.          *)
LEMMA ReadyIsOver ==
    ASSUME IInv, Ready, NEW s \in Steps, step[s] # "pending"
    PROVE  task[s] = "over" /\ step[s] # "cancelled" /\ driver = "gathering"
BY DEF IInv, Control, Ready, Phase, StepTask, WaveOver

(* A pending step has not been given a task yet.                            *)
LEMMA PendingIsNone ==
    ASSUME IInv, Ready, NEW s \in Steps, step[s] = "pending"
    PROVE  task[s] = "none"
BY DEF IInv, Control, Ready, Phase, StepTask, WaveOver

(* The next wave.                                                           *)
LEMMA GatherIInv == IInv /\ Gather => IInv'
<1>1. SUFFICES ASSUME IInv, Gather PROVE IInv'
  OBVIOUS
<1>0. Ready /\ ~asked /\ asked' = asked /\ step' = step /\ driver' = "gathering" /\ status' = "running"
  BY <1>1 DEF Gather, Ready
<1>2. TypeOK'
  BY <1>1 DEF IInv, Gather, TypeOK, TaskState, outerVars
<1>3. Phase'
  BY <1>0 DEF Phase
<1>4. \A s \in Steps : \/ step[s] = "pending" /\ task[s] = "none" /\ task'[s] \in {"none", "new"}
                       \/ step[s] # "pending" /\ task[s] = "over" /\ task'[s] = "over"
  BY <1>1, <1>0, ReadyIsOver, PendingIsNone DEF Gather, Wave
<1>5. StepTask'
  BY <1>1, <1>0, <1>4 DEF IInv, Control, StepTask
<1>6. Waves'
  <2>1. SUFFICES ASSUME NEW s \in Steps, task'[s] \in {"new", "queued", "executing"}, NEW d \in DependsOn[s]
                 PROVE  task'[d] = "over"
    BY DEF Waves
  <2>2. s \in Wave /\ d \in Steps
    BY <1>1, <1>4, <2>1, PlanAssumption DEF Gather
  <2> QED BY <1>4, <2>1, <2>2 DEF Wave
<1>7. DepsFirst'
  BY <1>1, <1>0, <1>4, PlanAssumption DEF IInv, Control, DepsFirst
<1>8. SkipsHaveCause'
  BY <1>1, <1>0 DEF IInv, Control, SkipsHaveCause
<1>9. Outcomes'
  BY <1>1, <1>0 DEF IInv, Control, Phase, Ready, Outcomes, DoneMeansDone, MonitorAgrees, EntryTruthful, Gather,
                    outerVars, Terminal
<1>10. PermitsKept'
  <2>1. Executing' = {}
    BY <1>4 DEF Executing
  <2> QED BY <2>1, FS_EmptySet, PermitAssumption DEF PermitsKept
<1> QED BY <1>2, <1>3, <1>5, <1>6, <1>7, <1>8, <1>9, <1>10 DEF IInv, Control

(* With no failed step an ended plan has done every step.                   *)
LEMMA AllDone ==
    ASSUME IInv, Ready, \A s \in Steps : step[s] \in StepTerminal
    PROVE  /\ driver = "gathering"
           /\ ~(\E s \in Steps : step[s] = "failed") => \A s \in Steps : step[s] = "done"
           /\ (\E s \in Steps : step[s] = "failed") => ~(\A s \in Steps : step[s] = "done")
<1>1. \A s \in Steps : step[s] # "pending" /\ step[s] # "cancelled"
  BY ReadyIsOver DEF StepTerminal
<1>2. driver = "gathering"
  BY <1>1, ReadyIsOver, PlanAssumption
<1>3. \A s \in Steps : step[s] \in {"done", "failed", "skipped"}
  BY <1>1 DEF StepTerminal
<1> QED BY <1>2, <1>3 DEF IInv, Control, SkipsHaveCause

(* The end of the workflow.                                                 *)
LEMMA ConcludeIInv == IInv /\ Conclude => IInv'
<1>1. SUFFICES ASSUME IInv, Conclude PROVE IInv'
  OBVIOUS
<1>2. /\ Ready /\ ~asked /\ asked' = asked /\ step' = step /\ task' = task
      /\ driver' = "over" /\ status' = Verdict /\ monitor' = Verdict /\ entry' = entry
      /\ \A s \in Steps : step[s] \in StepTerminal
  BY <1>1 DEF Conclude, Ready, outerVars
<1>3. driver = "gathering" /\ status = "running" /\ WaveOver
  BY <1>1, <1>2, AllDone DEF IInv, Control, Phase, Ready
<1>4. Verdict \in {"done", "failed"}
  BY DEF Verdict
<1>5. TypeOK'
  BY <1>1, <1>2, <1>4 DEF IInv, Conclude, TypeOK, Terminal, outerVars
<1>6. Phase'
  BY <1>2, <1>3, <1>4 DEF Phase, Terminal, WaveOver
<1>7. StepTask' /\ Waves' /\ DepsFirst' /\ SkipsHaveCause'
  <2>1. StepTask'
    BY <1>1, <1>2 DEF IInv, Control, StepTask
  <2>2. Waves' /\ DepsFirst' /\ SkipsHaveCause'
    BY <1>1, <1>2 DEF IInv, Control, Waves, DepsFirst, SkipsHaveCause
  <2> QED BY <2>1, <2>2
<1>8. DoneMeansDone'
  BY <1>1, <1>2, AllDone DEF DoneMeansDone, Verdict
<1>9. MonitorAgrees' /\ EntryTruthful'
  BY <1>1, <1>2, <1>3 DEF IInv, Outcomes, MonitorAgrees, EntryTruthful
<1>10. PermitsKept'
  BY <1>1, <1>2 DEF IInv, PermitsKept, Executing
<1> QED BY <1>5, <1>6, <1>7, <1>8, <1>9, <1>10 DEF IInv, Control, Outcomes

(* The driver is told of the cancellation of its wave.                      *)
LEMMA InterruptedIInv == IInv /\ Interrupted => IInv'
<1>1. SUFFICES ASSUME IInv, Interrupted PROVE IInv'
  OBVIOUS
<1>2. /\ asked /\ asked' = asked /\ task' = task /\ driver = "gathering" /\ status = "running"
      /\ driver' = "over" /\ status' = "cancelled" /\ monitor' = "cancelled" /\ entry' = entry
  BY <1>1 DEF IInv, Control, Phase, Interrupted, outerVars
<1>3. \A s \in Steps : step'[s] = IF step[s] \in {"pending", "running"} THEN "cancelled" ELSE step[s]
  BY <1>1 DEF Interrupted
<1>4. TypeOK'
  BY <1>1 DEF IInv, Interrupted, TypeOK, Terminal, StepTerminal, outerVars
<1>5. Phase'
  BY <1>2 DEF Phase, Terminal
<1>6. StepTask'
  BY <1>1, <1>2, <1>3 DEF IInv, Control, StepTask
<1>7. Waves'
  BY <1>1, <1>2 DEF IInv, Control, Waves
<1>8. DepsFirst'
  BY <1>1, <1>2, <1>3, PlanAssumption DEF IInv, Control, DepsFirst
<1>9. SkipsHaveCause'
  BY <1>1, <1>3 DEF IInv, Control, SkipsHaveCause
<1>10. Outcomes'
  BY <1>1, <1>2 DEF IInv, Outcomes, DoneMeansDone, MonitorAgrees, EntryTruthful
<1>11. PermitsKept'
  BY <1>1, <1>2 DEF IInv, PermitsKept, Executing
<1> QED BY <1>4, <1>5, <1>6, <1>7, <1>8, <1>9, <1>10, <1>11 DEF IInv, Control

(* The driver never begins.                                                 *)
LEMMA VanishIInv == IInv /\ Vanish => IInv'
<1>1. SUFFICES ASSUME IInv, Vanish PROVE IInv'
  OBVIOUS
<1>2. TypeOK' /\ Outcomes'
  BY <1>1 DEF IInv, Vanish, TypeOK, Outcomes, DoneMeansDone, MonitorAgrees, EntryTruthful, outerVars
<1>3. Phase'
  BY <1>1 DEF IInv, Control, Phase, Vanish, Terminal
<1>4. StepTask' /\ Waves' /\ DepsFirst' /\ SkipsHaveCause'
  BY <1>1 DEF IInv, Control, StepTask, Waves, DepsFirst, SkipsHaveCause, Vanish
<1>5. PermitsKept'
  BY <1>1 DEF IInv, Vanish, PermitsKept, Executing
<1> QED BY <1>2, <1>3, <1>4, <1>5 DEF IInv, Control

-----------------------------------------------------------------------------

(* What every action of a step leaves alone.                                *)
LEMMA StepFrame ==
    ASSUME NEW s \in Steps, Step(s)
    PROVE  UNCHANGED <<status, driver, asked, monitor, caller, entry, canceller>>
BY DEF Step, StepBegin, StepAcquire, StepEnd, StepCancelled, outerVars

(* Permits: a set of executing steps with one more, or fewer of them.       *)
LEMMA ExecutingFinite == IsFiniteSet(Executing)
BY PlanAssumption, FS_Subset DEF Executing

LEMMA OneMore ==
    ASSUME PermitFree, NEW s \in Steps, Executing' = Executing \cup {s}
    PROVE  PermitsKept'
<1>1. IsFiniteSet(Executing) /\ Cardinality(Executing) \in Nat
  BY ExecutingFinite, FS_CardinalityType
<1>2. Cardinality(Executing \cup {s}) \in {Cardinality(Executing), Cardinality(Executing) + 1}
  BY <1>1, FS_AddElement
<1>3. Cardinality(Executing') <= MaxConcurrency
  BY <1>1, <1>2, PermitAssumption DEF PermitFree
<1> QED BY <1>3 DEF PermitsKept

LEMMA NoMore ==
    ASSUME PermitsKept, Executing' \subseteq Executing
    PROVE  PermitsKept'
<1>1. IsFiniteSet(Executing) /\ Cardinality(Executing) \in Nat
  BY ExecutingFinite, FS_CardinalityType
<1>2. Cardinality(Executing') \in Nat /\ Cardinality(Executing') <= Cardinality(Executing)
  BY <1>1, FS_Subset, FS_CardinalityType
<1>3. Cardinality(Executing') <= MaxConcurrency
  BY <1>1, <1>2, PermitAssumption DEF PermitsKept
<1> QED BY <1>3 DEF PermitsKept

(* A step is skipped because a step it depends on failed or was skipped.    *)
LEMMA SkipCause ==
    ASSUME IInv, NEW s \in Steps, task[s] = "new", ~asked, Blocked(s)
    PROVE  \E d \in DependsOn[s] : step[d] \in {"failed", "skipped"}
<1>1. PICK d \in DependsOn[s] : step[d] # "done"
  BY DEF Blocked
<1>2. d \in Steps /\ task[d] = "over"
  BY <1>1, PlanAssumption DEF IInv, Control, Waves
<1>3. step[d] \in {"done", "failed", "skipped"}
  BY <1>2 DEF IInv, Control, StepTask
<1> QED BY <1>1, <1>3

(* A step that begins does so in a workflow that runs.                      *)
LEMMA BeginsRunning ==
    ASSUME IInv, NEW s \in Steps, task[s] = "new", ~asked
    PROVE  driver = "gathering" /\ status = "running" /\ step[s] = "pending"
BY DEF IInv, TypeOK, Control, Phase, StepTask, WaveOver

(* A step that finds a dependency not done is skipped.                      *)
LEMMA SkipIInv ==
    ASSUME IInv, NEW s \in Steps, StepBegin(s), Blocked(s)
    PROVE  IInv'
<1>1. /\ task[s] = "new" /\ ~asked
      /\ step' = [step EXCEPT ![s] = "skipped"] /\ task' = [task EXCEPT ![s] = "over"]
      /\ UNCHANGED <<status, driver, asked, monitor, caller, entry, canceller>>
  BY DEF StepBegin, Skip, outerVars
<1>2. driver = "gathering" /\ status = "running" /\ step[s] = "pending"
  BY <1>1, BeginsRunning
<1>3. TypeOK'
  BY <1>1 DEF IInv, TypeOK, StepTerminal, TaskState
<1>4. Phase'
  BY <1>1, <1>2 DEF Phase
<1>5. StepTask'
  BY <1>1 DEF IInv, TypeOK, Control, StepTask
<1>6. Waves'
  BY <1>1 DEF IInv, TypeOK, Control, Waves
<1>7. DepsFirst'
  BY <1>1, <1>2, PlanAssumption DEF IInv, TypeOK, Control, DepsFirst
<1>8. SkipsHaveCause'
  <2>1. PICK d \in DependsOn[s] : step[d] \in {"failed", "skipped"}
    BY <1>1, SkipCause
  <2>2. \E t \in Steps : step[t] = "failed"
    BY <2>1, PlanAssumption DEF IInv, Control, SkipsHaveCause
  <2> QED BY <1>1, <1>2, <2>2 DEF IInv, TypeOK, SkipsHaveCause
<1>9. Outcomes'
  BY <1>1, <1>2 DEF IInv, Outcomes, DoneMeansDone, MonitorAgrees, EntryTruthful
<1>10. PermitsKept'
  <2>1. Executing' \subseteq Executing
    BY <1>1 DEF IInv, TypeOK, Executing
  <2> QED BY <2>1, NoMore DEF IInv
<1> QED BY <1>3, <1>4, <1>5, <1>6, <1>7, <1>8, <1>9, <1>10 DEF IInv, Control

(* A step with all it depends on begins, with a permit or in the queue.     *)
LEMMA BeginIInv ==
    ASSUME IInv, NEW s \in Steps, StepBegin(s), ~Blocked(s)
    PROVE  IInv'
<1>1. /\ task[s] = "new" /\ ~asked
      /\ step' = [step EXCEPT ![s] = "running"]
      /\ \/ task' = [task EXCEPT ![s] = "queued"]
         \/ PermitFree /\ task' = [task EXCEPT ![s] = "executing"]
      /\ \A d \in DependsOn[s] : step[d] = "done"
      /\ UNCHANGED <<status, driver, asked, monitor, caller, entry, canceller>>
  BY DEF StepBegin, Begin, Blocked, outerVars
<1>2. driver = "gathering" /\ status = "running" /\ step[s] = "pending"
  BY <1>1, BeginsRunning
<1>3. TypeOK'
  BY <1>1 DEF IInv, TypeOK, TaskState
<1>4. Phase'
  BY <1>1, <1>2 DEF Phase
<1>5. StepTask'
  BY <1>1 DEF IInv, TypeOK, Control, StepTask
<1>6. Waves'
  BY <1>1, PlanAssumption DEF IInv, TypeOK, Control, Waves
<1>7. DepsFirst'
  BY <1>1, <1>2, PlanAssumption DEF IInv, TypeOK, Control, DepsFirst
<1>8. SkipsHaveCause'
  BY <1>1, <1>2 DEF IInv, TypeOK, Control, SkipsHaveCause
<1>9. Outcomes'
  BY <1>1, <1>2 DEF IInv, Outcomes, DoneMeansDone, MonitorAgrees, EntryTruthful
<1>10. PermitsKept'
  <2>1. CASE task' = [task EXCEPT ![s] = "queued"]
    <3>1. Executing' \subseteq Executing
      BY <2>1 DEF IInv, TypeOK, Executing
    <3> QED BY <3>1, NoMore DEF IInv
  <2>2. CASE PermitFree /\ task' = [task EXCEPT ![s] = "executing"]
    <3>1. Executing' = Executing \cup {s}
      BY <2>2 DEF IInv, TypeOK, Executing
    <3> QED BY <2>2, <3>1, OneMore
  <2> QED BY <1>1, <2>1, <2>2
<1> QED BY <1>3, <1>4, <1>5, <1>6, <1>7, <1>8, <1>9, <1>10 DEF IInv, Control

(* A queued step gets its permit.                                           *)
LEMMA AcquireIInv ==
    ASSUME IInv, NEW s \in Steps, StepAcquire(s)
    PROVE  IInv'
<1>1. /\ task[s] = "queued" /\ ~asked /\ PermitFree
      /\ step' = step /\ task' = [task EXCEPT ![s] = "executing"]
      /\ UNCHANGED <<status, driver, asked, monitor, caller, entry, canceller>>
  BY DEF StepAcquire, outerVars
<1>2. TypeOK'
  BY <1>1 DEF IInv, TypeOK, TaskState
<1>3. Phase'
  BY <1>1 DEF IInv, TypeOK, Control, Phase, WaveOver
<1>4. StepTask'
  BY <1>1 DEF IInv, TypeOK, Control, StepTask
<1>5. Waves' /\ DepsFirst' /\ SkipsHaveCause'
  BY <1>1 DEF IInv, TypeOK, Control, Waves, DepsFirst, SkipsHaveCause
<1>6. Outcomes'
  BY <1>1 DEF IInv, Outcomes, DoneMeansDone, MonitorAgrees, EntryTruthful
<1>7. PermitsKept'
  <2>1. Executing' = Executing \cup {s}
    BY <1>1 DEF IInv, TypeOK, Executing
  <2> QED BY <1>1, <2>1, OneMore
<1> QED BY <1>2, <1>3, <1>4, <1>5, <1>6, <1>7 DEF IInv, Control

(* The agent of a step answers or fails, in time or late.                   *)
LEMMA EndIInv ==
    ASSUME IInv, NEW s \in Steps, StepEnd(s)
    PROVE  IInv'
<1>1. PICK r \in {"done", "failed"} : step' = [step EXCEPT ![s] = r]
  BY DEF StepEnd
<1>2. /\ task[s] = "executing" /\ task' = [task EXCEPT ![s] = "over"]
      /\ UNCHANGED <<status, driver, asked, monitor, caller, entry, canceller>>
  BY DEF StepEnd, outerVars
<1>3. step[s] \in {"running", "cancelled"} /\ \A d \in DependsOn[s] : step[d] = "done"
  BY <1>2 DEF IInv, Control, StepTask, DepsFirst
<1>4. TypeOK'
  BY <1>1, <1>2 DEF IInv, TypeOK, TaskState, StepTerminal
<1>5. Phase'
  BY <1>1, <1>2 DEF IInv, TypeOK, Control, Phase, WaveOver
<1>6. StepTask'
  BY <1>1, <1>2 DEF IInv, TypeOK, Control, StepTask
<1>7. Waves'
  BY <1>1, <1>2 DEF IInv, TypeOK, Control, Waves
<1>8. DepsFirst'
  BY <1>1, <1>2, <1>3, PlanAssumption DEF IInv, TypeOK, Control, DepsFirst
<1>9. SkipsHaveCause'
  BY <1>1, <1>2, <1>3 DEF IInv, TypeOK, Control, SkipsHaveCause
<1>10. Outcomes'
  BY <1>1, <1>2, <1>3 DEF IInv, Outcomes, DoneMeansDone, MonitorAgrees, EntryTruthful
<1>11. PermitsKept'
  <2>1. Executing' \subseteq Executing
    BY <1>2 DEF IInv, TypeOK, Executing
  <2> QED BY <2>1, NoMore DEF IInv
<1> QED BY <1>4, <1>5, <1>6, <1>7, <1>8, <1>9, <1>10, <1>11 DEF IInv, Control

(* The cancellation reaches a step.                                         *)
LEMMA CancelledIInv ==
    ASSUME IInv, NEW s \in Steps, StepCancelled(s)
    PROVE  IInv'
<1>1. /\ asked /\ task[s] \in {"new", "queued", "executing"}
      /\ \/ task[s] = "executing" /\ step' = [step EXCEPT ![s] = "cancelled"]
         \/ task[s] # "executing" /\ step' = step
      /\ task' = [task EXCEPT ![s] = "cancelled"]
      /\ UNCHANGED <<status, driver, asked, monitor, caller, entry, canceller>>
  BY DEF StepCancelled, outerVars
<1>2. /\ task[s] = "executing" => step[s] \in {"running", "cancelled"}
      /\ step[s] \in {"pending", "running", "cancelled"}
  BY <1>1 DEF IInv, Control, StepTask
<1>3. TypeOK'
  BY <1>1 DEF IInv, TypeOK, TaskState, StepTerminal
<1>4. Phase'
  BY <1>1 DEF IInv, TypeOK, Control, Phase, WaveOver
<1>5. StepTask'
  BY <1>1, <1>2 DEF IInv, TypeOK, Control, StepTask
<1>6. Waves'
  BY <1>1 DEF IInv, TypeOK, Control, Waves
<1>7. DepsFirst'
  BY <1>1, <1>2, PlanAssumption DEF IInv, TypeOK, Control, DepsFirst
<1>8. SkipsHaveCause'
  BY <1>1, <1>2 DEF IInv, TypeOK, Control, SkipsHaveCause
<1>9. Outcomes'
  BY <1>1, <1>2 DEF IInv, Outcomes, DoneMeansDone, MonitorAgrees, EntryTruthful
<1>10. PermitsKept'
  <2>1. Executing' \subseteq Executing
    BY <1>1 DEF IInv, TypeOK, Executing
  <2> QED BY <2>1, NoMore DEF IInv
<1> QED BY <1>3, <1>4, <1>5, <1>6, <1>7, <1>8, <1>9, <1>10 DEF IInv, Control

-----------------------------------------------------------------------------

(* Every step of the specification preserves the invariant.                 *)
LEMMA StepIInv == IInv /\ [Next]_vars => IInv'
<1>1. SUFFICES ASSUME IInv, [Next]_vars PROVE IInv'
  OBVIOUS
<1>2. CASE Driver
  BY <1>1, <1>2, GatherIInv, ConcludeIInv, InterruptedIInv, VanishIInv DEF Driver
<1>3. ASSUME NEW s \in Steps, Step(s) PROVE IInv'
  BY <1>1, <1>3, SkipIInv, BeginIInv, AcquireIInv, EndIInv, CancelledIInv DEF Step
<1>4. CASE Cancel \/ Caller
  BY <1>1, <1>4, OutsideIsOuter, OuterIInv
<1>5. CASE UNCHANGED vars
  <2>1. Outer
    BY <1>1, <1>5 DEF vars, execVars, outerVars, Outer, IInv, TypeOK
  <2> QED BY <1>1, <2>1, OuterIInv
<1> QED BY <1>1, <1>2, <1>3, <1>4, <1>5 DEF Next

(* The invariant holds throughout.                                          *)
THEOREM Invariance == Spec => []IInv
BY InitIInv, StepIInv, PTL DEF Spec

(* Every variable keeps its type, for any plan and number of permits.       *)
THEOREM TypeCorrect == Spec => []TypeOK
<1>1. IInv => TypeOK
  BY DEF IInv
<1> QED BY <1>1, Invariance, PTL

(* No more agents work at once than there are permits (_run_step's          *)
(* semaphore), the unwinding ones included.                                 *)
THEOREM PermitsAreKept == Spec => []PermitsKept
<1>1. IInv => PermitsKept
  BY DEF IInv
<1> QED BY <1>1, Invariance, PTL

(* A workflow is reported done only when each of its steps is, though       *)
(* _run_workflow looks for failed steps only.                               *)
THEOREM DoneIsDone == Spec => []DoneMeansDone
<1>1. IInv => DoneMeansDone
  BY DEF IInv, Outcomes
<1> QED BY <1>1, Invariance, PTL

(* The task monitor and the workflow never disagree on how it ended.        *)
THEOREM MonitorIsRight == Spec => []MonitorAgrees
<1>1. IInv => MonitorAgrees
  BY DEF IInv, Outcomes
<1> QED BY <1>1, Invariance, PTL

(* Run control's "done" and "failed" are the workflow's.                    *)
THEOREM EntryIsRight == Spec => []EntryTruthful
<1>1. IInv => EntryTruthful
  BY DEF IInv, Outcomes
<1> QED BY <1>1, Invariance, PTL

-----------------------------------------------------------------------------

(* The first wave starts the workflow of the contract; later ones stutter.  *)
LEMMA GatherRefines == IInv /\ Gather => Contract!Start \/ UNCHANGED Contract!vars
<1>1. SUFFICES ASSUME IInv, Gather PROVE Contract!Start \/ UNCHANGED Contract!vars
  OBVIOUS
<1>2. status \in {"pending", "running"} /\ ~asked /\ asked' = asked /\ step' = step /\ status' = "running"
  BY <1>1 DEF IInv, Control, Phase, Gather, Ready
<1> QED BY <1>2 DEF Contract!Start, Contract!vars

(* The driver's verdict is the contract's.                                  *)
LEMMA ConcludeRefines == IInv /\ Conclude => Contract!Conclude
<1>1. SUFFICES ASSUME IInv, Conclude PROVE Contract!Conclude
  OBVIOUS
<1>2. /\ Ready /\ ~asked /\ asked' = asked /\ step' = step /\ status' = Verdict
      /\ \A s \in Steps : step[s] \in StepTerminal
  BY <1>1 DEF Conclude, Ready
<1>3. status = "running"
  BY <1>1, <1>2, AllDone DEF IInv, Control, Phase
<1>4. Verdict = IF \A s \in Steps : step[s] = "done" THEN "done" ELSE "failed"
  BY <1>1, <1>2, AllDone DEF Verdict
<1> QED BY <1>2, <1>3, <1>4 DEF Contract!Conclude, Contract!StepTerminal, StepTerminal

(* Ending its wave, the driver aborts the workflow of the contract.         *)
LEMMA InterruptedRefines == IInv /\ Interrupted => Contract!Abort
BY DEF IInv, Control, Phase, Interrupted, Contract!Abort

(* A step that begins, is skipped, ends or is cancelled does so in the      *)
(* contract; after the end of the workflow it may only finish late.         *)
LEMMA StepRefines ==
    ASSUME IInv, NEW s \in Steps, Step(s)
    PROVE  Contract!Next \/ UNCHANGED Contract!vars
<1>1. UNCHANGED <<status, asked>>
  BY StepFrame
<1>2. CASE StepBegin(s)
  <2>1. status = "running" /\ ~asked /\ step[s] = "pending"
    BY <1>2, BeginsRunning DEF StepBegin
  <2>2. CASE Blocked(s)
    <3>1. step' = [step EXCEPT ![s] = "skipped"]
      BY <1>2, <2>2 DEF StepBegin, Skip
    <3>2. \E d \in DependsOn[s] : step[d] \in {"failed", "skipped"}
      BY <1>2, <2>2, SkipCause DEF StepBegin
    <3>3. Contract!Skip(s)
      BY <1>1, <2>1, <3>1, <3>2 DEF Contract!Skip
    <3> QED BY <3>3 DEF Contract!Next, Contract!Progress
  <2>3. CASE ~Blocked(s)
    <3>1. Contract!Begin(s)
      BY <1>1, <1>2, <2>1, <2>3 DEF StepBegin, Begin, Blocked, Contract!Begin
    <3> QED BY <3>1 DEF Contract!Next, Contract!Progress
  <2> QED BY <2>2, <2>3
<1>3. CASE StepAcquire(s)
  BY <1>1, <1>3 DEF StepAcquire, Contract!vars
<1>4. CASE StepEnd(s)
  <2>1. /\ \E r \in {"done", "failed"} : step' = [step EXCEPT ![s] = r]
        /\ task[s] = "executing"
    BY <1>4 DEF StepEnd
  <2>2. /\ \A d \in DependsOn[s] : step[d] = "done"
        /\ step[s] = "running" \/ (step[s] = "cancelled" /\ status = "cancelled")
    BY <2>1 DEF IInv, Control, StepTask, DepsFirst
  <2>3. Contract!End(s) \/ Contract!Late(s)
    BY <1>1, <2>1, <2>2 DEF Contract!End, Contract!Late
  <2> QED BY <2>3 DEF Contract!Next, Contract!Progress
<1>5. CASE StepCancelled(s)
  <2>1. CASE task[s] = "executing" /\ step[s] = "running"
    <3>1. Contract!CancelStep(s)
      BY <1>1, <1>5, <2>1 DEF StepCancelled, Contract!CancelStep
    <3> QED BY <3>1 DEF Contract!Next, Contract!Progress
  <2>2. CASE ~(task[s] = "executing" /\ step[s] = "running")
    <3>1. step' = step
      BY <1>5, <2>2 DEF IInv, TypeOK, Control, StepTask, StepCancelled
    <3> QED BY <1>1, <3>1 DEF Contract!vars
  <2> QED BY <2>1, <2>2
<1> QED BY <1>2, <1>3, <1>4, <1>5 DEF Step

(* A cancellation asks in the contract, or is no news to it.                *)
LEMMA OutsideRefines == IInv /\ Outer => Contract!Ask \/ UNCHANGED Contract!vars
BY DEF IInv, TypeOK, Control, Phase, Outer, Contract!Ask, Contract!Terminal, Contract!vars

(* Every step of the tasks is a step of the contract or leaves it alone.    *)
LEMMA NextRefines == IInv /\ [Next]_vars => [Contract!Next]_Contract!vars
<1>1. SUFFICES ASSUME IInv, [Next]_vars PROVE Contract!Next \/ UNCHANGED Contract!vars
  OBVIOUS
<1>2. CASE Gather
  BY <1>1, <1>2, GatherRefines DEF Contract!Next, Contract!Progress
<1>3. CASE Conclude
  BY <1>1, <1>3, ConcludeRefines DEF Contract!Next, Contract!Progress
<1>4. CASE Interrupted
  BY <1>1, <1>4, InterruptedRefines DEF Contract!Next, Contract!Progress
<1>5. CASE Vanish
  BY <1>5 DEF Vanish, Contract!vars
<1>6. ASSUME NEW s \in Steps, Step(s) PROVE Contract!Next \/ UNCHANGED Contract!vars
  BY <1>1, <1>6, StepRefines
<1>7. CASE Cancel \/ Caller
  BY <1>1, <1>7, OutsideIsOuter, OutsideRefines DEF Contract!Next
<1>8. CASE UNCHANGED vars
  BY <1>8 DEF vars, execVars, Contract!vars
<1> QED BY <1>1, <1>2, <1>3, <1>4, <1>5, <1>6, <1>7, <1>8 DEF Next, Driver

(* The tasks implement the contract's safety part: dependencies first,      *)
(* skips with a cause, the outcome, nothing begun after a cancellation.     *)
THEOREM ImplementsSafety == Spec => Contract!Safety
<1>1. Init => Contract!Init
  BY DEF Init, Contract!Init
<1> QED BY <1>1, Invariance, NextRefines, PTL DEF Spec, Contract!Safety
=============================================================================
