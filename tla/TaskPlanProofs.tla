---------------------------- MODULE TaskPlanProofs ----------------------------
(***************************************************************************)
(* Proofs about TaskPlan: for plans of any steps, of any kinds and any      *)
(* gates, and under every order of requests, nothing that needs             *)
(* confirmation executes without it, the statuses in the store agree with   *)
(* what the executor does, and the plan implements GatedPlan.               *)
(***************************************************************************)
EXTENDS TaskPlan, SequenceTheorems, TLAPS

(* Before create_plan there is nothing.                                     *)
NothingBeforeCreate ==
    plan = "none" => exec = "none" /\ \A s \in Steps : status[s] = "unused"

(* A step with a status is in the list.                                     *)
Listed == \A s \in Steps : status[s] # "unused" => \E i \in 1..Len(steps) : steps[i] = s

(* The executor of a plan that can still be resumed is registered, so that  *)
(* a resume finds it instead of starting a second one.                      *)
ExecutorKnown == exec # "none" => registered \/ plan \in {"cancelled", "failed", "gone"}

(* What executes is a step of the plan.                                     *)
ExecutesCurrent ==
    exec \in {"sim", "agent"} => current \in Steps /\ status[current] # "unused"

(* The inductive invariant.                                                 *)
IInv ==
    /\ TypeOK
    /\ NothingBeforeCreate /\ Listed
    /\ ExecutorKnown /\ ExecutesCurrent
    /\ RiskGate
    /\ RunningStepHasExecutor /\ WorkingStepIsRunning
    /\ NoPendingWhenDone

------------------------------------------------------------------------------
(* The list of steps.                                                       *)

(* What InsertAt is.                                                        *)
LEMMA InsertIsConcat ==
  ASSUME NEW l, NEW i, NEW s
  PROVE  InsertAt(l, i, s) = (SubSeq(l, 1, i - 1) \o <<s>>) \o SubSeq(l, i, Len(l))
  BY DEF InsertAt

(* Insertion keeps a sequence of steps, puts the new one in and loses none. *)
LEMMA InsertLists ==
  ASSUME NEW l \in Seq(Steps), NEW i \in 1..Len(l), NEW s \in Steps
  PROVE  LET m == InsertAt(l, i + 1, s) IN
         /\ m \in Seq(Steps)
         /\ Len(m) = Len(l) + 1
         /\ m[i + 1] = s
         /\ \A j \in 1..Len(l) : m[IF j <= i THEN j ELSE j + 1] = l[j]
  <1> DEFINE a == SubSeq(l, 1, i)
             b == SubSeq(l, i + 1, Len(l))
             m == InsertAt(l, i + 1, s)
  <1>1. a \in Seq(Steps) /\ Len(a) = i /\ \A j \in 1..i : a[j] = l[j]
    OBVIOUS
  <1>2. /\ b \in Seq(Steps) /\ Len(b) = Len(l) - i
        /\ \A j \in 1..(Len(l) - i) : b[j] = l[i + j]
    OBVIOUS
  <1>3. m = (a \o <<s>>) \o b
    <2> DEFINE k == i + 1
    <2>1. i = k - 1
      OBVIOUS
    <2> HIDE DEF k
    <2>2. InsertAt(l, k, s) = (SubSeq(l, 1, i) \o <<s>>) \o SubSeq(l, k, Len(l))
      BY ONLY <2>1, InsertIsConcat
    <2> QED BY ONLY <2>2 DEF k, m, a, b
  <1> HIDE DEF a, b, m
  <1>4. a \o <<s>> = Append(a, s)
    BY <1>1
  <1>5. /\ a \o <<s>> \in Seq(Steps) /\ Len(a \o <<s>>) = i + 1
        /\ (a \o <<s>>)[i + 1] = s
        /\ \A j \in 1..i : (a \o <<s>>)[j] = l[j]
    BY <1>1, <1>4
  <1>6. /\ m \in Seq(Steps)
        /\ Len(m) = i + 1 + (Len(l) - i)
        /\ \A j \in 1..(i + 1 + (Len(l) - i)) :
               m[j] = IF j <= i + 1 THEN (a \o <<s>>)[j] ELSE b[j - (i + 1)]
    <2> DEFINE c == a \o <<s>>
    <2>1. c \in Seq(Steps) /\ Len(c) = i + 1 /\ m = c \o b
      BY <1>3, <1>5
    <2> HIDE DEF c
    <2>2. b \in Seq(Steps) /\ Len(b) = Len(l) - i
      BY <1>2
    <2>3. /\ m \in Seq(Steps)
          /\ Len(m) = Len(c) + Len(b)
          /\ \A j \in 1..(Len(c) + Len(b)) :
                 m[j] = IF j <= Len(c) THEN c[j] ELSE b[j - Len(c)]
      BY ONLY ConcatProperties, <2>1, <2>2
    <2> QED BY <2>1, <2>2, <2>3 DEF c
  <1>7. Len(m) = Len(l) + 1
    BY <1>6
  <1>10. m[i + 1] = s
    BY <1>5, <1>6
  <1>11. \A j \in 1..i : m[j] = l[j]
    BY <1>5, <1>6
  <1>8. ASSUME NEW j \in (i + 1)..Len(l) PROVE m[j + 1] = l[j]
    <2>1. j + 1 - (i + 1) = j - i /\ j - i \in 1..(Len(l) - i) /\ i + (j - i) = j
      OBVIOUS
    <2>2. j + 1 \in 1..(i + 1 + (Len(l) - i)) /\ ~(j + 1 <= i + 1)
      OBVIOUS
    <2>3. m[j + 1] = b[j - i]
      BY <1>6, <2>1, <2>2
    <2> QED BY <1>2, <2>1, <2>3
  <1>9. \A j \in 1..Len(l) : m[IF j <= i THEN j ELSE j + 1] = l[j]
    BY <1>8, <1>11
  <1> QED BY <1>6, <1>7, <1>9, <1>10 DEF m

(* add_step, in both forms, keeps the listed steps and lists the new one.   *)
LEMMA AddListed ==
  ASSUME TypeOK, NEW s \in Steps, NEW after \in Steps \cup {NoStep}, AddStep(s, after)
  PROVE  /\ steps' \in Seq(Steps)
         /\ \E i \in 1..Len(steps') : steps'[i] = s
         /\ \A j \in 1..Len(steps) : \E i \in 1..Len(steps') : steps'[i] = steps[j]
  <1>1. steps \in Seq(Steps)
    BY DEF TypeOK
  <1>2. ASSUME steps' = Append(steps, s)
        PROVE  /\ steps' \in Seq(Steps)
               /\ Len(steps') = Len(steps) + 1
               /\ steps'[Len(steps) + 1] = s
               /\ \A j \in 1..Len(steps) : steps'[j] = steps[j]
    BY <1>1, <1>2
  <1>3. ASSUME steps' = Append(steps, s)
        PROVE  /\ steps' \in Seq(Steps)
               /\ \E i \in 1..Len(steps') : steps'[i] = s
               /\ \A j \in 1..Len(steps) : \E i \in 1..Len(steps') : steps'[i] = steps[j]
    BY <1>1, <1>2, <1>3
  <1>4. ASSUME NEW i \in 1..Len(steps), steps' = InsertAt(steps, i + 1, s)
        PROVE  /\ steps' \in Seq(Steps)
               /\ \E j \in 1..Len(steps') : steps'[j] = s
               /\ \A j \in 1..Len(steps) : \E n \in 1..Len(steps') : steps'[n] = steps[j]
    <2>1. /\ steps' \in Seq(Steps)
          /\ Len(steps') = Len(steps) + 1
          /\ steps'[i + 1] = s
          /\ \A j \in 1..Len(steps) : steps'[IF j <= i THEN j ELSE j + 1] = steps[j]
      BY <1>1, <1>4, InsertLists
    <2>2. Len(steps) \in Nat
      BY <1>1
    <2> HIDE <1>4
    <2>3. ASSUME NEW j \in 1..Len(steps)
          PROVE  \E n \in 1..Len(steps') : steps'[n] = steps[j]
      <3>1. (IF j <= i THEN j ELSE j + 1) \in 1..Len(steps')
        BY <2>1, <2>2
      <3> QED BY <2>1, <3>1
    <2>4. i + 1 \in 1..Len(steps')
      BY <2>1, <2>2
    <2> QED BY <2>1, <2>3, <2>4
  <1> QED BY <1>3, <1>4 DEF AddStep

------------------------------------------------------------------------------
(* What the steps do.                                                       *)

(* A cancelled plan has no open step left.                                  *)
LEMMA StoreCancelEffect ==
  ASSUME TypeOK, StoreCancel
  PROVE  /\ plan' \in PlanState /\ status' \in [Steps -> StepState]
         /\ Exists => plan' = "cancelled"
         /\ ~Exists => UNCHANGED <<plan, status>>
         /\ \A s \in Steps : /\ status'[s] = "unused" <=> status[s] = "unused"
                             /\ Exists => status'[s] \notin StepOpen
  BY DEF TypeOK, StoreCancel, Exists, PlanState, PlanTerminal, StepState, PlanStepStatus,
         StepOpen

(* History keeps its types.                                                 *)
LEMMA HistoryType ==
  ASSUME TypeOK, Overwrites
  PROVE  edited' \in SUBSET Steps /\ withdrawn' \in BOOLEAN
  BY DEF TypeOK, Overwrites

(* Every step keeps the types.                                              *)
LEMMA TypeStep ==
  ASSUME TypeOK, Next
  PROVE  TypeOK'
  <1> USE DEF TypeOK, storeVars, execVars, PlanState, PlanTerminal, StepState, StepOpen,
              PlanStepStatus
  <1>1. ASSUME Requests, Overwrites, UNCHANGED edits PROVE TypeOK'
    <2>1. edited' \in SUBSET Steps /\ withdrawn' \in BOOLEAN /\ edits' \in 0..MaxEdits
      BY <1>1, HistoryType
    <2>2. CASE Create \/ Evict \/ Pause
      BY <2>1, <2>2 DEF Create, Evict, Pause
    <2>3. ASSUME NEW s \in Steps, NEW after \in Steps \cup {NoStep}, AddStep(s, after)
          PROVE  TypeOK'
      <3>1. steps' \in Seq(Steps)
        BY <2>3, AddListed
      <3>2. /\ status' = [status EXCEPT ![s] = "pending"]
            /\ gated' \in SUBSET Steps /\ confirmed' \in SUBSET Steps
        BY <2>3 DEF AddStep
      <3>3. UNCHANGED <<plan, planConfirmed, current, exec, registered, canceller>>
        BY <2>3 DEF AddStep
      <3> QED BY <2>1, <3>1, <3>2, <3>3
    <2>4. CASE Start
      BY <2>1, <2>4 DEF Start, Spawn
    <2>5. CASE Resume
      BY <2>1, <2>5 DEF Resume, Spawn
    <2>6. CASE CancelBegin
      BY <2>1, <2>6 DEF CancelBegin
    <2>7. CASE CancelNow \/ CancelEnd
      BY <2>1, <2>7, StoreCancelEffect DEF CancelNow, CancelEnd
    <2> QED BY <1>1, <2>2, <2>3, <2>4, <2>5, <2>6, <2>7 DEF Requests
  <1>2. ASSUME NEW s \in Steps, NEW v \in PlanStepStatus, EditStep(s, v)
        PROVE  TypeOK'
    <2>1. edits' \in 0..MaxEdits
      BY <1>2, EditsAssumption DEF EditStep
    <2>2. edited' \in SUBSET Steps /\ withdrawn' \in BOOLEAN
      BY <1>2 DEF EditStep
    <2>3. /\ status' = [status EXCEPT ![s] = v]
          /\ gated' \in SUBSET Steps /\ confirmed' \in SUBSET Steps
          /\ UNCHANGED <<plan, steps, planConfirmed, current, exec, registered, canceller>>
      BY <1>2 DEF EditStep
    <2> QED BY <2>1, <2>2, <2>3
  <1>3. ASSUME Executor PROVE TypeOK'
    <2>1. edited' \in SUBSET Steps /\ withdrawn' \in BOOLEAN /\ edits' \in 0..MaxEdits
      BY <1>3, HistoryType DEF Executor
    <2>2. CASE Cancelled
      BY <2>1, <2>2, StoreCancelEffect DEF Cancelled, Leave
    <2>3. CASE StopAtHead \/ Poll \/ Finish \/ StepLost \/ Aborted
      BY <2>1, <2>3 DEF StopAtHead, Poll, Finish, StepLost, Aborted, Leave
    <2>4. ASSUME NEW s \in Steps, BeginStep(s) PROVE TypeOK'
      BY <2>1, <2>4 DEF BeginStep, Park
    <2>5. ASSUME NEW s \in Steps, NoRunner(s) PROVE TypeOK'
      BY <2>1, <2>5 DEF NoRunner, FailStep, Leave
    <2>6. CASE CompleteStep \/ AgentFails
      BY <2>1, <2>6 DEF CompleteStep, AgentFails, FailStep, Leave
    <2> QED BY <1>3, <2>2, <2>3, <2>4, <2>5, <2>6 DEF Executor, ExecutorSteps
  <1> QED BY <1>1, <1>2, <1>3 DEF Next, Edits

(* Every step keeps what is known of a plan before its creation, and every  *)
(* step with a status in the list.                                          *)
LEMMA RecordStep ==
  ASSUME TypeOK, NothingBeforeCreate, Listed, ExecutesCurrent, Next
  PROVE  NothingBeforeCreate' /\ Listed'
  <1> USE DEF TypeOK, NothingBeforeCreate, Listed, storeVars, execVars, Exists
  <1>1. ASSUME NEW s \in Steps, NEW after \in Steps \cup {NoStep}, AddStep(s, after)
        PROVE  NothingBeforeCreate' /\ Listed'
    <2>1. /\ \E i \in 1..Len(steps') : steps'[i] = s
          /\ \A j \in 1..Len(steps) : \E i \in 1..Len(steps') : steps'[i] = steps[j]
      BY <1>1, AddListed
    <2>2. status' = [status EXCEPT ![s] = "pending"] /\ plan' = plan /\ plan # "none"
      BY <1>1 DEF AddStep
    <2> QED BY <2>1, <2>2
  <1>2. CASE Create \/ Evict \/ Pause \/ Start \/ Resume \/ CancelBegin
    BY <1>2 DEF Create, Evict, Pause, Start, Resume, CancelBegin, Spawn
  <1>3. ASSUME NEW s \in Steps, NEW v \in PlanStepStatus, EditStep(s, v)
        PROVE  NothingBeforeCreate' /\ Listed'
    BY <1>3 DEF EditStep
  <1>4. CASE CancelNow \/ CancelEnd \/ Cancelled
    <2>1. plan' = "none" => plan = "none" /\ UNCHANGED status
      BY <1>4, StoreCancelEffect DEF CancelNow, CancelEnd, Cancelled
    <2>2. steps' = steps /\ (exec = "none" => exec' = "none")
      BY <1>4 DEF CancelNow, CancelEnd, Cancelled, Leave
    <2>3. \A s \in Steps : status'[s] = "unused" <=> status[s] = "unused"
      BY <1>4, StoreCancelEffect DEF CancelNow, CancelEnd, Cancelled
    <2> QED BY <2>1, <2>2, <2>3
  <1>5. CASE StopAtHead \/ Poll \/ Finish \/ StepLost \/ Aborted
    BY <1>5 DEF StopAtHead, Poll, Finish, StepLost, Aborted, Leave
  <1>6. ASSUME NEW s \in Steps, BeginStep(s) \/ NoRunner(s)
        PROVE  NothingBeforeCreate' /\ Listed'
    <2>1. \E i \in 1..Len(steps) : steps[i] = s
      BY <1>6 DEF BeginStep, NoRunner, NextUp, Eligible
    <2>2. steps' = steps /\ plan' # "none" /\ \A t \in Steps : t # s => status'[t] = status[t]
      BY <1>6 DEF BeginStep, NoRunner, Park, FailStep
    <2> QED BY <2>1, <2>2
  <1>7. CASE CompleteStep \/ AgentFails
    <2>1. /\ exec # "none" /\ steps' = steps /\ plan' # "none" /\ plan # "none"
          /\ \A t \in Steps : t # current => status'[t] = status[t]
          /\ current \in Steps /\ status[current] # "unused"
      BY <1>7 DEF CompleteStep, GoesOn, AgentFails, FailStep, ExecutesCurrent
    <2> QED BY <2>1
  <1> QED
    BY <1>1, <1>2, <1>3, <1>4, <1>5, <1>6, <1>7
    DEF Next, Requests, Edits, Executor, ExecutorSteps

------------------------------------------------------------------------------
(* The agreement of store and executor.                                     *)

Agreement ==
    /\ ExecutorKnown /\ ExecutesCurrent
    /\ RiskGate
    /\ RunningStepHasExecutor /\ WorkingStepIsRunning
    /\ NoPendingWhenDone

(* The executor works while it executes, and on nothing else.               *)
LEMMA WorkingIsCurrent ==
  ASSUME ExecutesCurrent
  PROVE  /\ exec \in {"sim", "agent"} => Working = current /\ Working \in Steps
         /\ exec \notin {"sim", "agent"} => Working = NoStep
         /\ Working # NoStep <=> exec \in {"sim", "agent"}
  BY NoStepAssumption DEF ExecutesCurrent, Working

(* What a status still shows after a step of the code is the client's only  *)
(* if it was.                                                               *)
LEMMA HistoryStep ==
  ASSUME TypeOK, Overwrites
  PROVE  /\ \A s \in Steps : s \notin edited' => s \notin edited \/ status'[s] # status[s]
         /\ ~withdrawn' => ~withdrawn \/ Working' # Working
  BY DEF TypeOK, Overwrites

(* A client's edit of any step, at any time and to any status.              *)
LEMMA EditAgreement ==
  ASSUME TypeOK, NothingBeforeCreate, Agreement,
         NEW s \in Steps, NEW v \in PlanStepStatus, EditStep(s, v)
  PROVE  Agreement'
  <1>1. /\ status'[s] = v /\ v # "unused"
        /\ \A t \in Steps : t # s => status'[t] = status[t]
        /\ UNCHANGED <<plan, planConfirmed, current, exec, registered>>
    BY DEF TypeOK, EditStep, PlanStepStatus, StepOpen, execVars
  <1>2. Working' = Working
    BY <1>1 DEF Working
  <1>3. \A t \in Steps : t \notin edited' => t \notin edited /\ status'[t] = status[t]
    BY <1>1 DEF EditStep
  <1>4. ExecutorKnown' /\ ExecutesCurrent'
    BY <1>1 DEF Agreement, ExecutorKnown, ExecutesCurrent
  <1>5. RiskGate'
    <2>1. NeedsConfirmation' => exec' = "none"
      BY <1>1 DEF Agreement, RiskGate, NeedsConfirmation
    <2>2. ASSUME Working # NoStep, ~withdrawn' PROVE Working \notin gated' \ confirmed'
      <3>1. ~withdrawn /\ ~(s = Working /\ s \in gated' \ confirmed')
        BY <2>2 DEF EditStep
      <3>2. Working \notin gated \ confirmed
        BY <2>2, <3>1 DEF Agreement, RiskGate, StepNeedsConfirmation
      <3>3. \A t : t # s => (t \in gated' \ confirmed' <=> t \in gated \ confirmed)
        BY DEF EditStep
      <3> QED BY <3>1, <3>2, <3>3
    <2> QED BY <1>2, <2>1, <2>2 DEF RiskGate, StepNeedsConfirmation
  <1>6. RunningStepHasExecutor' /\ NoPendingWhenDone'
    BY <1>1, <1>2, <1>3 DEF Agreement, RunningStepHasExecutor, NoPendingWhenDone, Exists
  <1>7. WorkingStepIsRunning'
    <2>1. Working # NoStep => Working \in Steps
      BY WorkingIsCurrent DEF Agreement
    <2> QED BY <1>1, <1>2, <1>3, <2>1 DEF Agreement, WorkingStepIsRunning
  <1> QED BY <1>4, <1>5, <1>6, <1>7 DEF Agreement

(* What a step of the code has to show of the store and of the step in      *)
(* execution: no confirmation is asked for what executes, what begins has   *)
(* it, and what is shown as running, or left pending, was so before or is   *)
(* so rightly.                                                              *)
StoreTells ==
    /\ NeedsConfirmation' => exec' = "none"
    /\ Working' # NoStep =>
        (Working' \in gated' \ confirmed' => Working' = Working /\ Working \in gated \ confirmed)
    /\ \A s \in Steps : Exists' /\ status'[s] = "running" =>
        s = Working' \/ (Exists /\ s # Working /\ status[s] = "running")
    /\ plan' \in {"running", "waiting"} /\ Working' # NoStep =>
        \/ status'[Working'] = "running"
        \/ /\ plan \in {"running", "waiting"} /\ Working' = Working
           /\ status'[Working] = status[Working]
    /\ \A s \in Steps : plan' = "done" /\ status'[s] = "pending" =>
        plan = "done" /\ status[s] = "pending"

(* A step of the code that shows this keeps the agreement.                  *)
LEMMA CodeAgreement ==
  ASSUME TypeOK, Agreement, Overwrites, ExecutorKnown', ExecutesCurrent', StoreTells
  PROVE  Agreement'
  <1>1. RiskGate'
    BY HistoryStep DEF Agreement, RiskGate, StoreTells, StepNeedsConfirmation
  <1>2. RunningStepHasExecutor'
    BY HistoryStep DEF Agreement, RunningStepHasExecutor, StoreTells
  <1>3. WorkingStepIsRunning'
    <2>1. Working' # NoStep => Working' \in Steps
      BY DEF ExecutesCurrent, Working
    <2> QED BY <2>1, HistoryStep DEF Agreement, WorkingStepIsRunning, StoreTells
  <1>4. NoPendingWhenDone'
    BY HistoryStep DEF Agreement, NoPendingWhenDone, StoreTells
  <1> QED BY <1>1, <1>2, <1>3, <1>4 DEF Agreement

(* While the same step executes and no status is written, there is only the *)
(* plan to look at.                                                         *)
LEMMA NothingWritten ==
  ASSUME Agreement,
         UNCHANGED <<status, gated, Working>>, confirmed \subseteq confirmed',
         NeedsConfirmation' => exec' = "none",
         Exists' => Exists,
         plan' \in {"running", "waiting"} => plan \in {"running", "waiting"} \/ Working = NoStep,
         plan' = "done" => plan = "done"
  PROVE  StoreTells
  BY DEF Agreement, StoreTells

(* Requests that only write the store.                                      *)
LEMMA StoreAgreement ==
  ASSUME TypeOK, NothingBeforeCreate, Agreement, Overwrites,
         \/ Create \/ Evict \/ Pause
         \/ \E s \in Steps, after \in Steps \cup {NoStep} : AddStep(s, after)
  PROVE  Agreement'
  <1> USE DEF execVars
  <1>1. CASE Create
    <2>1. exec = "none" /\ exec' = "none" /\ Working = NoStep /\ Working' = NoStep
      BY <1>1 DEF Create, NothingBeforeCreate, Working
    <2>2. StoreTells
      BY <1>1, <2>1 DEF Create, NothingBeforeCreate, StoreTells
    <2>3. ExecutorKnown' /\ ExecutesCurrent'
      BY <2>1 DEF ExecutorKnown, ExecutesCurrent
    <2> QED BY <2>2, <2>3, CodeAgreement
  <1>2. CASE Evict \/ Pause
    <2>1. /\ UNCHANGED <<status, gated, confirmed, planConfirmed, current, exec, registered>>
          /\ Exists /\ plan' # "done" /\ (plan' = "waiting" => plan = "running")
          /\ plan' \in {"waiting", "gone"}
      BY <1>2 DEF Evict, Pause, Exists
    <2>2. UNCHANGED Working
      BY <2>1 DEF Working
    <2>3. ExecutorKnown' /\ ExecutesCurrent' /\ (NeedsConfirmation' => exec' = "none")
      BY <2>1 DEF Agreement, ExecutorKnown, ExecutesCurrent, RiskGate, NeedsConfirmation
    <2>4. StoreTells
      BY <2>1, <2>2, <2>3, NothingWritten
    <2> QED BY <2>3, <2>4, CodeAgreement
  <1>3. ASSUME NEW s \in Steps, NEW after \in Steps \cup {NoStep}, AddStep(s, after)
        PROVE  Agreement'
    <2>1. /\ status[s] = "unused" /\ status'[s] = "pending"
          /\ \A t \in Steps : t # s => status'[t] = status[t]
          /\ \A t : t # s => (t \in gated' \ confirmed' => t \in gated \ confirmed)
          /\ plan \notin PlanTerminal /\ Exists
          /\ UNCHANGED <<plan, planConfirmed, current, exec, registered>>
      BY <1>3 DEF AddStep, TypeOK
    <2>2. UNCHANGED Working /\ Exists'
      BY <2>1 DEF Working, Exists
    <2>3. ExecutorKnown' /\ ExecutesCurrent' /\ (NeedsConfirmation' => exec' = "none")
      BY <2>1 DEF Agreement, ExecutorKnown, ExecutesCurrent, RiskGate, NeedsConfirmation
    <2>4. Working # s /\ (Working # NoStep => Working \in Steps)
      BY <2>1, NoStepAssumption DEF Agreement, ExecutesCurrent, Working
    <2>5. StoreTells
      BY <2>1, <2>2, <2>3, <2>4 DEF StoreTells, PlanTerminal
    <2> QED BY <2>3, <2>5, CodeAgreement
  <1> QED BY <1>1, <1>2, <1>3

(* store.cancel_plan closes what was open, whatever it does to the worker.  *)
LEMMA CancelTells ==
  ASSUME TypeOK, Agreement, StoreCancel, UNCHANGED <<gated, confirmed, planConfirmed>>,
         Working' \in {Working, NoStep}, exec' \in {exec, "none"},
         plan # "none" \/ Working = NoStep
  PROVE  StoreTells
  <1>1. /\ Exists => plan' = "cancelled"
        /\ ~Exists => UNCHANGED <<plan, status>>
        /\ \A s \in Steps : Exists => status'[s] \notin StepOpen
    BY StoreCancelEffect
  <1>2. ~Exists => plan \in {"none", "gone"} /\ plan' = plan
    BY <1>1 DEF Exists
  <1>3. NeedsConfirmation' => exec' = "none"
    BY DEF Agreement, RiskGate, NeedsConfirmation
  <1>4. \A s \in Steps : ~(Exists' /\ status'[s] = "running")
    BY <1>1, <1>2 DEF Exists, StepOpen
  <1>5. plan' \notin {"running", "waiting", "done"}
    BY <1>1, <1>2
  <1> QED BY <1>3, <1>4, <1>5 DEF StoreTells

(* Requests that start, find or cancel an executor.                         *)
LEMMA RequestAgreement ==
  ASSUME TypeOK, NothingBeforeCreate, Agreement, Overwrites,
         Start \/ Resume \/ CancelBegin \/ CancelNow \/ CancelEnd
  PROVE  Agreement'
  <1> USE DEF storeVars, execVars
  <1>1. CASE Start
    <2>1. exec = "none" /\ Exists
      BY <1>1 DEF Start, Agreement, RiskGate, ExecutorKnown, Exists
    <2>2. /\ UNCHANGED <<status, gated, confirmed, planConfirmed>>
          /\ exec' \in {"none", "created"} /\ (exec' = "created" => registered' = TRUE)
          /\ NeedsConfirmation => exec' = "none"
          /\ plan' # "done"
      BY <1>1, <2>1 DEF Start, Spawn
    <2>3. Working = NoStep /\ Working' = NoStep
      BY <2>1, <2>2 DEF Working
    <2>4. ExecutorKnown' /\ ExecutesCurrent' /\ (NeedsConfirmation' => exec' = "none")
      BY <2>2 DEF ExecutorKnown, ExecutesCurrent, NeedsConfirmation
    <2>5. StoreTells
      BY <2>1, <2>2, <2>3, <2>4, NothingWritten
    <2> QED BY <2>4, <2>5, CodeAgreement
  <1>2. CASE Resume
    <2>1. /\ UNCHANGED <<status, gated, current>> /\ confirmed \subseteq confirmed'
          /\ ~NeedsConfirmation'
          /\ Exists /\ plan' = IF plan = "waiting" THEN "running" ELSE plan
      BY <1>2, KindAssumption DEF Resume, NeedsConfirmation, TypeOK
    <2>2. \/ UNCHANGED <<exec, registered>>
          \/ /\ plan = "waiting" /\ ~(registered /\ exec # "none")
             /\ exec' = "created" /\ registered' = TRUE
      BY <1>2 DEF Resume, Spawn
    <2>3. \/ UNCHANGED <<exec, registered>>
          \/ exec = "none" /\ exec' = "created" /\ registered' = TRUE
      BY <2>2 DEF Agreement, ExecutorKnown
    <2>4. UNCHANGED Working
      BY <2>1, <2>3 DEF Working
    <2>5. ExecutorKnown' /\ ExecutesCurrent'
      BY <2>1, <2>3 DEF Agreement, ExecutorKnown, ExecutesCurrent
    <2>6. StoreTells
      BY <2>1, <2>4, NothingWritten
    <2> QED BY <2>5, <2>6, CodeAgreement
  <1>3. CASE CancelBegin
    <2>1. UNCHANGED <<plan, status, gated, confirmed, planConfirmed, current, exec, registered>>
      BY <1>3 DEF CancelBegin
    <2>2. UNCHANGED <<Working, NeedsConfirmation, Exists, ExecutorKnown, ExecutesCurrent>>
      BY <2>1 DEF Working, NeedsConfirmation, Exists, ExecutorKnown, ExecutesCurrent
    <2>3. StoreTells
      BY <2>1, <2>2, NothingWritten DEF Agreement, RiskGate
    <2> QED BY <2>2, <2>3, CodeAgreement DEF Agreement
  <1>4. CASE CancelNow \/ CancelEnd
    <2>1. /\ StoreCancel /\ UNCHANGED <<gated, confirmed, planConfirmed, current, exec>>
          /\ registered' = registered \/ (Exists /\ registered' = FALSE)
      BY <1>4 DEF CancelNow, CancelEnd
    <2>2. UNCHANGED Working /\ (plan # "none" \/ Working = NoStep)
      BY <2>1 DEF Working, NothingBeforeCreate
    <2>3. /\ Exists => plan' = "cancelled"
          /\ ~Exists => UNCHANGED <<plan, status>>
          /\ \A s \in Steps : status'[s] = "unused" <=> status[s] = "unused"
      BY <2>1, StoreCancelEffect
    <2>4. ExecutorKnown' /\ ExecutesCurrent'
      BY <2>1, <2>3 DEF Agreement, ExecutorKnown, ExecutesCurrent
    <2>5. StoreTells
      BY <2>1, <2>2, CancelTells
    <2> QED BY <2>4, <2>5, CodeAgreement
  <1> QED BY <1>1, <1>2, <1>3, <1>4

(* Steps of the executor.                                                   *)
LEMMA ExecutorAgreement ==
  ASSUME TypeOK, NothingBeforeCreate, Listed, Agreement, Executor
  PROVE  Agreement'
  <1> USE DEF storeVars, execVars
  <1>0. Overwrites
    BY DEF Executor
  <1>1. CASE StopAtHead \/ Poll \/ StepLost \/ Aborted
    <2>1. /\ UNCHANGED <<plan, status, gated, confirmed, planConfirmed, current>>
          /\ exec' \in {"none", "poll"}
          /\ exec' = "poll" => plan = "waiting" /\ exec \in {"created", "turn"} /\ registered' = registered
          /\ plan = "gone" \/ exec \notin {"sim", "agent"}
      BY <1>1 DEF StopAtHead, Poll, StepLost, Aborted, Leave, AtHead
    <2>2. ExecutorKnown' /\ ExecutesCurrent' /\ (NeedsConfirmation' => exec' = "none")
      BY <2>1 DEF Agreement, ExecutorKnown, ExecutesCurrent, RiskGate, NeedsConfirmation
    <2>3. Working' = NoStep /\ (plan = "gone" \/ Working = NoStep)
      BY <2>1 DEF Working
    <2>4. StoreTells
      BY <2>1, <2>2, <2>3, NoStepAssumption DEF StoreTells, Exists
    <2> QED BY <1>0, <2>2, <2>4, CodeAgreement
  <1>2. CASE Finish
    <2>1. \A s \in Steps : status[s] # "pending"
      BY <1>2 DEF Finish, Eligible, Listed
    <2>2. /\ status' = status /\ plan = "running" /\ plan' = "done" /\ exec' = "none"
          /\ exec \notin {"sim", "agent"}
      BY <1>2 DEF Finish, Leave, AtHead
    <2>3. Working' = NoStep /\ Working = NoStep
      BY <2>2 DEF Working
    <2>4. ExecutorKnown' /\ ExecutesCurrent'
      BY <2>2 DEF ExecutorKnown, ExecutesCurrent
    <2>5. StoreTells
      BY <2>1, <2>2, <2>3, NoStepAssumption DEF StoreTells, Exists
    <2> QED BY <1>0, <2>4, <2>5, CodeAgreement
  <1>3. ASSUME NEW s \in Steps, BeginStep(s) PROVE Agreement'
    <2>1. /\ exec \in {"created", "poll", "turn"} /\ plan = "running" /\ current' = s
          /\ \A t \in Steps : t # s => status'[t] = status[t]
          /\ UNCHANGED <<gated, confirmed, planConfirmed, registered>>
          /\ \/ status'[s] = "waiting" /\ plan' = "waiting" /\ exec' = "poll"
             \/ /\ s \notin gated \ confirmed
                /\ status'[s] = "running" /\ plan' = "running" /\ exec' \in {"sim", "agent"}
      BY <1>3 DEF BeginStep, Park, AtHead, StepNeedsConfirmation, TypeOK
    <2>2. /\ Working = NoStep /\ Exists /\ Exists'
          /\ Working' = IF exec' \in {"sim", "agent"} THEN s ELSE NoStep
      BY <2>1 DEF Working, Exists
    <2>3. ExecutorKnown' /\ ExecutesCurrent' /\ (NeedsConfirmation' => exec' = "none")
      BY <2>1 DEF Agreement, ExecutorKnown, ExecutesCurrent, RiskGate, NeedsConfirmation
    <2>4. StoreTells
      BY <2>1, <2>2, <2>3, NoStepAssumption DEF StoreTells
    <2> QED BY <1>0, <2>3, <2>4, CodeAgreement
  <1>4. ASSUME NEW s \in Steps, NoRunner(s) \/ (AgentFails /\ s = current) PROVE Agreement'
    <2>1. /\ plan' = "failed" /\ exec' = "none" /\ Exists
          /\ \A t \in Steps : t # s => status'[t] = status[t]
          /\ status'[s] = "failed"
      BY <1>4 DEF NoRunner, AgentFails, FailStep, Leave, Exists, TypeOK
    <2>2. Working' = NoStep /\ Working \in {NoStep, s}
      BY <1>4, <2>1 DEF NoRunner, AgentFails, AtHead, Working
    <2>3. ExecutorKnown' /\ ExecutesCurrent'
      BY <2>1 DEF ExecutorKnown, ExecutesCurrent
    <2>4. StoreTells
      BY <2>1, <2>2, <2>3, NoStepAssumption DEF StoreTells
    <2> QED BY <1>0, <2>3, <2>4, CodeAgreement
  <1>5. CASE CompleteStep
    <2>1. /\ exec \in {"sim", "agent"} /\ exec' = "turn" /\ Exists
          /\ UNCHANGED <<plan, gated, confirmed, planConfirmed, registered>>
          /\ \A t \in Steps : t # current => status'[t] = status[t]
          /\ current \in Steps /\ status'[current] = "done"
      BY <1>5 DEF CompleteStep, GoesOn, Agreement, ExecutesCurrent, TypeOK
    <2>2. Working = current /\ Working' = NoStep
      BY <2>1 DEF Working
    <2>3. ExecutorKnown' /\ ExecutesCurrent' /\ (NeedsConfirmation' => exec' = "none")
      BY <2>1 DEF Agreement, ExecutorKnown, ExecutesCurrent, RiskGate, NeedsConfirmation
    <2>4. StoreTells
      BY <2>1, <2>2, <2>3 DEF StoreTells
    <2> QED BY <1>0, <2>3, <2>4, CodeAgreement
  <1>6. CASE AgentFails
    <2>1. current \in Steps
      BY <1>6 DEF AgentFails, Agreement, ExecutesCurrent
    <2> QED BY <1>4, <1>6, <2>1
  <1>7. CASE Cancelled
    <2>1. /\ StoreCancel /\ UNCHANGED <<gated, confirmed, planConfirmed, current>>
          /\ exec # "none" /\ exec' = "none"
      BY <1>7 DEF Cancelled, Leave
    <2>2. Working' = NoStep /\ plan # "none"
      BY <2>1 DEF Working, NothingBeforeCreate
    <2>3. ExecutorKnown' /\ ExecutesCurrent'
      BY <2>1 DEF ExecutorKnown, ExecutesCurrent
    <2>4. StoreTells
      BY <2>1, <2>2, CancelTells
    <2> QED BY <1>0, <2>3, <2>4, CodeAgreement
  <1> QED BY <1>1, <1>2, <1>3, <1>4, <1>5, <1>6, <1>7 DEF Executor, ExecutorSteps

------------------------------------------------------------------------------
(* The contract.                                                            *)

(* Requests that only write the store.                                      *)
LEMMA StoreMaps ==
  ASSUME TypeOK,
         \/ Create \/ Evict \/ Pause
         \/ \E s \in Steps, after \in Steps \cup {NoStep} : AddStep(s, after)
         \/ Edits
  PROVE  Contract!Next
  <1>1. CASE Create
    BY <1>1 DEF Create, execVars, Working, Contract!Create, Contract!Next
  <1>2. CASE Evict
    BY <1>2 DEF Evict, execVars, Exists, Working, Contract!Exists, Contract!Evict,
                Contract!Next
  <1>3. CASE Pause
    BY <1>3 DEF Pause, execVars, Working, Contract!Hold, Contract!Next
  <1>4. ASSUME NEW s \in Steps, NEW after \in Steps \cup {NoStep}, AddStep(s, after)
        PROVE  Contract!Next
    <2>1. Contract!Mark(s)
      BY <1>4 DEF AddStep, TypeOK, Contract!Mark
    <2>2. Contract!Add(s)
      BY <1>4, <2>1 DEF AddStep, execVars, Exists, PlanTerminal, Working, Contract!Exists,
                        Contract!Add
    <2> QED BY <2>2 DEF Contract!Next
  <1>5. ASSUME NEW s \in Steps, NEW v \in PlanStepStatus, EditStep(s, v)
        PROVE  Contract!Next
    <2>1. Contract!Edit(s, v)
      BY <1>5 DEF EditStep, execVars, Exists, Working, Contract!Exists, Contract!Mark,
                  Contract!Edit
    <2>2. v \in {"pending", "running", "waiting", "done", "failed", "cancelled"}
      BY DEF PlanStepStatus, StepOpen
    <2> QED BY <2>1, <2>2 DEF Contract!Next
  <1> QED BY <1>1, <1>2, <1>3, <1>4, <1>5 DEF Edits

(* store.cancel_plan, whatever it does to the worker.                       *)
LEMMA StoreCancelMaps ==
  ASSUME StoreCancel, Exists, UNCHANGED <<gated, confirmed, planConfirmed>>,
         Working' \in {Working, NoStep}
  PROVE  Contract!Cancel
  BY DEF StoreCancel, Exists, StepOpen, Contract!Exists, Contract!Cancel

(* Requests that start, find or cancel an executor: a new one is started    *)
(* only while none executes.                                                *)
LEMMA RequestMaps ==
  ASSUME IInv, Start \/ Resume \/ CancelBegin \/ CancelNow \/ CancelEnd
  PROVE  [Contract!Next]_Contract!vars
  <1> USE DEF IInv, TypeOK, ExecutorKnown, Working, storeVars, execVars
  <1>1. CASE Start
    <2>1. CASE NeedsConfirmation
      BY <1>1, <2>1 DEF Start, RiskGate, NeedsConfirmation, Spawn, Contract!MayRun,
                        Contract!Hold, Contract!Next
    <2>2. CASE ~NeedsConfirmation
      <3>1. exec = "none"
        BY <1>1, <2>2 DEF Start
      <3>2. Working = NoStep /\ Working' = NoStep
        BY <1>1, <2>2, <3>1 DEF Start, Spawn
      <3> QED BY <1>1, <2>2, <3>2 DEF Start, NeedsConfirmation, Contract!MayRun,
                                      Contract!Start, Contract!Next
    <2> QED BY <2>1, <2>2
  <1>2. CASE Resume
    <2>1. Working' = Working
      <3>1. CASE plan = "waiting" /\ ~(registered /\ exec # "none")
        <4>1. exec = "none"
          BY <3>1
        <4>2. exec' = "created"
          BY <1>2, <3>1 DEF Resume, Spawn
        <4> QED BY <4>1, <4>2
      <3>2. CASE ~(plan = "waiting" /\ ~(registered /\ exec # "none"))
        BY <1>2, <3>2 DEF Resume
      <3> QED BY <3>1, <3>2
    <2>2. confirmed' = confirmed \/ \E s \in gated : confirmed' = confirmed \cup {s}
      <3>1. CASE current \in gated
        <4>1. confirmed' = confirmed \cup {current}
          BY <1>2, <3>1 DEF Resume
        <4> QED BY <3>1, <4>1
      <3>2. CASE current \notin gated
        BY <1>2, <3>2 DEF Resume
      <3> QED BY <3>1, <3>2
    <2>3. plan' = IF plan = "waiting" THEN "running" ELSE plan
      BY <1>2 DEF Resume
    <2>4. /\ Exists /\ status' = status /\ gated' = gated
          /\ planConfirmed' = (planConfirmed \/ PlanGated)
      BY <1>2 DEF Resume
    <2>5. Contract!Confirm
      BY <2>1, <2>2, <2>3, <2>4 DEF Exists, Contract!Exists, Contract!Confirm
    <2> QED BY <2>5 DEF Contract!Next
  <1>3. CASE CancelBegin
    BY <1>3 DEF CancelBegin, Contract!vars
  <1>4. CASE CancelNow
    <2>1. Exists /\ StoreCancel /\ UNCHANGED <<gated, confirmed, planConfirmed, Working>>
      BY <1>4 DEF CancelNow
    <2> QED BY <2>1, StoreCancelMaps DEF Contract!Next
  <1>5. CASE CancelEnd
    <2>1. StoreCancel /\ UNCHANGED <<gated, confirmed, planConfirmed, Working>>
      BY <1>5 DEF CancelEnd
    <2>2. CASE Exists
      BY <2>1, <2>2, StoreCancelMaps DEF Contract!Next
    <2>3. CASE ~Exists
      BY <2>1, <2>3 DEF StoreCancel, Contract!vars
    <2> QED BY <2>2, <2>3
  <1> QED BY <1>1, <1>2, <1>3, <1>4, <1>5

(* The executor at the head of its loop has nothing in hand and runs a plan *)
(* that may run.                                                            *)
LEMMA HeadIsFree ==
  ASSUME IInv, AtHead, plan = "running"
  PROVE  Contract!Free
  BY DEF IInv, AtHead, RiskGate, NeedsConfirmation, Working, Contract!Free,
         Contract!MayRun

(* A step that is next has not been taken.                                  *)
LEMMA NextIsUntaken ==
  ASSUME NEW s \in Steps, NextUp(s)
  PROVE  Contract!Untaken(s)
  BY DEF NextUp, Eligible, Contract!Untaken

(* Steps of the executor.                                                   *)
LEMMA ExecutorMaps ==
  ASSUME IInv, Executor
  PROVE  [Contract!Next]_Contract!vars
  <1> USE DEF Working, storeVars, execVars
  <1>1. CASE StopAtHead \/ Poll \/ Aborted
    BY <1>1 DEF StopAtHead, Poll, Aborted, Leave, AtHead, Contract!vars
  <1>2. CASE Finish
    <2>1. \A s \in Steps : status[s] # "pending"
      BY <1>2 DEF IInv, Finish, Eligible, Listed
    <2>2. Contract!Free
      BY <1>2, HeadIsFree DEF Finish
    <2>3. Working' = NoStep /\ Working = NoStep
      BY <1>2 DEF Finish, Leave, AtHead
    <2> QED BY <1>2, <2>1, <2>2, <2>3 DEF Finish, Contract!Finish, Contract!Next
  <1>3. ASSUME NEW s \in Steps, BeginStep(s) PROVE Contract!Next
    <2>1. Contract!Free /\ Contract!Untaken(s)
      BY <1>3, HeadIsFree, NextIsUntaken DEF BeginStep
    <2>2. CASE Park(s)
      <3>1. Working' = NoStep /\ Working = NoStep
        BY <1>3, <2>2 DEF BeginStep, Park, AtHead
      <3>2. Contract!Park(s)
        BY <1>3, <2>1, <2>2, <3>1 DEF BeginStep, Park, Contract!Park
      <3> QED BY <3>2 DEF Contract!Next
    <2>3. CASE ~Park(s)
      <3>1. /\ ~StepNeedsConfirmation(s)
            /\ status' = [status EXCEPT ![s] = "running"]
            /\ exec' = IF s \in AgentSteps THEN "agent" ELSE "sim"
            /\ current' = s
            /\ UNCHANGED <<plan, gated, confirmed, planConfirmed>>
        BY <1>3, <2>3 DEF BeginStep
      <3>2. Working' = s
        BY <3>1
      <3>3. Contract!Begin(s)
        BY <2>1, <3>1, <3>2 DEF StepNeedsConfirmation, Contract!StepMayRun, Contract!Begin
      <3> QED BY <3>3 DEF Contract!Next
    <2> QED BY <2>2, <2>3
  <1>4. ASSUME NEW s \in Steps, NoRunner(s) PROVE Contract!Next
    <2>1. Contract!Free /\ Contract!Untaken(s)
      BY <1>4, HeadIsFree, NextIsUntaken DEF NoRunner
    <2>2. Working' = NoStep /\ Exists
      BY <1>4 DEF NoRunner, FailStep, Leave, Exists
    <2>3. Contract!Fail(s)
      BY <1>4, <2>1, <2>2 DEF NoRunner, FailStep, StepNeedsConfirmation, Exists,
                              Contract!Exists, Contract!StepMayRun, Contract!Fail
    <2> QED BY <2>3 DEF Contract!Next
  <1>5. CASE CompleteStep
    <2>1. Working = current /\ current \in Steps /\ Working' = NoStep
      BY <1>5 DEF IInv, ExecutesCurrent, CompleteStep, GoesOn
    <2>2. Working # NoStep
      BY <2>1, NoStepAssumption
    <2>3. Contract!Complete
      BY <1>5, <2>1, <2>2 DEF CompleteStep, Exists, Contract!Exists, Contract!Complete
    <2> QED BY <2>3 DEF Contract!Next
  <1>6. CASE AgentFails
    <2>1. Working = current /\ current \in Steps /\ Working' = NoStep
      BY <1>6 DEF IInv, ExecutesCurrent, AgentFails, FailStep, Leave
    <2>2. Contract!Fail(current)
      BY <1>6, <2>1 DEF AgentFails, FailStep, Exists, Contract!Exists, Contract!Fail
    <2> QED BY <2>1, <2>2 DEF Contract!Next
  <1>7. CASE StepLost
    BY <1>7 DEF StepLost, Leave, Contract!Lose, Contract!Next
  <1>8. CASE Cancelled
    <2>1. StoreCancel /\ UNCHANGED <<gated, confirmed, planConfirmed>> /\ Working' = NoStep
      BY <1>8 DEF Cancelled, Leave
    <2>2. CASE Exists
      BY <2>1, <2>2, StoreCancelMaps DEF Contract!Next
    <2>3. CASE plan = "gone"
      BY <2>1, <2>3 DEF StoreCancel, Exists, Contract!Lose, Contract!Next
    <2>4. plan # "none"
      BY <1>8 DEF IInv, NothingBeforeCreate, Cancelled
    <2> QED BY <2>2, <2>3, <2>4 DEF Exists
  <1> QED BY <1>1, <1>2, <1>3, <1>4, <1>5, <1>6, <1>7, <1>8 DEF Executor, ExecutorSteps

------------------------------------------------------------------------------
(* The invariant and what it implies.                                       *)

(* The invariant holds initially ...                                        *)
LEMMA InitIInv == Init => IInv
  <1>1. Init => TypeOK
    <2>1. ASSUME Init
          PROVE  steps \in Seq(Steps) /\ confirmed \in SUBSET Steps /\ status \in [Steps -> StepState]
      BY <2>1 DEF Init, StepState
    <2>2. Init => current \in Steps \cup {NoStep} /\ plan \in PlanState
      BY DEF Init, PlanState
    <2>3. ASSUME Init
          PROVE  /\ planConfirmed \in BOOLEAN /\ registered \in BOOLEAN
                 /\ exec \in {"none", "created", "poll", "sim", "agent", "turn"}
                 /\ canceller \in {"idle", "waiting", "ready"}
      BY <2>3 DEF Init
    <2>4. Init => edits \in 0..MaxEdits
      BY EditsAssumption DEF Init
    <2>5. Init => gated \in SUBSET Steps /\ edited \in SUBSET Steps /\ withdrawn \in BOOLEAN
      BY DEF Init
    <2> QED BY <2>1, <2>2, <2>3, <2>4, <2>5 DEF TypeOK
  <1>2. Init => NothingBeforeCreate /\ Listed /\ ExecutorKnown /\ ExecutesCurrent
    BY DEF Init, NothingBeforeCreate, Listed, ExecutorKnown, ExecutesCurrent
  <1>3. Init => RiskGate /\ RunningStepHasExecutor /\ WorkingStepIsRunning /\ NoPendingWhenDone
    BY DEF Init, RiskGate, RunningStepHasExecutor, WorkingStepIsRunning, NoPendingWhenDone,
           Exists, Working
  <1> QED BY <1>1, <1>2, <1>3 DEF IInv

(* ... and every step keeps it.                                             *)
LEMMA StepIInv == IInv /\ [Next]_vars => IInv'
  <1> SUFFICES ASSUME IInv, [Next]_vars PROVE IInv'
    OBVIOUS
  <1>1. CASE Next
    <2>1. TypeOK' /\ NothingBeforeCreate' /\ Listed'
      BY <1>1, TypeStep, RecordStep DEF IInv
    <2>2. Agreement'
      BY <1>1, EditAgreement, StoreAgreement, RequestAgreement, ExecutorAgreement
      DEF IInv, Agreement, Next, Requests, Edits
    <2> QED BY <2>1, <2>2 DEF IInv, Agreement
  <1>2. CASE UNCHANGED vars
    BY <1>2
    DEF vars, storeVars, execVars, historyVars, IInv, TypeOK, NothingBeforeCreate, Listed,
        ExecutorKnown, ExecutesCurrent, RiskGate, RunningStepHasExecutor,
        WorkingStepIsRunning, NoPendingWhenDone, NeedsConfirmation, StepNeedsConfirmation,
        Exists, Working
  <1> QED BY <1>1, <1>2

(* The inductive invariant holds in every reachable state: store, executor  *)
(* and confirmations agree as described above.                              *)
THEOREM Invariance == Spec => []IInv
  BY InitIInv, StepIInv, PTL DEF Spec

(* Types are kept by every request and every step of the executor.          *)
THEOREM TypeCorrect == Spec => []TypeOK
  <1>1. IInv => TypeOK
    BY DEF IInv
  <1> QED BY <1>1, Invariance, PTL

(* No executor runs a plan, and none executes a step, that needs a          *)
(* confirmation it does not have.                                           *)
THEOREM GatesHold == Spec => []RiskGate
  <1>1. IInv => RiskGate
    BY DEF IInv
  <1> QED BY <1>1, Invariance, PTL

(* But for the statuses that clients wrote, the step that executes is shown *)
(* as RUNNING and no other is, and no step of a DONE plan is pending, with  *)
(* any number of edits of any step to any status.                           *)
THEOREM StatusesAreTruthful == Spec => []StatusesTruthful
  <1>1. IInv => StatusesTruthful
    BY DEF IInv, StatusesTruthful
  <1> QED BY <1>1, Invariance, PTL

(* No request and no late result takes a cancelled plan up again.           *)
THEOREM CancelledPlansStayClosed == Spec => CancelledNotResumed
  <1>1. ASSUME TypeOK, [Next]_vars, plan = "cancelled"
        PROVE  plan' \in {"cancelled", "failed", "gone"}
    <2> USE <1>1 DEF storeVars, execVars, PlanTerminal, Exists
    <2>1. ASSUME Requests PROVE plan' \in {"cancelled", "failed", "gone"}
      BY <2>1 DEF Requests, Create, AddStep, Evict, Pause, Start, Resume, CancelBegin,
                  CancelNow, CancelEnd, StoreCancel
    <2>2. ASSUME Executor PROVE plan' \in {"cancelled", "failed", "gone"}
      BY <2>2 DEF Executor, ExecutorSteps, StopAtHead, Poll, Finish, BeginStep, NoRunner, CompleteStep,
                  AgentFails, FailStep, StepLost, Cancelled, StoreCancel, Aborted
    <2>3. ASSUME Edits \/ UNCHANGED vars PROVE plan' \in {"cancelled", "failed", "gone"}
      BY <2>3 DEF Edits, EditStep, vars
    <2> QED BY <2>1, <2>2, <2>3 DEF Next
  <1>2. TypeOK /\ [Next]_vars => [plan = "cancelled" => plan' \in {"cancelled", "failed", "gone"}]_vars
    BY <1>1
  <1> QED BY <1>2, TypeCorrect, PTL DEF Spec, CancelledNotResumed

(* Every plan is a gated plan: the executor task, its registration and the  *)
(* requests that wait for it never let a second worker run, nothing runs    *)
(* unconfirmed, and the store tells what happens in the step it happens     *)
(* (task_plan_executor.py).                                                 *)
THEOREM GatedPlanIsImplemented == Spec => ImplementsGatedPlan
  <1>1. Init => Contract!Init
    BY DEF Init, Working, Contract!Init
  <1>2. IInv /\ [Next]_vars => [Contract!Next]_Contract!vars
    <2>1. ASSUME IInv, Next PROVE [Contract!Next]_Contract!vars
      BY <2>1, StoreMaps, RequestMaps, ExecutorMaps DEF IInv, Next, Requests
    <2>2. ASSUME UNCHANGED vars PROVE UNCHANGED Contract!vars
      BY <2>2 DEF vars, storeVars, execVars, Working, Contract!vars
    <2> QED BY <2>1, <2>2
  <1> QED BY <1>1, <1>2, Invariance, PTL DEF Spec, ImplementsGatedPlan, Contract!Spec
==============================================================================
