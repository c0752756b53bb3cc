-------------------------- MODULE RunControlProofs --------------------------
(***************************************************************************)
(* Proofs about RunControl: for any number of chats, runs and children, a   *)
(* cancel function stops the run it is registered for, run control calls    *)
(* settled only what has ended or was cancelled, no run takes the cancel    *)
(* function of a newer one with it, and the tracker underneath implements   *)
(* RunRegistry.                                                             *)
(***************************************************************************)
EXTENDS RunControl, TLAPS

(* A run that has registered has a task, and a chat run a chat.             *)
Registered ==
    /\ \A x \in Runs : entry[x] = "none" <=> task[x] = "none"
    /\ \A r \in ChatRuns : entry[r] # "none" => chatOf[r] \in Chats
    /\ \A r \in ChatRuns : follower[r] # "none" => entry[r] # "none"

(* The tracker names the only run of a chat that has not been cancelled.    *)
OneUncancelled ==
    /\ \A c \in Chats : current[c] # NoRun =>
          entry[current[c]] # "none" /\ chatOf[current[c]] = c
    /\ \A r \in ChatRuns : Live(r) /\ ~asked[r] => current[chatOf[r]] = r

(* A sentinel has a reason, and so has the wait of a cancel request.        *)
Reasons ==
    /\ \A r \in ChatRuns : ended[r] => task[r] = "over" \/ asked[r]
    /\ \A t \in Runs : awaited[t] # NoRun =>
          asked[awaited[t]] /\ entry[awaited[t]] # "none"

(* The inductive invariant.                                                 *)
IInv == TypeOK /\ Registered /\ OneUncancelled /\ Reasons /\ HandlerTruthful /\ SettledIsEnding

------------------------------------------------------------------------------
(* Every action preserves the invariant.                                    *)

USE KindAssumption, NoneAssumption
    DEF IInv, TypeOK, Registered, OneUncancelled, Reasons, HandlerTruthful, SettledIsEnding,
        Live, Active, Terminal, Runs, Children, storeVars, trackerVars, cancelVars

(* A new run takes the chat and its cancel function, on an idle chat.       *)
LEMMA StartRunKeeps ==
  ASSUME IInv, NEW r \in ChatRuns, NEW c \in Chats, StartRun(r, c)
  PROVE  IInv'
  <1>1. TypeOK'
    BY DEF StartRun, Start
  <1>2. Registered'
    BY DEF StartRun, Start
  <1>3. OneUncancelled'
    BY DEF StartRun, Start
  <1>4. Reasons'
    <2>1. \A q \in ChatRuns : ended'[q] => task'[q] = "over" \/ asked'[q]
      BY DEF StartRun, Start
    <2>2. \A x \in Runs : entry[x] # "none" => entry'[x] # "none"
      BY DEF StartRun, Start
    <2>3. (\A x \in Runs : asked[x] => asked'[x]) /\ awaited' = awaited
      BY DEF StartRun, Start
    <2>4. \A t \in Runs : awaited[t] # NoRun => awaited[t] \in Runs
      OBVIOUS
    <2> QED BY <2>1, <2>2, <2>3, <2>4
  <1>5. HandlerTruthful'
    BY DEF StartRun, Start
  <1>6. SettledIsEnding'
    BY DEF StartRun, Start
  <1> QED BY <1>1, <1>2, <1>3, <1>4, <1>5, <1>6

(* A new run takes them from the run it cancels.                            *)
LEMMA ReplaceRunKeeps ==
  ASSUME IInv, NEW r \in ChatRuns, NEW c \in Chats, ReplaceRun(r, c)
  PROVE  IInv'
  <1>1. TypeOK'
    BY DEF ReplaceRun, Start
  <1>2. Registered'
    BY DEF ReplaceRun, Start
  <1>3. OneUncancelled'
    BY DEF ReplaceRun, Start
  <1>4. Reasons'
    <2>1. \A q \in ChatRuns : ended'[q] => task'[q] = "over" \/ asked'[q]
      BY DEF ReplaceRun, Start
    <2>2. \A x \in Runs : entry[x] # "none" => entry'[x] # "none"
      BY DEF ReplaceRun, Start
    <2>3. (\A x \in Runs : asked[x] => asked'[x]) /\ awaited' = awaited
      BY DEF ReplaceRun, Start
    <2>4. \A t \in Runs : awaited[t] # NoRun => awaited[t] \in Runs
      OBVIOUS
    <2> QED BY <2>1, <2>2, <2>3, <2>4
  <1>5. HandlerTruthful'
    BY DEF ReplaceRun, Start
  <1>6. SettledIsEnding'
    BY DEF ReplaceRun, Start
  <1> QED BY <1>1, <1>2, <1>3, <1>4, <1>5, <1>6

(* A chat without a cancel function asks nothing of the invariant.          *)
LEMMA AttachRequestKeeps ==
  ASSUME IInv, NEW c \in Chats, AttachRequest(c)
  PROVE  IInv'
  <1>1. TypeOK'
    BY DEF AttachRequest
  <1>2. Registered'
    BY DEF AttachRequest
  <1>3. OneUncancelled'
    BY DEF AttachRequest
  <1>4. Reasons'
    BY DEF AttachRequest
  <1>5. HandlerTruthful'
    BY DEF AttachRequest
  <1>6. SettledIsEnding'
    BY DEF AttachRequest
  <1> QED BY <1>1, <1>2, <1>3, <1>4, <1>5, <1>6

(* The run that the chat names is cancelled.                                *)
LEMMA RequestStopKeeps ==
  ASSUME IInv, NEW c \in Chats, RequestStop(c)
  PROVE  IInv'
  <1>1. TypeOK'
    BY DEF RequestStop
  <1>2. Registered'
    BY DEF RequestStop
  <1>3. OneUncancelled'
    BY DEF RequestStop
  <1>4. Reasons'
    BY DEF RequestStop
  <1>5. HandlerTruthful'
    BY DEF RequestStop
  <1>6. SettledIsEnding'
    BY DEF RequestStop
  <1> QED BY <1>1, <1>2, <1>3, <1>4, <1>5, <1>6

(* A producer starts, or ends because it was cancelled.                     *)
LEMMA TurnStartKeeps ==
  ASSUME IInv, NEW r \in ChatRuns, TurnStart(r)
  PROVE  IInv'
  <1>1. TypeOK'
    BY DEF TurnStart
  <1>2. Registered'
    BY DEF TurnStart
  <1>3. OneUncancelled'
    BY DEF TurnStart
  <1>4. Reasons'
    BY DEF TurnStart
  <1>5. HandlerTruthful'
    BY DEF TurnStart
  <1>6. SettledIsEnding'
    BY DEF TurnStart
  <1> QED BY <1>1, <1>2, <1>3, <1>4, <1>5, <1>6

(* A producer that ends leaves the chat to whoever has it.                  *)
LEMMA TurnEndKeeps ==
  ASSUME IInv, NEW r \in ChatRuns, TurnEnd(r)
  PROVE  IInv'
  <1>1. TypeOK'
    BY DEF TurnEnd
  <1>2. Registered'
    BY DEF TurnEnd
  <1>3. OneUncancelled'
    BY DEF TurnEnd
  <1>4. Reasons'
    BY DEF TurnEnd
  <1>5. HandlerTruthful'
    BY DEF TurnEnd
  <1>6. SettledIsEnding'
    BY DEF TurnEnd
  <1> QED BY <1>1, <1>2, <1>3, <1>4, <1>5, <1>6

(* A child starts and registers at once.                                    *)
LEMMA StartChildKeeps ==
  ASSUME IInv, NEW r \in ChatRuns, NEW k \in Children, StartChild(r, k)
  PROVE  IInv'
  <1>1. TypeOK'
    BY DEF StartChild
  <1>2. Registered'
    BY DEF StartChild
  <1>3. OneUncancelled'
    BY DEF StartChild
  <1>4. Reasons'
    BY DEF StartChild
  <1>5. HandlerTruthful'
    BY DEF StartChild
  <1>6. SettledIsEnding'
    BY DEF StartChild
  <1> QED BY <1>1, <1>2, <1>3, <1>4, <1>5, <1>6

(* A call that is cancelled says so first.                                  *)
LEMMA SpawnInterruptedKeeps ==
  ASSUME IInv, NEW r \in ChatRuns, NEW k \in Spawns, SpawnInterrupted(r, k)
  PROVE  IInv'
  <1>1. TypeOK'
    BY DEF SpawnInterrupted
  <1>2. Registered'
    BY DEF SpawnInterrupted
  <1>3. OneUncancelled'
    BY DEF SpawnInterrupted
  <1>4. Reasons'
    BY DEF SpawnInterrupted
  <1>5. HandlerTruthful'
    BY DEF SpawnInterrupted
  <1>6. SettledIsEnding'
    BY DEF SpawnInterrupted
  <1> QED BY <1>1, <1>2, <1>3, <1>4, <1>5, <1>6

(* A child reports its own end.                                             *)
LEMMA SpawnEndKeeps ==
  ASSUME IInv, NEW k \in Spawns, SpawnEnd(k)
  PROVE  IInv'
  <1>1. TypeOK'
    BY DEF SpawnEnd
  <1>2. Registered'
    BY DEF SpawnEnd
  <1>3. OneUncancelled'
    BY DEF SpawnEnd
  <1>4. Reasons'
    BY DEF SpawnEnd
  <1>5. HandlerTruthful'
    BY DEF SpawnEnd
  <1>6. SettledIsEnding'
    BY DEF SpawnEnd
  <1> QED BY <1>1, <1>2, <1>3, <1>4, <1>5, <1>6

(* A workflow ends unreported.                                              *)
LEMMA WorkflowEndKeeps ==
  ASSUME IInv, NEW k \in Workflows, WorkflowEnd(k)
  PROVE  IInv'
  <1>1. TypeOK'
    BY DEF WorkflowEnd
  <1>2. Registered'
    BY DEF WorkflowEnd
  <1>3. OneUncancelled'
    BY DEF WorkflowEnd
  <1>4. Reasons'
    BY DEF WorkflowEnd
  <1>5. HandlerTruthful'
    BY DEF WorkflowEnd
  <1>6. SettledIsEnding'
    BY DEF WorkflowEnd
  <1> QED BY <1>1, <1>2, <1>3, <1>4, <1>5, <1>6

(* An idle chat has no run left that was not cancelled.                     *)
LEMMA WatcherReportsKeeps ==
  ASSUME IInv, NEW r \in ChatRuns, WatcherReports(r)
  PROVE  IInv'
  <1>1. TypeOK'
    BY DEF WatcherReports, Settle, Unregister
  <1>2. Registered'
    BY DEF WatcherReports, Settle, Unregister
  <1>3. OneUncancelled'
    BY DEF WatcherReports, Settle, Unregister
  <1>4. Reasons'
    BY DEF WatcherReports, Settle, Unregister
  <1>5. HandlerTruthful'
    BY DEF WatcherReports, Settle, Unregister
  <1>6. SettledIsEnding'
    BY DEF WatcherReports, Settle, Unregister
  <1> QED BY <1>1, <1>2, <1>3, <1>4, <1>5, <1>6

(* A sentinel means the run has ended or was replaced.                      *)
LEMMA ConsumerReportsKeeps ==
  ASSUME IInv, NEW r \in ChatRuns, ConsumerReports(r)
  PROVE  IInv'
  <1>1. TypeOK'
    BY DEF ConsumerReports, Settle, Unregister
  <1>2. Registered'
    BY DEF ConsumerReports, Settle, Unregister
  <1>3. OneUncancelled'
    BY DEF ConsumerReports, Settle, Unregister
  <1>4. Reasons'
    BY DEF ConsumerReports, Settle, Unregister
  <1>5. HandlerTruthful'
    BY DEF ConsumerReports, Settle, Unregister
  <1>6. SettledIsEnding'
    BY DEF ConsumerReports, Settle, Unregister
  <1> QED BY <1>1, <1>2, <1>3, <1>4, <1>5, <1>6

(* A consumer that leaves its run takes the cancel function with it.        *)
LEMMA ConsumerCancelledKeeps ==
  ASSUME IInv, NEW r \in ChatRuns, ConsumerCancelled(r)
  PROVE  IInv'
  <1>1. TypeOK'
    BY DEF ConsumerCancelled, Settle, Unregister
  <1>2. Registered'
    BY DEF ConsumerCancelled, Settle, Unregister
  <1>3. OneUncancelled'
    BY DEF ConsumerCancelled, Settle, Unregister
  <1>4. Reasons'
    BY DEF ConsumerCancelled, Settle, Unregister
  <1>5. HandlerTruthful'
    BY DEF ConsumerCancelled, Settle, Unregister
  <1>6. SettledIsEnding'
    BY DEF ConsumerCancelled, Settle, Unregister
  <1> QED BY <1>1, <1>2, <1>3, <1>4, <1>5, <1>6

(* So does one that gives up.                                               *)
LEMMA ConsumerTimeoutKeeps ==
  ASSUME IInv, NEW r \in ChatRuns, ConsumerTimeout(r)
  PROVE  IInv'
  <1>1. TypeOK'
    BY DEF ConsumerTimeout, Settle, Unregister
  <1>2. Registered'
    BY DEF ConsumerTimeout, Settle, Unregister
  <1>3. OneUncancelled'
    BY DEF ConsumerTimeout, Settle, Unregister
  <1>4. Reasons'
    BY DEF ConsumerTimeout, Settle, Unregister
  <1>5. HandlerTruthful'
    BY DEF ConsumerTimeout, Settle, Unregister
  <1>6. SettledIsEnding'
    BY DEF ConsumerTimeout, Settle, Unregister
  <1> QED BY <1>1, <1>2, <1>3, <1>4, <1>5, <1>6

(* cancel_run cancels what it marks, as far as its next wait.               *)
LEMMA AdvanceKeeps ==
  ASSUME IInv, NEW t \in Runs, NEW rest \in Seq(Runs), NEW settled \in SUBSET Workflows,
         \A x \in settled : asked[x] /\ entry[x] # "none",
         Advance(t, rest, settled)
  PROVE  IInv'
  <1>1. PICK i \in 0..Len(rest) :
          (i # 0 => Suspends(rest[i])) /\ AdvanceTo(t, rest, i, settled)
    BY DEF Advance
  <1> DEFINE passed == {rest[j] : j \in (i + 1)..Len(rest)}
             kids == {k \in passed \cap Children : entry[k] = "running"}
             stopped == {x \in passed : Stoppable(x)}
             waits == IF i = 0 THEN {} ELSE {rest[i]}
             signalled == kids \cup waits \cup {current[chatOf[x]] : x \in stopped}
  <1>2. /\ kids \subseteq Children /\ stopped \subseteq ChatRuns /\ passed \subseteq Runs
        /\ \A x \in kids : entry[x] = "running" /\ x \in signalled
        /\ \A x \in stopped : entry[x] = "running" /\ current[chatOf[x]] \in signalled
    BY DEF Stoppable
  <1>3. /\ entry' = [x \in Runs |-> IF x \in kids \cup stopped \cup settled
                                    THEN "cancelled" ELSE entry[x]]
        /\ handler' = [c \in Chats |-> IF handler[c] \in stopped THEN NoRun ELSE handler[c]]
        /\ UNCHANGED <<children, chatOf, current, task, ended, follower>>
    BY <1>1 DEF AdvanceTo
  <1>4. /\ asked' \in [Runs -> BOOLEAN]
        /\ \A x \in Runs : (asked[x] => asked'[x]) /\ (x \in signalled => asked'[x])
    BY <1>1 DEF AdvanceTo
  <1>5. /\ awaited' \in [Runs -> Workflows \cup {NoRun}]
        /\ \A x \in Runs : awaited'[x] # NoRun =>
              asked'[awaited'[x]] /\ entry[awaited'[x]] # "none"
    <2>1. awaited' = [awaited EXCEPT ![t] = IF i = 0 THEN NoRun ELSE rest[i]]
      BY <1>1 DEF AdvanceTo
    <2>2. i # 0 => rest[i] \in Workflows /\ entry[rest[i]] = "running" /\ asked'[rest[i]]
      BY <1>1, <1>4 DEF Suspends
    <2> QED BY <1>4, <2>1, <2>2
  <1>6. todo' \in [Runs -> Seq(Runs)]
    <2>1. ASSUME i > 0 PROVE SubSeq(rest, 1, i - 1) \in Seq(Runs)
      BY <2>1
    <2> QED BY <1>1, <2>1 DEF AdvanceTo
  <1> HIDE DEF passed, kids, stopped, waits, signalled
  <1>7. TypeOK'
    BY <1>2, <1>3, <1>4, <1>5, <1>6
  <1>8. Registered'
    BY <1>2, <1>3
  <1>9. OneUncancelled'
    BY <1>2, <1>3, <1>4
  <1>10. Reasons'
    BY <1>3, <1>4, <1>5
  <1>11. HandlerTruthful'
    BY <1>2, <1>3
  <1>12. SettledIsEnding'
    <2> SUFFICES ASSUME NEW x \in Runs, entry'[x] \in Terminal
                 PROVE  task'[x] = "over" \/ asked'[x] \/ (x \in ChatRuns /\ follower'[x] = "left")
      OBVIOUS
    <2>1. CASE x \in kids
      BY <2>1, <1>2, <1>4
    <2>2. CASE x \in stopped
      <3>1. x \in ChatRuns /\ task[x] \in {"created", "live", "over"}
        BY <2>2, <1>2
      <3>2. Live(x) /\ ~asked[x] => current[chatOf[x]] = x
        BY <3>1 DEF IInv, OneUncancelled
      <3>3. current[chatOf[x]] \in signalled
        BY <2>2, <1>2
      <3>4. task[x] = "over" \/ asked[x] \/ x \in signalled
        BY <3>1, <3>2, <3>3 DEF Live
      <3> QED BY <3>4, <1>3, <1>4
    <2>3. CASE x \in settled
      BY <2>3, <1>4
    <2>4. CASE x \notin kids \cup stopped \cup settled
      BY <2>4, <1>3, <1>4
    <2> QED BY <2>1, <2>2, <2>3, <2>4
  <1> QED BY <1>7, <1>8, <1>9, <1>10, <1>11, <1>12

(* The tree of a run is a sequence of runs.                                 *)
LEMMA TreeTyped ==
  ASSUME TypeOK, NEW t \in Runs
  PROVE  Tree(t) \in Seq(Runs)
  <1>1. CASE t \in ChatRuns
    <2>1. children[t] \in Seq(Children)
      BY <1>1
    <2>2. Children \subseteq Runs
      OBVIOUS
    <2> HIDE DEF TypeOK, Runs, Children
    <2> QED BY <1>1, <2>1, <2>2 DEF Tree
  <1>2. CASE t \notin ChatRuns
    BY <1>2 DEF Tree
  <1> QED BY <1>1, <1>2

(* The two steps that advance a cancel_run.                                 *)
LEMMA CancelKeeps ==
  ASSUME IInv, NEW t \in Runs, CancelRun(t) \/ CancelResume(t)
  PROVE  IInv'
  <1>1. CASE CancelRun(t)
    <2>1. Tree(t) \in Seq(Runs)
      BY TreeTyped
    <2>2. Advance(t, Tree(t), {})
      BY <1>1 DEF CancelRun
    <2> HIDE DEF IInv, Runs
    <2> QED BY <2>1, <2>2, AdvanceKeeps
  <1>2. CASE CancelResume(t)
    <2>1. /\ awaited[t] \in Workflows /\ asked[awaited[t]] /\ entry[awaited[t]] # "none"
          /\ todo[t] \in Seq(Runs)
      BY <1>2 DEF CancelResume
    <2>2. Advance(t, todo[t], {awaited[t]})
      BY <1>2 DEF CancelResume
    <2> HIDE DEF IInv, Runs
    <2> QED BY <2>1, <2>2, AdvanceKeeps
  <1> QED BY <1>1, <1>2

(* Every step preserves the invariant.                                      *)
LEMMA StepKeeps ==
  ASSUME IInv, [Next]_vars
  PROVE  IInv'
  <1>1. CASE \E r \in ChatRuns, c \in Chats : StartRun(r, c) \/ ReplaceRun(r, c)
    BY <1>1, StartRunKeeps, ReplaceRunKeeps
  <1>2. CASE \E c \in Chats : AttachRequest(c) \/ RequestStop(c)
    BY <1>2, AttachRequestKeeps, RequestStopKeeps
  <1>3. CASE \E r \in ChatRuns :
               \/ TurnStart(r) \/ TurnEnd(r)
               \/ \E k \in Children : StartChild(r, k)
               \/ \E k \in Spawns : SpawnInterrupted(r, k)
    BY <1>3, TurnStartKeeps, TurnEndKeeps, StartChildKeeps, SpawnInterruptedKeeps
  <1>4. CASE (\E k \in Spawns : SpawnEnd(k)) \/ (\E k \in Workflows : WorkflowEnd(k))
    BY <1>4, SpawnEndKeeps, WorkflowEndKeeps
  <1>5. CASE \E r \in ChatRuns :
               \/ WatcherReports(r)
               \/ ConsumerReports(r) \/ ConsumerCancelled(r) \/ ConsumerTimeout(r)
    BY <1>5, WatcherReportsKeeps, ConsumerReportsKeeps, ConsumerCancelledKeeps,
       ConsumerTimeoutKeeps
  <1>6. CASE \E t \in Runs : CancelRun(t) \/ CancelResume(t)
    BY <1>6, CancelKeeps
  <1>7. CASE UNCHANGED vars
    BY <1>7 DEF vars
  <1> HIDE DEF IInv
  <1> QED BY <1>1, <1>2, <1>3, <1>4, <1>5, <1>6, <1>7 DEF Next

------------------------------------------------------------------------------

(* The inductive invariant holds of every behaviour.                        *)
THEOREM Invariance == Spec => []IInv
  <1>1. Init => IInv
    BY DEF Init
  <1>2. IInv /\ [Next]_vars => IInv'
    BY StepKeeps
  <1> HIDE DEF IInv
  <1> QED BY <1>1, <1>2, PTL DEF Spec

(* Every variable keeps its type.                                           *)
THEOREM TypeCorrect == Spec => []TypeOK
  <1>1. IInv => TypeOK
    OBVIOUS
  <1> HIDE DEF IInv, TypeOK
  <1> QED BY <1>1, Invariance, PTL

(* A registered cancel function stops the run it is registered for, and     *)
(* that run counts as running (run_control.py:118-160).                     *)
THEOREM HandlersTruthful == Spec => []HandlerTruthful
  <1>1. IInv => HandlerTruthful
    OBVIOUS
  <1> HIDE DEF IInv, HandlerTruthful
  <1> QED BY <1>1, Invariance, PTL

(* Run control calls a run done, failed or cancelled only when it has ended *)
(* or was cancelled, or its consumer has left it (base.py:563-623).         *)
THEOREM SettledRunsEnd == Spec => []SettledIsEnding
  <1>1. IInv => SettledIsEnding
    OBVIOUS
  <1> HIDE DEF IInv, SettledIsEnding
  <1> QED BY <1>1, Invariance, PTL

(* What ControlKept says of one chat and one step.                          *)
LostRightly(c) ==
    handler[c] # NoRun /\ handler'[c] # handler[c] =>
        \/ entry'[handler[c]] # "running"
        \/ current'[c] # current[c]
        \/ UNCHANGED <<entry, asked, task>>

(* A cancel_run takes only cancel functions of runs it marks cancelled.     *)
LEMMA AdvanceLosesRightly ==
  ASSUME IInv, NEW t \in Runs, NEW rest \in Seq(Runs), NEW settled \in SUBSET Workflows,
         Advance(t, rest, settled), NEW c \in Chats
  PROVE  LostRightly(c)
  <1>1. PICK i \in 0..Len(rest) : AdvanceTo(t, rest, i, settled)
    BY DEF Advance
  <1>2. handler[c] # NoRun => handler[c] \in Runs
    OBVIOUS
  <1>3. handler'[c] # handler[c] => entry'[handler[c]] = "cancelled"
    BY <1>1, <1>2 DEF AdvanceTo
  <1> QED BY <1>3 DEF LostRightly

(* No step takes a cancel function from a run that still needs it.          *)
LEMMA StepLosesRightly ==
  ASSUME IInv, Next, NEW c \in Chats
  PROVE  LostRightly(c)
  <1>1. ASSUME NEW r \in ChatRuns, NEW d \in Chats, StartRun(r, d) \/ ReplaceRun(r, d)
        PROVE  LostRightly(c)
    BY <1>1 DEF StartRun, ReplaceRun, Start, LostRightly
  <1>2. ASSUME NEW d \in Chats, AttachRequest(d) \/ RequestStop(d)
        PROVE  LostRightly(c)
    BY <1>2 DEF AttachRequest, RequestStop, LostRightly
  <1>3. ASSUME NEW r \in ChatRuns,
               \/ TurnStart(r) \/ TurnEnd(r)
               \/ \E k \in Children : StartChild(r, k)
               \/ \E k \in Spawns : SpawnInterrupted(r, k)
        PROVE  LostRightly(c)
    BY <1>3 DEF TurnStart, TurnEnd, StartChild, SpawnInterrupted, LostRightly
  <1>4. ASSUME (\E k \in Spawns : SpawnEnd(k)) \/ (\E k \in Workflows : WorkflowEnd(k))
        PROVE  LostRightly(c)
    BY <1>4 DEF SpawnEnd, WorkflowEnd, LostRightly
  <1>5. ASSUME NEW r \in ChatRuns, NEW s \in Terminal, Settle(r, s)
        PROVE  LostRightly(c)
    BY <1>5 DEF Settle, Unregister, LostRightly
  <1>6. ASSUME NEW r \in ChatRuns,
               \/ WatcherReports(r)
               \/ ConsumerReports(r) \/ ConsumerCancelled(r) \/ ConsumerTimeout(r)
        PROVE  \E s \in Terminal : Settle(r, s)
    BY <1>6 DEF WatcherReports, ConsumerReports, ConsumerCancelled, ConsumerTimeout
  <1>7. ASSUME NEW t \in Runs, CancelRun(t) \/ CancelResume(t)
        PROVE  LostRightly(c)
    <2>1. CASE CancelRun(t)
      <3>1. Tree(t) \in Seq(Runs) /\ Advance(t, Tree(t), {})
        BY <2>1, TreeTyped DEF CancelRun
      <3> HIDE DEF IInv, Runs
      <3> QED BY <3>1, AdvanceLosesRightly
    <2>2. CASE CancelResume(t)
      <3>1. awaited[t] \in Workflows /\ todo[t] \in Seq(Runs)
            /\ Advance(t, todo[t], {awaited[t]})
        BY <2>2 DEF CancelResume
      <3> HIDE DEF IInv, Runs
      <3> QED BY <3>1, AdvanceLosesRightly
    <2> QED BY <1>7, <2>1, <2>2
  <1> HIDE DEF IInv, Runs, Children, Terminal
  <1> QED BY <1>1, <1>2, <1>3, <1>4, <1>5, <1>6, <1>7 DEF Next

(* An older run's end never takes a newer run's cancel function with it     *)
(* (run_control.py:149).                                                    *)
THEOREM CancelFunctionsKept == Spec => ControlKept
  <1>1. ASSUME IInv, [Next]_vars
        PROVE  [\A c \in Chats : handler[c] # NoRun /\ handler'[c] # handler[c] =>
                   \/ entry'[handler[c]] # "running"
                   \/ current'[c] # current[c]
                   \/ UNCHANGED <<entry, asked, task>>]_vars
    <2>1. CASE Next
      <3> HIDE DEF IInv
      <3> QED BY <1>1, <2>1, StepLosesRightly DEF LostRightly
    <2>2. CASE UNCHANGED vars
      BY <2>2
    <2> QED BY <1>1, <2>1, <2>2
  <1> HIDE DEF IInv
  <1> QED BY <1>1, Invariance, PTL DEF Spec, ControlKept

------------------------------------------------------------------------------
(* The refinement of RunRegistry.                                           *)
HIDE DEF IInv, Registered, OneUncancelled, Reasons, HandlerTruthful, SettledIsEnding

(* A cancel request has nothing but the run it was made for and children    *)
(* left to cancel.                                                          *)
OwnTree == \A t \in Runs : \A i \in DOMAIN todo[t] : todo[t][i] \in Children \cup {t}

(* The tree of a run is the run and children.                               *)
LEMMA TreeOwn ==
  ASSUME TypeOK, NEW t \in Runs, NEW i \in 1..Len(Tree(t))
  PROVE  Tree(t)[i] \in Children \cup {t}
  <1>1. CASE t \in ChatRuns
    <2>1. children[t] \in Seq(Children)
      BY <1>1
    <2> HIDE DEF TypeOK, Runs, Children
    <2> QED BY <1>1, <2>1 DEF Tree
  <1>2. CASE t \notin ChatRuns
    BY <1>2 DEF Tree
  <1> QED BY <1>1, <1>2

(* What is left of a walk is a part of it.                                  *)
LEMMA AdvanceOwn ==
  ASSUME TypeOK, OwnTree, NEW t \in Runs, NEW rest \in Seq(Runs),
         NEW settled \in SUBSET Runs,
         \A i \in 1..Len(rest) : rest[i] \in Children \cup {t},
         Advance(t, rest, settled)
  PROVE  OwnTree'
  <1>1. PICK i \in 0..Len(rest) : AdvanceTo(t, rest, i, settled)
    BY DEF Advance
  <1>2. todo' = [todo EXCEPT ![t] = IF i = 0 THEN <<>> ELSE SubSeq(rest, 1, i - 1)]
    BY <1>1 DEF AdvanceTo
  <1>3. \A j \in DOMAIN todo'[t] : todo'[t][j] \in Children \cup {t}
    <2>1. CASE i = 0
      BY <1>2, <2>1
    <2>2. CASE i # 0
      <3>1. todo'[t] = SubSeq(rest, 1, i - 1) /\ i - 1 \in 0..Len(rest)
        BY <1>2, <2>2
      <3> HIDE DEF TypeOK, Runs, Children
      <3> QED BY <3>1
    <2> QED BY <2>1, <2>2
  <1>4. \A x \in Runs : x # t => todo'[x] = todo[x]
    BY <1>2
  <1> HIDE DEF TypeOK, Runs, Children
  <1> QED BY <1>3, <1>4 DEF OwnTree

(* Every step keeps a cancel request to its own tree.                       *)
LEMMA OwnTreeStep ==
  ASSUME TypeOK, OwnTree, [Next]_vars
  PROVE  OwnTree'
  <1>1. ASSUME NEW r \in ChatRuns, NEW c \in Chats, StartRun(r, c) \/ ReplaceRun(r, c)
        PROVE  todo' = todo
    BY <1>1 DEF StartRun, ReplaceRun, Start
  <1>2. ASSUME NEW c \in Chats, AttachRequest(c) \/ RequestStop(c)
        PROVE  todo' = todo
    BY <1>2 DEF AttachRequest, RequestStop
  <1>3. ASSUME NEW r \in ChatRuns,
               \/ TurnStart(r) \/ TurnEnd(r)
               \/ \E k \in Children : StartChild(r, k)
               \/ \E k \in Spawns : SpawnInterrupted(r, k)
        PROVE  todo' = todo
    BY <1>3 DEF TurnStart, TurnEnd, StartChild, SpawnInterrupted
  <1>4. ASSUME (\E k \in Spawns : SpawnEnd(k)) \/ (\E k \in Workflows : WorkflowEnd(k))
        PROVE  todo' = todo
    BY <1>4 DEF SpawnEnd, WorkflowEnd
  <1>5. ASSUME NEW r \in ChatRuns,
               \/ WatcherReports(r)
               \/ ConsumerReports(r) \/ ConsumerCancelled(r) \/ ConsumerTimeout(r)
        PROVE  todo' = todo
    BY <1>5 DEF WatcherReports, ConsumerReports, ConsumerCancelled, ConsumerTimeout
  <1>6. ASSUME NEW t \in Runs, CancelRun(t) PROVE OwnTree'
    <2>1. Tree(t) \in Seq(Runs) /\ \A i \in 1..Len(Tree(t)) : Tree(t)[i] \in Children \cup {t}
      BY TreeTyped, TreeOwn
    <2>2. Advance(t, Tree(t), {})
      BY <1>6 DEF CancelRun
    <2> HIDE DEF TypeOK, Runs, Children
    <2> QED BY <2>1, <2>2, AdvanceOwn
  <1>7. ASSUME NEW t \in Runs, CancelResume(t) PROVE OwnTree'
    <2>1. todo[t] \in Seq(Runs) /\ {awaited[t]} \in SUBSET Runs
      BY <1>7 DEF CancelResume
    <2>2. \A i \in 1..Len(todo[t]) : todo[t][i] \in Children \cup {t}
      BY <2>1 DEF OwnTree
    <2>3. Advance(t, todo[t], {awaited[t]})
      BY <1>7 DEF CancelResume
    <2> HIDE DEF TypeOK, Runs, Children
    <2> QED BY <2>1, <2>2, <2>3, AdvanceOwn
  <1>8. ASSUME todo' = todo PROVE OwnTree'
    BY <1>8 DEF OwnTree
  <1>9. CASE UNCHANGED vars
    BY <1>8, <1>9 DEF vars
  <1> HIDE DEF TypeOK, Runs, Children
  <1> QED BY <1>1, <1>2, <1>3, <1>4, <1>5, <1>6, <1>7, <1>8, <1>9 DEF Next

(* Run control starts where the contract does.                              *)
LEMMA InitRefines == Init => Tracker!Init
  <1> SUFFICES ASSUME Init PROVE Tracker!Init
    OBVIOUS
  <1>1. Serving = [c \in Chats |-> NoRun]
    BY DEF Init, Serving
  <1>2. Phase = [r \in ChatRuns |-> "unused"]
    BY DEF Init, Phase
  <1>3. Asked = [r \in ChatRuns |-> FALSE]
    BY DEF Init, Asked
  <1> QED BY <1>1, <1>2, <1>3 DEF Tracker!Init

(* A step that leaves the tracker's part of chat runs alone.                *)
LEMMA StutterRefines ==
  ASSUME TypeOK, current' = current,
         \A r \in ChatRuns : task'[r] = task[r] /\ asked'[r] = asked[r]
  PROVE  UNCHANGED Tracker!vars
  <1>1. Serving' = Serving
    BY DEF Serving
  <1>2. Phase' = Phase /\ Asked' = Asked
    BY DEF Phase, Asked
  <1> QED BY <1>1, <1>2 DEF Tracker!vars

(* A request that starts a run starts it in the contract.                   *)
LEMMA StartRefines ==
  ASSUME TypeOK, Registered, OneUncancelled, NEW r \in ChatRuns, NEW c \in Chats,
         entry[r] = "none",
         current' = [current EXCEPT ![c] = r], task' = [task EXCEPT ![r] = "created"]
  PROVE  Tracker!Serve(r, c)
  <1>1. task[r] = "none"
    BY DEF Registered
  <1>2. Phase[r] = "unused"
    BY <1>1 DEF Phase
  <1>3. Phase' = [Phase EXCEPT ![r] = "created"]
    BY DEF Phase
  <1>4. ASSUME NEW d \in Chats
        PROVE  Serving'[d] = [Serving EXCEPT ![c] = r][d]
    <2>1. CASE d = c
      BY <2>1 DEF Serving
    <2>2. CASE d # c
      <3>1. current'[d] = current[d] /\ current[d] # r
        BY <2>2 DEF OneUncancelled
      <3> QED BY <2>2, <3>1 DEF Serving
    <2> QED BY <2>1, <2>2
  <1>5. Serving' = [Serving EXCEPT ![c] = r]
    BY <1>4 DEF Serving
  <1> QED BY <1>2, <1>3, <1>5 DEF Tracker!Serve

(* Cancelling the run of an active chat.                                    *)
LEMMA AskRefines ==
  ASSUME TypeOK, NEW c \in Chats, Active(c),
         \A r \in ChatRuns : asked'[r] = (asked[r] \/ r = current[c])
  PROVE  Serving[c] # NoRun /\ Asked' = [Asked EXCEPT ![Serving[c]] = TRUE]
  <1>1. Serving[c] = current[c] /\ current[c] \in ChatRuns
    BY DEF Serving
  <1>2. Asked' = [Asked EXCEPT ![current[c]] = TRUE]
    <2>1. \A r \in ChatRuns : asked'[r] = [Asked EXCEPT ![current[c]] = TRUE][r]
      BY <1>1 DEF Asked
    <2> QED BY <2>1 DEF Asked
  <1> HIDE DEF Active
  <1> QED BY <1>1, <1>2, NoneAssumption

(* A producer that is over ends its run in the contract.                    *)
LEMMA EndRefines ==
  ASSUME TypeOK, Registered, OneUncancelled, NEW r \in ChatRuns,
         task[r] = "live" \/ (task[r] = "created" /\ asked[r]),
         task' = [task EXCEPT ![r] = "over"],
         \/ current' = current
         \/ current' = IF current[chatOf[r]] = r
                       THEN [current EXCEPT ![chatOf[r]] = NoRun] ELSE current,
         asked' = asked
  PROVE  Tracker!End(r)
  <1>1. Phase[r] = "live" \/ (Phase[r] = "created" /\ Asked[r])
    BY DEF Phase, Asked
  <1>2. Phase' = [Phase EXCEPT ![r] = "over"]
    BY DEF Phase
  <1>3. ASSUME NEW c \in Chats
        PROVE  Serving'[c] = IF Serving[c] = r THEN NoRun ELSE Serving[c]
    <2>1. CASE current[c] = r
      <3>1. chatOf[r] = c
        BY <2>1 DEF OneUncancelled
      <3>2. ~Active(c)'
        BY <2>1, <3>1
      <3>3. Serving[c] = r
        BY <2>1 DEF Serving
      <3> QED BY <3>2, <3>3 DEF Serving
    <2>2. CASE current[c] # r
      <3>1. current'[c] = current[c]
        BY <2>2
      <3> QED BY <2>2, <3>1 DEF Serving
    <2> QED BY <2>1, <2>2
  <1>4. Serving' = [c \in Chats |-> IF Serving[c] = r THEN NoRun ELSE Serving[c]]
    BY <1>3 DEF Serving
  <1>5. Asked' = Asked
    BY DEF Asked
  <1> QED BY <1>1, <1>2, <1>4, <1>5 DEF Tracker!End

(* However far a cancel request walks in one step, the only chat run it may *)
(* stop is the one that the chat of its own run is serving.                 *)
LEMMA AdvanceRefines ==
  ASSUME TypeOK, Registered, NEW t \in Runs, NEW rest \in Seq(Runs),
         NEW settled \in SUBSET Workflows,
         \A i \in 1..Len(rest) : rest[i] \in Children \cup {t},
         Advance(t, rest, settled)
  PROVE  (\E c \in Chats : Tracker!Ask(c)) \/ UNCHANGED Tracker!vars
  <1>1. PICK i \in 0..Len(rest) : /\ i # 0 => Suspends(rest[i])
                                  /\ AdvanceTo(t, rest, i, settled)
    BY DEF Advance
  <1> DEFINE passed == {rest[j] : j \in (i + 1)..Len(rest)}
             kids == {k \in passed \cap Children : entry[k] = "running"}
             stopped == {x \in passed : Stoppable(x)}
             waits == IF i = 0 THEN {} ELSE {rest[i]}
             signalled == kids \cup waits \cup {current[chatOf[x]] : x \in stopped}
  <1>2. /\ \A x \in Runs : asked'[x] = (asked[x] \/ x \in signalled)
        /\ current' = current /\ task' = task
    BY <1>1 DEF AdvanceTo
  <1>3. kids \subseteq Children /\ waits \subseteq Children
    BY <1>1 DEF Suspends
  <1>4. stopped \subseteq {t}
    <2>1. passed \subseteq Children \cup {t}
      OBVIOUS
    <2> QED BY <2>1 DEF Stoppable
  <1> HIDE DEF passed, kids, waits, signalled
  <1>5. CASE stopped = {}
    <2> HIDE DEF stopped
    <2>1. signalled = kids \cup waits
      BY <1>5 DEF signalled
    <2>2. \A r \in ChatRuns : r \notin signalled
      BY <1>3, <2>1, KindAssumption
    <2>3. \A r \in ChatRuns : asked'[r] = asked[r]
      BY <1>2, <2>2
    <2> QED BY <1>2, <2>3, StutterRefines
  <1>6. CASE stopped # {}
    <2>1. stopped = {t}
      BY <1>4, <1>6
    <2>2. t \in ChatRuns /\ entry[t] = "running" /\ Active(chatOf[t])
      BY <2>1 DEF Stoppable
    <2> HIDE DEF stopped
    <2>3. chatOf[t] \in Chats
      BY <2>2 DEF Registered
    <2>4. signalled = kids \cup waits \cup {current[chatOf[t]]}
      BY <2>1 DEF signalled
    <2>5. \A r \in ChatRuns : asked'[r] = (asked[r] \/ r = current[chatOf[t]])
      BY <1>2, <1>3, <2>4
    <2>6. /\ Serving[chatOf[t]] # NoRun
          /\ Asked' = [Asked EXCEPT ![Serving[chatOf[t]]] = TRUE]
      BY <2>2, <2>3, <2>5, AskRefines
    <2>7. Serving' = Serving /\ Phase' = Phase
      BY <1>2 DEF Serving, Phase
    <2> QED BY <2>3, <2>6, <2>7 DEF Tracker!Ask
  <1> QED BY <1>5, <1>6

(* Every step of run control is a step of the contract or leaves it alone.  *)
LEMMA NextRefines ==
  ASSUME IInv, OwnTree, [Next]_vars
  PROVE  Tracker!Next \/ UNCHANGED Tracker!vars
  <1> TypeOK /\ Registered /\ OneUncancelled
    BY DEF IInv
  <1>1. ASSUME NEW r \in ChatRuns, NEW c \in Chats, StartRun(r, c)
        PROVE  Tracker!Start(r, c)
    <2>1. Serving[c] = NoRun
      BY <1>1 DEF StartRun, Serving
    <2>2. Tracker!Serve(r, c)
      BY <1>1, StartRefines DEF StartRun, Start
    <2>3. Asked' = Asked
      BY <1>1 DEF StartRun, Asked
    <2> QED BY <2>1, <2>2, <2>3 DEF Tracker!Start
  <1>2. ASSUME NEW r \in ChatRuns, NEW c \in Chats, ReplaceRun(r, c)
        PROVE  Tracker!Replace(r, c)
    <2>1. Tracker!Serve(r, c)
      BY <1>2, StartRefines DEF ReplaceRun, Start
    <2>2. Active(c) /\ \A q \in ChatRuns : asked'[q] = (asked[q] \/ q = current[c])
      BY <1>2 DEF ReplaceRun
    <2> QED BY <2>1, <2>2, AskRefines DEF Tracker!Replace
  <1>3. ASSUME NEW c \in Chats, AttachRequest(c) PROVE UNCHANGED Tracker!vars
    BY <1>3, StutterRefines DEF AttachRequest
  <1>4. ASSUME NEW c \in Chats, RequestStop(c) PROVE Tracker!Ask(c)
    <2>1. Active(c) /\ \A q \in ChatRuns : asked'[q] = (asked[q] \/ q = current[c])
      BY <1>4 DEF RequestStop
    <2>2. Serving' = Serving /\ Phase' = Phase
      BY <1>4 DEF RequestStop, Serving, Phase
    <2> QED BY <2>1, <2>2, AskRefines DEF Tracker!Ask
  <1>5. ASSUME NEW r \in ChatRuns, TurnStart(r)
        PROVE  Tracker!Begin(r) \/ Tracker!End(r)
    <2>1. CASE asked[r]
      <3>1. /\ task[r] = "created" /\ task' = [task EXCEPT ![r] = "over"]
            /\ UNCHANGED <<current, asked>>
        BY <1>5, <2>1 DEF TurnStart
      <3> QED BY <2>1, <3>1, EndRefines
    <2>2. CASE ~asked[r]
      <3>1. /\ task[r] = "created" /\ task' = [task EXCEPT ![r] = "live"]
            /\ UNCHANGED <<current, asked>>
        BY <1>5, <2>2 DEF TurnStart
      <3>2. Phase[r] = "created" /\ ~Asked[r] /\ Phase' = [Phase EXCEPT ![r] = "live"]
        BY <2>2, <3>1 DEF Phase, Asked
      <3>3. Serving' = Serving /\ Asked' = Asked
        BY <3>1 DEF Serving, Asked
      <3> QED BY <3>2, <3>3 DEF Tracker!Begin
    <2> QED BY <2>1, <2>2
  <1>6. ASSUME NEW r \in ChatRuns, TurnEnd(r) PROVE Tracker!End(r)
    BY <1>6, EndRefines DEF TurnEnd
  <1>7. ASSUME NEW r \in ChatRuns, NEW k \in Children, StartChild(r, k)
        PROVE  UNCHANGED Tracker!vars
    BY <1>7, StutterRefines DEF StartChild
  <1>8. ASSUME NEW r \in ChatRuns, NEW k \in Spawns, SpawnInterrupted(r, k)
        PROVE  UNCHANGED Tracker!vars
    BY <1>8, StutterRefines DEF SpawnInterrupted
  <1>9. ASSUME NEW k \in Children, SpawnEnd(k) \/ WorkflowEnd(k)
        PROVE  UNCHANGED Tracker!vars
    BY <1>9, StutterRefines DEF SpawnEnd, WorkflowEnd
  <1>10. ASSUME NEW r \in ChatRuns,
               \/ WatcherReports(r)
               \/ ConsumerReports(r) \/ ConsumerCancelled(r) \/ ConsumerTimeout(r)
         PROVE  UNCHANGED Tracker!vars
    BY <1>10, StutterRefines
    DEF WatcherReports, ConsumerReports, ConsumerCancelled, ConsumerTimeout
  <1>11. ASSUME NEW t \in Runs, CancelRun(t)
         PROVE  (\E c \in Chats : Tracker!Ask(c)) \/ UNCHANGED Tracker!vars
    <2>1. /\ Tree(t) \in Seq(Runs) /\ {} \in SUBSET Workflows
          /\ \A i \in 1..Len(Tree(t)) : Tree(t)[i] \in Children \cup {t}
      BY TreeTyped, TreeOwn
    <2>2. Advance(t, Tree(t), {})
      BY <1>11 DEF CancelRun
    <2> HIDE DEF TypeOK, Runs, Children
    <2> QED BY <2>1, <2>2, AdvanceRefines
  <1>12. ASSUME NEW t \in Runs, CancelResume(t)
         PROVE  (\E c \in Chats : Tracker!Ask(c)) \/ UNCHANGED Tracker!vars
    <2>1. todo[t] \in Seq(Runs) /\ {awaited[t]} \in SUBSET Workflows
      BY <1>12 DEF CancelResume
    <2>2. \A i \in 1..Len(todo[t]) : todo[t][i] \in Children \cup {t}
      BY <2>1 DEF OwnTree
    <2>3. Advance(t, todo[t], {awaited[t]})
      BY <1>12 DEF CancelResume
    <2> HIDE DEF TypeOK, Runs, Children
    <2> QED BY <2>1, <2>2, <2>3, AdvanceRefines
  <1>13. CASE UNCHANGED vars
    BY <1>13, StutterRefines DEF vars
  <1> HIDE DEF TypeOK, Runs
  <1> QED
    BY <1>1, <1>2, <1>3, <1>4, <1>5, <1>6, <1>7, <1>8, <1>9, <1>10, <1>11, <1>12, <1>13
    DEF Next, Children, Tracker!Next

(* The tracker under run control is the one that TaskTracker describes: a   *)
(* chat serves one run at a time, and no report and no cancel request stops *)
(* or frees another run than the one its chat is serving.                   *)
THEOREM TrackerIsTheSame == Spec => ImplementsRunRegistry
  <1>1. Init => OwnTree
    BY DEF Init, OwnTree
  <1>2. IInv => TypeOK
    BY DEF IInv
  <1> HIDE DEF TypeOK
  <1>3. IInv /\ OwnTree /\ [Next]_vars => OwnTree'
    BY <1>2, OwnTreeStep
  <1>4. IInv /\ OwnTree /\ [Next]_vars => [Tracker!Next]_(Tracker!vars)
    BY NextRefines
  <1> QED BY InitRefines, Invariance, <1>1, <1>3, <1>4, PTL
          DEF Spec, ImplementsRunRegistry, Tracker!Spec
=============================================================================
