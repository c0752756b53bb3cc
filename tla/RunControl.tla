----------------------------- MODULE RunControl -----------------------------
(***************************************************************************)
(* Run control (app/run_control.py) over the chat runs that the console     *)
(* (app/routers/console.py) and the channels (app/channels/base.py) start   *)
(* in the task tracker, and over the children those runs start by tools.    *)
(*                                                                         *)
(* The store is an index: an entry per run, and per chat the run whose      *)
(* cancel function (request_stop of the tracker, by chat) is registered.    *)
(* Neither its lock nor the tracker's is held across a suspension, so a     *)
(* request is one step from its registration to attach_or_start and the     *)
(* unregistration that may follow.  cancel_run suspends only while it waits *)
(* for a workflow to end, two seconds at most.                              *)
(*                                                                         *)
(* A chat run and its producer share a name; of the tracker there is what   *)
(* run control sees (TaskTracker.tla has the rest).  A child is either a    *)
(* spawn_subagents call, which the turn awaits, or a workflow that was      *)
(* started without waiting for it (Workflow.tla has the ones awaited).      *)
(* Terminal entries forgotten after an hour are left out: nothing looks for *)
(* them again.                                                              *)
(***************************************************************************)
EXTENDS Integers, Sequences

CONSTANTS
    Chats,
    ChatRuns,   \* pool of requests that register a run on a chat
    Spawns,     \* pool of children: spawn_subagents calls
    Workflows,  \* pool of children: workflows nobody waits for
    NoRun, NoChat

Children == Spawns \cup Workflows
Runs == ChatRuns \cup Children

ASSUME KindAssumption ==
    /\ Spawns \cap Workflows = {} /\ ChatRuns \cap Children = {}
ASSUME NoneAssumption == NoRun \notin Runs /\ NoChat \notin Chats

VARIABLES
    entry,      \* status of each run in the store, "none" before it registers
    children,   \* child_run_ids of a chat run
    handler,    \* _CHAT_CANCEL_REGISTRY: the run registered for each chat
    chatOf,     \* the chat of a run
    current,    \* the run each chat names in the tracker
    task,       \* the run's producer, or the work of a child
    asked,      \* its task has been cancelled
    ended,      \* the sentinel has been sent to its first subscriber
    follower,   \* who reports its end: the console's watcher or the channel's consumer
    todo,       \* cancel_run of a run: what it has still to cancel, last first
    awaited     \* the workflow it waits for

storeVars == <<entry, children, handler>>
trackerVars == <<chatOf, current, task, asked, ended>>
cancelVars == <<todo, awaited>>
vars == <<storeVars, trackerVars, follower, cancelVars>>

Terminal == {"done", "failed", "cancelled"}

TypeOK ==
    /\ entry \in [Runs -> {"none", "running"} \cup Terminal]
    /\ children \in [ChatRuns -> Seq(Children)]
    /\ handler \in [Chats -> ChatRuns \cup {NoRun}]
    /\ chatOf \in [ChatRuns -> Chats \cup {NoChat}]
    /\ current \in [Chats -> ChatRuns \cup {NoRun}]
    /\ task \in [Runs -> {"none", "created", "live", "over"}]
    /\ asked \in [Runs -> BOOLEAN]
    /\ ended \in [ChatRuns -> BOOLEAN]
    /\ follower \in [ChatRuns -> {"none", "watcher", "consumer", "gone", "left"}]
    /\ todo \in [Runs -> Seq(Runs)]
    /\ awaited \in [Runs -> Workflows \cup {NoRun}]

Init ==
    /\ entry = [x \in Runs |-> "none"]
    /\ children = [r \in ChatRuns |-> <<>>]
    /\ handler = [c \in Chats |-> NoRun]
    /\ chatOf = [r \in ChatRuns |-> NoChat]
    /\ current = [c \in Chats |-> NoRun]
    /\ task = [x \in Runs |-> "none"]
    /\ asked = [x \in Runs |-> FALSE]
    /\ ended = [r \in ChatRuns |-> FALSE]
    /\ follower = [r \in ChatRuns |-> "none"]
    /\ todo = [x \in Runs |-> <<>>]
    /\ awaited = [x \in Runs |-> NoRun]

Live(x) == task[x] \in {"created", "live"}

(* TaskTracker.get_status: by chat, whichever run that names.               *)
Active(c) == current[c] # NoRun /\ Live(current[c])

------------------------------------------------------------------------------
(* Requests on a chat.                                                      *)

(* register, register_chat_cancel_handler, and a new run in the tracker.    *)
Start(r, c, by) ==
    /\ entry[r] = "none"
    /\ entry' = [entry EXCEPT ![r] = "running"]
    /\ handler' = [handler EXCEPT ![c] = r]
    /\ chatOf' = [chatOf EXCEPT ![r] = c]
    /\ current' = [current EXCEPT ![c] = r]
    /\ task' = [task EXCEPT ![r] = "created"]
    /\ follower' = [follower EXCEPT ![r] = by]
    /\ UNCHANGED <<children, cancelVars>>

(* Mutant of StartRun: leaves a registered cancel function alone.           *)
StartKeepsHandler(r, c) ==
    /\ ~Active(c) /\ entry[r] = "none"
    /\ \E by \in {"watcher", "consumer"} : follower' = [follower EXCEPT ![r] = by]
    /\ entry' = [entry EXCEPT ![r] = "running"]
    /\ handler' = IF handler[c] = NoRun THEN [handler EXCEPT ![c] = r] ELSE handler
    /\ chatOf' = [chatOf EXCEPT ![r] = c]
    /\ current' = [current EXCEPT ![c] = r]
    /\ task' = [task EXCEPT ![r] = "created"]
    /\ UNCHANGED <<children, asked, ended, cancelVars>>

(* A request on an idle chat: post_console_chat or _consume_with_tracker.   *)
StartRun(r, c) ==
    /\ ~Active(c)
    /\ \E by \in {"watcher", "consumer"} : Start(r, c, by)
    /\ UNCHANGED <<asked, ended>>

(* runtime_guidance from the console replaces the run of an active chat.    *)
ReplaceRun(r, c) ==
    /\ Active(c)
    /\ asked' = [asked EXCEPT ![current[c]] = TRUE]
    /\ ended' = [ended EXCEPT ![current[c]] = TRUE]
    /\ Start(r, c, "watcher")

(* Any other request on an active chat attaches to its run.  It registered  *)
(* an entry and a cancel function of its own first, and unregisters both.   *)
AttachRequest(c) ==
    /\ Active(c)
    /\ handler' = [handler EXCEPT ![c] = NoRun]
    /\ UNCHANGED <<entry, children, trackerVars, follower, cancelVars>>

(* POST /console/chat/stop, and the first half of /stop: request_stop of    *)
(* the tracker, which run control does not see.                             *)
RequestStop(c) ==
    /\ Active(c)
    /\ asked' = [asked EXCEPT ![current[c]] = TRUE]
    /\ UNCHANGED <<storeVars, chatOf, current, task, ended, follower, cancelVars>>

------------------------------------------------------------------------------
(* Producers and children.                                                  *)

TurnChildren(r) == {children[r][i] : i \in DOMAIN children[r]} \cap Spawns

(* The producer's first step, or none when it was cancelled before it: then *)
(* neither its finally runs nor does its subscriber get the sentinel.       *)
TurnStart(r) ==
    /\ task[r] = "created"
    /\ task' = [task EXCEPT ![r] = IF asked[r] THEN "over" ELSE "live"]
    /\ UNCHANGED <<storeVars, chatOf, current, asked, ended, follower, cancelVars>>

(* Mutant of TurnEnd: makes the chat idle whatever run it names.            *)
TurnEndAlwaysPops(r) ==
    /\ task[r] = "live"
    /\ \A k \in TurnChildren(r) : task[k] = "over"
    /\ task' = [task EXCEPT ![r] = "over"]
    /\ ended' = [ended EXCEPT ![r] = TRUE]
    /\ current' = [current EXCEPT ![chatOf[r]] = NoRun]
    /\ UNCHANGED <<storeVars, chatOf, asked, follower, cancelVars>>

(* The turn ends, cancelled or not; no tool it awaits is left.              *)
TurnEnd(r) ==
    /\ task[r] = "live"
    /\ \A k \in TurnChildren(r) : task[k] = "over"
    /\ task' = [task EXCEPT ![r] = "over"]
    /\ ended' = [ended EXCEPT ![r] = TRUE]
    /\ current' = IF current[chatOf[r]] = r
                  THEN [current EXCEPT ![chatOf[r]] = NoRun] ELSE current
    /\ UNCHANGED <<storeVars, chatOf, asked, follower, cancelVars>>

(* A tool of the turn starts child k and registers it under the turn's run, *)
(* which its context names.  A turn may go on after a cancellation that a   *)
(* spawn_subagents call swallowed.                                          *)
StartChild(r, k) ==
    /\ task[r] = "live" /\ entry[k] = "none"
    /\ entry' = [entry EXCEPT ![k] = "running"]
    /\ children' = [children EXCEPT ![r] = Append(@, k)]
    /\ task' = [task EXCEPT ![k] = "live"]
    /\ UNCHANGED <<handler, chatOf, current, asked, ended, follower, cancelVars>>

(* A cancellation of the turn, or of the call, reaches the gather of the    *)
(* subagents: the call first writes "cancelled" and waits for its progress  *)
(* task.                                                                    *)
SpawnInterrupted(r, k) ==
    /\ k \in TurnChildren(r) /\ task[k] = "live"
    /\ asked[r] \/ asked[k]
    /\ entry' = [entry EXCEPT ![k] = "cancelled"]
    /\ asked' = [asked EXCEPT ![k] = TRUE]
    /\ UNCHANGED <<children, handler, chatOf, current, task, ended, follower, cancelVars>>

(* The subagents have answered or were cancelled; either way the call       *)
(* writes whether all of them succeeded.                                    *)
SpawnEnd(k) ==
    /\ task[k] = "live"
    /\ task' = [task EXCEPT ![k] = "over"]
    /\ \E s \in {"done", "failed"} : entry' = [entry EXCEPT ![k] = s]
    /\ UNCHANGED <<children, handler, chatOf, current, asked, ended, follower, cancelVars>>

(* Nobody tells run control that a workflow not waited for has ended.       *)
WorkflowEnd(k) ==
    /\ task[k] = "live"
    /\ task' = [task EXCEPT ![k] = "over"]
    /\ UNCHANGED <<storeVars, chatOf, current, asked, ended, follower, cancelVars>>

------------------------------------------------------------------------------
(* Reporting the end of a run.                                              *)

(* Mutant of Unregister: whatever run is registered.                        *)
UnregisterAny(c, r) == handler' = [handler EXCEPT ![c] = NoRun]

(* unregister_chat_cancel with a run: only if it is that run's.             *)
Unregister(c, r) ==
    handler' = IF handler[c] = r THEN [handler EXCEPT ![c] = NoRun] ELSE handler

(* update_status with a terminal status.                                    *)
Settle(r, status) ==
    /\ entry' = [entry EXCEPT ![r] = status]
    /\ Unregister(chatOf[r], r)

(* Mutants of WatcherReports: does not ask the tracker; asks whether the    *)
(* tracker still names the run.                                             *)
WatcherHasty(r) ==
    /\ follower[r] = "watcher" /\ entry[r] = "running"
    /\ Settle(r, "done")
    /\ UNCHANGED <<children, trackerVars, follower, cancelVars>>

WatcherWaitsForRemoval(r) ==
    /\ follower[r] = "watcher" /\ entry[r] = "running" /\ current[chatOf[r]] # r
    /\ Settle(r, "done")
    /\ UNCHANGED <<children, trackerVars, follower, cancelVars>>

(* _watch_chat_done, and the finally of event_generator: the chat is idle   *)
(* and the entry not terminal.                                              *)
WatcherReports(r) ==
    /\ follower[r] = "watcher" /\ entry[r] = "running" /\ ~Active(chatOf[r])
    /\ Settle(r, "done")
    /\ UNCHANGED <<children, trackerVars, follower, cancelVars>>

(* The consumer has drained its queue up to the sentinel; it writes "done"  *)
(* over whatever is there.                                                  *)
ConsumerReports(r) ==
    /\ follower[r] = "consumer" /\ ended[r]
    /\ follower' = [follower EXCEPT ![r] = "gone"]
    /\ Settle(r, "done")
    /\ UNCHANGED <<children, trackerVars, cancelVars>>

(* Mutant of ConsumerCancelled: a status the store does not know.           *)
ConsumerInterrupted(r) ==
    /\ follower[r] = "consumer"
    /\ follower' = [follower EXCEPT ![r] = "left"]
    /\ Settle(r, "interrupted")
    /\ UNCHANGED <<children, trackerVars, cancelVars>>

(* The consumer is cancelled (evicted or stopped by the queue manager) and  *)
(* leaves the producer to itself: "cancelled" up to Python 3.11, "done"     *)
(* later, where stream_from_queue swallows the cancellation.                *)
ConsumerCancelled(r) ==
    /\ follower[r] = "consumer"
    /\ follower' = [follower EXCEPT ![r] = "left"]
    /\ \E s \in {"done", "cancelled"} : Settle(r, s)
    /\ UNCHANGED <<children, trackerVars, cancelVars>>

(* Six hours without the sentinel.  wait_for cancels the drain, which       *)
(* stream_from_queue turns into a normal end: no TimeoutError is raised, so *)
(* the branch that would stop the producer is not reached.                  *)
ConsumerTimeout(r) ==
    /\ follower[r] = "consumer" /\ ~ended[r]
    /\ follower' = [follower EXCEPT ![r] = "left"]
    /\ Settle(r, "done")
    /\ UNCHANGED <<children, trackerVars, cancelVars>>

------------------------------------------------------------------------------
(* cancel_run, on its own, for each run of cancel_all in turn, or for       *)
(* request_guidance.  At most one call per run at a time (a bound).         *)

(* _cancel_single of a chat run: the cancel function registered for its     *)
(* chat succeeds when the chat is active.                                   *)
Stoppable(t) ==
    /\ t \in ChatRuns /\ entry[t] = "running"
    /\ handler[chatOf[t]] # NoRun /\ Active(chatOf[t])

(* cancel_workflow waits for a workflow that is not over.                   *)
Suspends(x) == x \in Workflows /\ entry[x] = "running" /\ task[x] = "live"

(* cancel_run(t) cancels what follows position i of `rest' and, if i is not *)
(* 0, turns to the workflow at i and waits for it; `settled' is what the    *)
(* wait that is over leaves cancelled.                                      *)
AdvanceTo(t, rest, i, settled) ==
    LET passed == {rest[j] : j \in (i + 1)..Len(rest)}
        kids == {k \in passed \cap Children : entry[k] = "running"}
        stopped == {x \in passed : Stoppable(x)}
        waits == IF i = 0 THEN {} ELSE {rest[i]}
        signalled == kids \cup waits \cup {current[chatOf[x]] : x \in stopped} IN
    /\ entry' = [x \in Runs |-> IF x \in kids \cup stopped \cup settled
                                THEN "cancelled" ELSE entry[x]]
    /\ handler' = [c \in Chats |-> IF handler[c] \in stopped THEN NoRun ELSE handler[c]]
    /\ asked' = [x \in Runs |-> asked[x] \/ x \in signalled]
    /\ awaited' = [awaited EXCEPT ![t] = IF i = 0 THEN NoRun ELSE rest[i]]
    /\ todo' = [todo EXCEPT ![t] = IF i = 0 THEN <<>> ELSE SubSeq(rest, 1, i - 1)]
    /\ UNCHANGED <<children, chatOf, current, task, ended, follower>>

(* From the end (the leaves) towards t itself, up to the next workflow it   *)
(* has to wait for.                                                         *)
Advance(t, rest, settled) ==
    \E i \in 0..Len(rest) :
        /\ i # 0 => Suspends(rest[i])
        /\ \A j \in (i + 1)..Len(rest) : ~Suspends(rest[j])
        /\ AdvanceTo(t, rest, i, settled)

(* get_run_tree: the run and its children, as they are now.                 *)
Tree(t) == IF t \in ChatRuns THEN <<t>> \o children[t] ELSE <<t>>

CancelRun(t) ==
    /\ entry[t] = "running" /\ awaited[t] = NoRun
    /\ Advance(t, Tree(t), {})

(* The workflow is over, or two seconds are.                                *)
CancelResume(t) ==
    /\ awaited[t] # NoRun
    /\ Advance(t, todo[t], {awaited[t]})

------------------------------------------------------------------------------

Next ==
    \/ \E r \in ChatRuns, c \in Chats : StartRun(r, c) \/ ReplaceRun(r, c)
    \/ \E c \in Chats : AttachRequest(c) \/ RequestStop(c)
    \/ \E r \in ChatRuns :
        \/ TurnStart(r) \/ TurnEnd(r)
        \/ \E k \in Children : StartChild(r, k)
        \/ \E k \in Spawns : SpawnInterrupted(r, k)
    \/ \E k \in Spawns : SpawnEnd(k)
    \/ \E k \in Workflows : WorkflowEnd(k)
    \/ \E r \in ChatRuns :
        \/ WatcherReports(r)
        \/ ConsumerReports(r) \/ ConsumerCancelled(r) \/ ConsumerTimeout(r)
    \/ \E t \in Runs : CancelRun(t) \/ CancelResume(t)

Spec == Init /\ [][Next]_vars

(* The loop runs every ready task, a turn and its subagents end, and a      *)
(* watcher or consumer looks again.  Nobody has to cancel anything.         *)
Fairness ==
    /\ \A r \in ChatRuns :
        /\ WF_vars(TurnStart(r)) /\ WF_vars(TurnEnd(r))
        /\ WF_vars(WatcherReports(r))
        /\ WF_vars(ConsumerReports(r)) /\ WF_vars(ConsumerTimeout(r))
    /\ \A k \in Spawns : WF_vars(SpawnEnd(k))

FairSpec == Spec /\ Fairness

------------------------------------------------------------------------------
(* Properties.                                                              *)

(* A cancel function is registered for a run that counts as running, on     *)
(* that run's chat, and what it would stop there is that run's producer:    *)
(* replacements, late reports and cancellations never leave one run's       *)
(* cancel function to stop another run (run_control.py:118-160).            *)
HandlerTruthful ==
    \A c \in Chats : handler[c] # NoRun =>
        /\ entry[handler[c]] = "running" /\ chatOf[handler[c]] = c
        /\ Active(c) => current[c] = handler[c]

(* A run that run control calls done, failed or cancelled has ended or been *)
(* cancelled, though ends are detected by chat and written by watchers,     *)
(* consumers and cancel requests in any order; the exception is a channel   *)
(* run whose consumer has left it to itself (base.py:563, 582).             *)
SettledIsEnding ==
    \A x \in Runs : entry[x] \in Terminal =>
        \/ task[x] = "over" \/ asked[x]
        \/ x \in ChatRuns /\ follower[x] = "left"

(* "This avoids an older run's completion wiping out a newer run's handler  *)
(* for the same chat_id" (run_control.py:149): a run loses its cancel       *)
(* function only by its own end, or to a request that comes after it.       *)
ControlKept ==
    [][\A c \in Chats : handler[c] # NoRun /\ handler'[c] # handler[c] =>
        \/ entry'[handler[c]] # "running"
        \/ current'[c] # current[c]
        \/ UNCHANGED <<entry, asked, task>>]_vars

(* Every chat run leaves the list of active runs, also one that was         *)
(* replaced or cancelled before its first step, however ends are polled by  *)
(* chat and a missing sentinel is only noticed by the timeout.              *)
RunsSettle ==
    \A r \in ChatRuns : entry[r] = "running" ~> entry[r] \in Terminal

(* "Cancels the run **and all children** recursively." (run_control.py:298) *)
(* When cancel_run on a chat run comes to its end, neither the run nor a    *)
(* live workflow under it is left unsignalled.                              *)
CancelsTree ==
    [][\A r \in ChatRuns :
        (CancelRun(r) \/ CancelResume(r)) /\ awaited'[r] = NoRun =>
            \A x \in {r} \cup {children[r][i] : i \in DOMAIN children[r]} :
                entry[x] = "running" /\ task[x] = "live" => asked'[x]]_vars

------------------------------------------------------------------------------
(* The tracker under run control.                                           *)

(* A run aborted before its first step leaves its name with the chat, which *)
(* is not served by it.                                                     *)
Serving == [c \in Chats |-> IF Active(c) THEN current[c] ELSE NoRun]

Phase == [r \in ChatRuns |-> IF task[r] = "none" THEN "unused" ELSE task[r]]

Asked == [r \in ChatRuns |-> asked[r]]

Tracker == INSTANCE RunRegistry WITH
    Runs <- ChatRuns, serving <- Serving, phase <- Phase, asked <- Asked

(* The tracker that run control is modelled over keeps the contract that    *)
(* TaskTracker keeps; every cancel request, however long its walk down a    *)
(* tree, stops at most the one run its chat is serving.                     *)
ImplementsRunRegistry == Tracker!Spec
==============================================================================
