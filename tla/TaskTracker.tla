----------------------------- MODULE TaskTracker -----------------------------
(***************************************************************************)
(* The background-run tracker of a workspace, app/runner/task_tracker.py.   *)
(*                                                                         *)
(* A run is one execution of an agent on a chat.  It is an asyncio task     *)
(* (the producer) that broadcasts the events of its stream to the queues of *)
(* its subscribers and keeps the latest of them in a replay buffer, and a   *)
(* second task (the watchdog) that cancels a producer idle for too long.    *)
(* `registry' is the dictionary _runs: the run that a chat key names now.   *)
(*                                                                         *)
(* No block under the tracker's lock awaits anything, so the lock is never  *)
(* contended and every operation is one atomic step between two awaits of   *)
(* its task.  Task.cancel() is asynchronous: it only requests; the          *)
(* CancelledError is thrown in a later step of the cancelled task, and a    *)
(* task cancelled before its first step never enters its body.              *)
(*                                                                         *)
(* Runs and subscribers are drawn from finite pools and used once.  Events  *)
(* are numbered within their run; their text is left out.                   *)
(***************************************************************************)
EXTENDS Integers, Sequences

CONSTANTS
    Keys,        \* chat identifiers
    Runs,        \* pool of run objects (_RunState)
    Subs,        \* pool of subscribers, each with the queue it was handed
    BufCap,      \* length the replay buffer is cut back to (200 in the code)
    MaxEvents,   \* bound of the model: events a stream yields before it ends
    NoRun, NoKey,
    Sentinel     \* the None that ends a queue

ASSUME BoundsAssumption == BufCap \in Nat \ {0} /\ MaxEvents \in Nat \ {0}
ASSUME NullAssumption == NoRun \notin Runs /\ NoKey \notin Keys
ASSUME SentinelAssumption == Sentinel \notin Int

VARIABLES
    registry,   \* _runs: the run each key names, or NoRun
    owner,      \* the key a run was started for, or NoKey while it is unused
    task,       \* where the run's producer task stands
    cancel,     \* its pending cancellation
    queues,     \* the subscribers the run broadcasts to
    buffer,     \* the run's replay buffer
    emitted,    \* how many events the run has emitted
    idle,       \* last_activity_at lies more than _MAX_RUN_SECONDS back
    watchdog,   \* the run's watchdog task
    inbox,      \* what waits in a subscriber's queue
    stream,     \* the subscriber's stream_from_queue generator
    joined,     \* the run a subscriber was attached to
    seen        \* number of the last event before those in the inbox

runVars == <<registry, owner, task, cancel, queues, buffer, emitted, idle, watchdog>>
subVars == <<inbox, stream, joined, seen>>
vars == <<runVars, subVars>>

TaskState == {"unused", "created", "streaming", "finished", "aborted"}
Event == Nat \cup {Sentinel}

TypeOK ==
    /\ registry \in [Keys -> Runs \cup {NoRun}]
    /\ owner \in [Runs -> Keys \cup {NoKey}]
    /\ task \in [Runs -> TaskState]
    /\ cancel \in [Runs -> {"none", "requested", "delivered"}]
    /\ queues \in [Runs -> SUBSET Subs]
    /\ buffer \in [Runs -> Seq(Nat)]
    /\ emitted \in [Runs -> Nat]
    /\ idle \in [Runs -> BOOLEAN]
    /\ watchdog \in [Runs -> {"none", "asleep", "over"}]
    /\ inbox \in [Subs -> Seq(Event)]
    /\ stream \in [Subs -> {"free", "open", "closed"}]
    /\ joined \in [Subs -> Runs \cup {NoRun}]
    /\ seen \in [Subs -> Int]

Live(r) == task[r] \in {"created", "streaming"}
Done(r) == task[r] \in {"finished", "aborted"}
Open(s) == stream[s] = "open"
HasSentinel(q) == \E i \in 1..Len(q) : q[i] = Sentinel

(* state is not None and not state.task.done() *)
Active(k) == registry[k] # NoRun /\ Live(registry[k])

Init ==
    /\ registry = [k \in Keys |-> NoRun]
    /\ owner = [r \in Runs |-> NoKey]
    /\ task = [r \in Runs |-> "unused"]
    /\ cancel = [r \in Runs |-> "none"]
    /\ queues = [r \in Runs |-> {}]
    /\ buffer = [r \in Runs |-> <<>>]
    /\ emitted = [r \in Runs |-> 0]
    /\ idle = [r \in Runs |-> FALSE]
    /\ watchdog = [r \in Runs |-> "none"]
    /\ inbox = [s \in Subs |-> <<>>]
    /\ stream = [s \in Subs |-> "free"]
    /\ joined = [s \in Subs |-> NoRun]
    /\ seen = [s \in Subs |-> 0]

------------------------------------------------------------------------------
(* Broadcasting.                                                            *)

Deliver(r, e) ==
    [s \in Subs |-> IF s \in queues[r] THEN Append(inbox[s], e) ELSE inbox[s]]

(* Mutant of Latest: cuts the wrong end of the buffer.                      *)
KeepOldest(b) == IF Len(b) > BufCap THEN SubSeq(b, 1, BufCap) ELSE b

(* run.buffer[-200:] *)
Latest(b) == IF Len(b) > BufCap THEN SubSeq(b, Len(b) - BufCap + 1, Len(b)) ELSE b

------------------------------------------------------------------------------
(* Subscribers.                                                             *)

(* A new subscriber s of run r, whose queue starts as q.                    *)
Subscribe(s, r, q, from) ==
    /\ stream[s] = "free"
    /\ stream' = [stream EXCEPT ![s] = "open"]
    /\ joined' = [joined EXCEPT ![s] = r]
    /\ seen' = [seen EXCEPT ![s] = from]

(* The fresh run that attach_or_start installs, with its first subscriber.  *)
Install(s, k, r) ==
    /\ task[r] = "unused"
    /\ registry' = [registry EXCEPT ![k] = r]
    /\ owner' = [owner EXCEPT ![r] = k]
    /\ task' = [task EXCEPT ![r] = "created"]
    /\ queues' = [queues EXCEPT ![r] = {s}]
    /\ watchdog' = [watchdog EXCEPT ![r] = "asleep"]
    /\ Subscribe(s, r, <<>>, 0)
    /\ UNCHANGED <<buffer, emitted, idle>>

(* attach_or_start on a key with no run, or whose run's task is done: the   *)
(* stale entry is overwritten.                                              *)
StartFresh(s, k, r) ==
    /\ ~Active(k)
    /\ Install(s, k, r)
    /\ UNCHANGED <<cancel, inbox>>

(* attach_or_start(force_new=True) on an active key: cancel the old         *)
(* producer, end the old subscribers' streams, install a fresh run.         *)
ForceNew(s, k, r) ==
    /\ Active(k)
    /\ LET old == registry[k] IN
        /\ cancel' = [cancel EXCEPT ![old] = "requested"]
        /\ inbox' = Deliver(old, Sentinel)
    /\ Install(s, k, r)

(* attach, and attach_or_start with or without reconnect, on an active key. *)
(* Only attach and reconnect replay the buffer.                             *)
Attach(s, k, replay) ==
    /\ Active(k)
    /\ LET r == registry[k]
           q == IF replay THEN buffer[r] ELSE <<>> IN
        /\ Subscribe(s, r, q, emitted[r] - Len(q))
        /\ inbox' = [inbox EXCEPT ![s] = q]
        /\ queues' = [queues EXCEPT ![r] = @ \cup {s}]
    /\ UNCHANGED <<registry, owner, task, cancel, buffer, emitted, idle, watchdog>>

(* detach_subscriber: looked up by key, so only the run the key names now   *)
(* loses the queue.                                                         *)
Detach(s) ==
    LET r == registry[owner[joined[s]]] IN
    queues' = IF r = NoRun THEN queues ELSE [queues EXCEPT ![r] = @ \ {s}]

(* One turn of stream_from_queue.                                           *)
Consume(s) ==
    /\ Open(s) /\ inbox[s] # <<>>
    /\ inbox' = [inbox EXCEPT ![s] = Tail(@)]
    /\ \/ /\ Head(inbox[s]) # Sentinel
          /\ seen' = [seen EXCEPT ![s] = Head(inbox[s])]
          /\ UNCHANGED <<stream, queues>>
       \/ /\ Head(inbox[s]) = Sentinel
          /\ stream' = [stream EXCEPT ![s] = "closed"]
          /\ Detach(s)
          /\ UNCHANGED seen
    /\ UNCHANGED <<registry, owner, task, cancel, buffer, emitted, idle, watchdog, joined>>

(* The client goes away: the generator is closed or its task cancelled.     *)
Disconnect(s) ==
    /\ Open(s)
    /\ stream' = [stream EXCEPT ![s] = "closed"]
    /\ Detach(s)
    /\ UNCHANGED <<registry, owner, task, cancel, buffer, emitted, idle, watchdog,
                   inbox, joined, seen>>

------------------------------------------------------------------------------
(* Control by key.                                                          *)

(* request_stop, also what cancel_stale_tasks does to each stale key.       *)
RequestStop(k) ==
    /\ Active(k)
    /\ cancel' = [cancel EXCEPT ![registry[k]] = "requested"]
    /\ UNCHANGED <<registry, owner, task, queues, buffer, emitted, idle, watchdog, subVars>>

(* touch *)
Touch(k) ==
    /\ Active(k)
    /\ idle' = [idle EXCEPT ![registry[k]] = FALSE]
    /\ UNCHANGED <<registry, owner, task, cancel, queues, buffer, emitted, watchdog, subVars>>

------------------------------------------------------------------------------
(* The producer task.                                                       *)

Emit(r) ==
    /\ emitted' = [emitted EXCEPT ![r] = @ + 1]
    /\ inbox' = Deliver(r, emitted[r] + 1)
    /\ UNCHANGED <<stream, joined, seen>>

(* First step of the task: the stream-start marker.                         *)
ProducerStart(r) ==
    /\ task[r] = "created" /\ cancel[r] = "none"
    /\ task' = [task EXCEPT ![r] = "streaming"]
    /\ buffer' = [buffer EXCEPT ![r] = Append(@, emitted[r] + 1)]
    /\ idle' = [idle EXCEPT ![r] = FALSE]
    /\ Emit(r)
    /\ UNCHANGED <<registry, owner, cancel, queues, watchdog>>

(* The stream yields.  A stream that has just been thrown a CancelledError  *)
(* may still yield while it unwinds; one whose cancellation is pending      *)
(* gets the error first.                                                    *)
ProducerEmit(r) ==
    /\ task[r] = "streaming" /\ cancel[r] # "requested" /\ emitted[r] < MaxEvents
    /\ buffer' = [buffer EXCEPT ![r] = Latest(Append(@, emitted[r] + 1))]
    /\ idle' = [idle EXCEPT ![r] = FALSE]
    /\ Emit(r)
    /\ UNCHANGED <<registry, owner, task, cancel, queues, watchdog>>

(* CancelledError is thrown into the stream at its await.                   *)
DeliverCancel(r) ==
    /\ task[r] = "streaming" /\ cancel[r] = "requested"
    /\ cancel' = [cancel EXCEPT ![r] = "delivered"]
    /\ UNCHANGED <<registry, owner, task, queues, buffer, emitted, idle, watchdog, subVars>>

(* Mutant of Finalise: pops whatever run the key names.                     *)
FinaliseAlwaysPops(r) ==
    /\ task' = [task EXCEPT ![r] = "finished"]
    /\ registry' = [registry EXCEPT ![owner[r]] = NoRun]
    /\ watchdog' = [watchdog EXCEPT ![r] = "over"]
    /\ UNCHANGED <<owner, cancel, queues, idle, stream, joined, seen>>

(* The producer's finally: only the run the key still names is removed.     *)
Finalise(r) ==
    /\ task' = [task EXCEPT ![r] = "finished"]
    /\ registry' = IF registry[owner[r]] = r
                   THEN [registry EXCEPT ![owner[r]] = NoRun] ELSE registry
    /\ watchdog' = [watchdog EXCEPT ![r] = "over"]
    /\ UNCHANGED <<owner, cancel, queues, idle, stream, joined, seen>>

(* Mutants of ProducerReturn and ProducerError: no sentinel is sent.        *)
ReturnWithoutSentinel(r) ==
    /\ task[r] = "streaming" /\ cancel[r] # "requested"
    /\ Finalise(r)
    /\ UNCHANGED <<inbox, buffer, emitted>>

ErrorWithoutSentinel(r) ==
    /\ task[r] = "streaming" /\ cancel[r] # "requested"
    /\ buffer' = [buffer EXCEPT ![r] = Append(@, emitted[r] + 1)]
    /\ emitted' = [emitted EXCEPT ![r] = @ + 1]
    /\ inbox' = Deliver(r, emitted[r] + 1)
    /\ Finalise(r)

(* The stream ends, or lets the CancelledError through.                     *)
ProducerReturn(r) ==
    /\ task[r] = "streaming" /\ cancel[r] # "requested"
    /\ inbox' = Deliver(r, Sentinel)
    /\ Finalise(r)
    /\ UNCHANGED <<buffer, emitted>>

(* The stream raises: an error event, which the cap does not apply to, then *)
(* the finally, with no await between them.                                 *)
ProducerError(r) ==
    /\ task[r] = "streaming" /\ cancel[r] # "requested"
    /\ buffer' = [buffer EXCEPT ![r] = Append(@, emitted[r] + 1)]
    /\ emitted' = [emitted EXCEPT ![r] = @ + 1]
    /\ inbox' = [s \in Subs |-> IF s \in queues[r]
                                THEN Append(Append(inbox[s], emitted[r] + 1), Sentinel)
                                ELSE inbox[s]]
    /\ Finalise(r)

(* Mutant of AbortBeforeStart: a task state that done() does not know.      *)
AbortUnknownState(r) ==
    /\ task[r] = "created" /\ cancel[r] = "requested"
    /\ task' = [task EXCEPT ![r] = "cancelled"]
    /\ UNCHANGED <<registry, owner, cancel, queues, buffer, emitted, idle, watchdog, subVars>>

(* Cancelled before its first step: the coroutine is never entered, so      *)
(* neither the except clauses nor the finally run.                          *)
AbortBeforeStart(r) ==
    /\ task[r] = "created" /\ cancel[r] = "requested"
    /\ task' = [task EXCEPT ![r] = "aborted"]
    /\ UNCHANGED <<registry, owner, cancel, queues, buffer, emitted, idle, watchdog, subVars>>

------------------------------------------------------------------------------
(* Time and the watchdog.                                                   *)

(* _MAX_RUN_SECONDS pass without an event or a touch.                       *)
GoIdle(r) ==
    /\ task[r] = "streaming" /\ ~idle[r]
    /\ idle' = [idle EXCEPT ![r] = TRUE]
    /\ UNCHANGED <<registry, owner, task, cancel, queues, buffer, emitted, watchdog, subVars>>

(* Mutant of WatchdogTick: gives up at the first active run it sees.        *)
WatchdogLooksOnce(r) ==
    /\ watchdog[r] = "asleep"
    /\ cancel' = IF Live(r) /\ idle[r] THEN [cancel EXCEPT ![r] = "requested"] ELSE cancel
    /\ watchdog' = [watchdog EXCEPT ![r] = "over"]
    /\ UNCHANGED <<registry, owner, task, queues, buffer, emitted, idle, subVars>>

(* A turn of the watchdog's loop after its sleep.                           *)
WatchdogTick(r) ==
    /\ watchdog[r] = "asleep"
    /\ \/ Done(r) /\ UNCHANGED cancel
       \/ Live(r) /\ idle[r] /\ cancel' = [cancel EXCEPT ![r] = "requested"]
    /\ watchdog' = [watchdog EXCEPT ![r] = "over"]
    /\ UNCHANGED <<registry, owner, task, queues, buffer, emitted, idle, subVars>>

------------------------------------------------------------------------------

Producer(r) ==
    \/ ProducerStart(r)
    \/ ProducerEmit(r)
    \/ DeliverCancel(r)
    \/ ProducerReturn(r)
    \/ ProducerError(r)
    \/ AbortBeforeStart(r)

Next ==
    \/ \E s \in Subs, k \in Keys, r \in Runs : StartFresh(s, k, r) \/ ForceNew(s, k, r)
    \/ \E s \in Subs, k \in Keys, replay \in BOOLEAN : Attach(s, k, replay)
    \/ \E s \in Subs : Consume(s) \/ Disconnect(s)
    \/ \E k \in Keys : RequestStop(k) \/ Touch(k)
    \/ \E r \in Runs : Producer(r) \/ GoIdle(r) \/ WatchdogTick(r)

Spec == Init /\ [][Next]_vars

(* Once cancelled, a stream unwinds instead of swallowing every             *)
(* CancelledError it is thrown.                                             *)
Unwind(r) == cancel[r] = "delivered" /\ (ProducerReturn(r) \/ ProducerError(r))

(* The event loop runs every ready task; a subscriber reads its queue.      *)
Fairness ==
    /\ \A r \in Runs : /\ WF_vars(ProducerStart(r))
                       /\ WF_vars(AbortBeforeStart(r))
                       /\ WF_vars(DeliverCancel(r))
                       /\ SF_vars(Unwind(r))
                       /\ WF_vars(WatchdogTick(r))
    /\ \A s \in Subs : WF_vars(Consume(s))

FairSpec == Spec /\ Fairness

------------------------------------------------------------------------------
(* Properties.                                                              *)

(* A live run that nobody cancelled is the one its key names, so attach,    *)
(* request_stop and has_active_tasks find it; in particular the finally of  *)
(* a replaced run does not remove its replacement.                          *)
LiveRunRegistered ==
    \A r \in Runs : Live(r) /\ cancel[r] = "none" => registry[owner[r]] = r

(* An open stream will be ended: either its sentinel is on the way, or its  *)
(* run still broadcasts to it and has its finally ahead of it.  The one     *)
(* exception is a run aborted before its first step, whose finally never    *)
(* runs (task_tracker.py:298).                                              *)
NoStrandedSubscriber ==
    \A s \in Subs : Open(s) =>
        \/ HasSentinel(inbox[s])
        \/ s \in queues[joined[s]] /\ Live(joined[s])
        \/ task[joined[s]] = "aborted"

(* What waits for a subscriber, up to its sentinel, continues what it has   *)
(* read: replay and live events join without a gap and without a repeat,    *)
(* and nothing the run emitted is missing at the end.                       *)
Before(q, i) == \A j \in 1..i : q[j] # Sentinel
Continues(q, n) == \A i \in 1..Len(q) : Before(q, i) => q[i] = n + i
GapFreeStream ==
    \A s \in Subs : Open(s) =>
        /\ Continues(inbox[s], seen[s])
        /\ ~HasSentinel(inbox[s]) /\ Live(joined[s]) =>
              seen[s] + Len(inbox[s]) = emitted[joined[s]]

(* A run that started and is left idle is cancelled by its watchdog unless  *)
(* it shows activity again; only a run that has swallowed a cancellation    *)
(* (its watchdog may be over) can escape.                                   *)
IdleRunIsCancelled ==
    \A r \in Runs :
        task[r] = "streaming" /\ idle[r] /\ cancel[r] = "none"
            ~> cancel[r] # "none" \/ ~idle[r] \/ Done(r)

(* Cancelling a run that has started releases everyone who streams it.  (A  *)
(* run whose producer was never entered releases nobody by itself: what     *)
(* those who follow it do then is RunsSettle of RunControl.)                *)
CancelReleasesSubscribers ==
    \A s \in Subs, r \in Runs :
        joined[s] = r /\ task[r] = "streaming" /\ cancel[r] # "none" ~> ~Open(s)

------------------------------------------------------------------------------
(* The contract.                                                            *)

(* What a run aborted before its first step leaves in the dictionary is     *)
(* not served.                                                              *)
Serving == [k \in Keys |-> IF Active(k) THEN registry[k] ELSE NoRun]

(* A task waits for its first step, streams, or is done.                    *)
Phase == [r \in Runs |-> IF Done(r) THEN "over"
                         ELSE IF task[r] = "streaming" THEN "live" ELSE task[r]]

Asked == [r \in Runs |-> cancel[r] # "none"]

Contract == INSTANCE RunRegistry WITH
    Chats <- Keys, serving <- Serving, phase <- Phase, asked <- Asked

(* Whoever asks by key gets the one run that is being served: replaced runs *)
(* that unwind, late finallys, aborted starts and watchdogs neither take    *)
(* over a chat nor free one, and no run that is not served is left running  *)
(* without having been cancelled.                                           *)
ImplementsRunRegistry == Contract!Spec
==============================================================================
