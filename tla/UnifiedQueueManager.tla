------------------------- MODULE UnifiedQueueManager -------------------------
(***************************************************************************)
(* Per-session message queues of the channels:                              *)
(* app/channels/unified_queue_manager.py with the enqueueing and consuming  *)
(* ends that app/channels/manager.py gives it (_enqueue_one,                *)
(* _enqueue_with_timeout, _consume_queue, stop_all).                        *)
(*                                                                         *)
(* A key stands for (channel, session, priority).  A queue object is an     *)
(* asyncio.Queue together with the one consumer task created for it; the    *)
(* dictionary _queues names at most one object per key, but an object that  *)
(* left the dictionary lives on as long as its consumer does.               *)
(*                                                                         *)
(* No block under the manager's lock awaits, so each is one atomic step.    *)
(* The awaits that do suspend: a put (wait_for runs it in a task of its     *)
(* own), the consumer's get and the processing of its batch, the cleanup    *)
(* loop waiting for the consumer it cancelled, and the waits of stop_all.   *)
(*                                                                         *)
(* A batch is everything waiting in the queue, so order inside a queue is   *)
(* left out: what waits in q is the set of messages put there.              *)
(***************************************************************************)
EXTENDS Integers, FiniteSets

CONSTANTS
    Keys,
    QObjs,          \* pool of queue objects
    Msgs,           \* pool of messages
    MaxSize,        \* queue_maxsize (1000 in the code)
    IdleKeys,       \* keys whose traffic may pause for longer than idle_timeout
    SwallowsCancel, \* Python 3.12 and later: stream_from_queue turns the cancellation
                    \* of a busy consumer into a normal return, since wait_for no
                    \* longer runs _drain_stream in a task of its own
    NoQueue, NoKey

ASSUME SizeAssumption == MaxSize \in Nat \ {0}
ASSUME IdleAssumption == IdleKeys \subseteq Keys /\ SwallowsCancel \in BOOLEAN
ASSUME NoneAssumption == NoQueue \notin QObjs /\ NoKey \notin Keys

VARIABLES
    queues,     \* _queues: the object each key names, or NoQueue
    keyOf,      \* the key an object was created for
    idle,       \* its last_activity is more than idle_timeout old
    consumer,   \* where its consumer task stands
    cancelled,  \* a cancellation of that task is pending
    msg,        \* where each message stands
    dest,       \* the key a message was submitted to
    target,     \* the queue object its put goes to
    cleaner,    \* the cleanup loop: asleep, awaiting a consumer, stopped
    todo,       \* to_cleanup: keys of the sweep still to look at
    awaited,    \* the object whose consumer the cleanup loop awaits
    stopper     \* progress of stop_all

qVars == <<queues, keyOf, idle, consumer, cancelled>>
mVars == <<msg, dest, target>>
cVars == <<cleaner, todo, awaited>>
vars == <<qVars, mVars, cVars, stopper>>

ConsumerState == {"unused", "created", "waiting", "busy", "done"}
MsgState == {"unsent", "submitted", "putting", "queued", "handled", "dropped"}
StopState == {"running", "draining", "halting", "waiting", "stopped"}

TypeOK ==
    /\ queues \in [Keys -> QObjs \cup {NoQueue}]
    /\ keyOf \in [QObjs -> Keys \cup {NoKey}]
    /\ idle \in [QObjs -> BOOLEAN]
    /\ consumer \in [QObjs -> ConsumerState]
    /\ cancelled \in [QObjs -> BOOLEAN]
    /\ msg \in [Msgs -> MsgState]
    /\ dest \in [Msgs -> Keys \cup {NoKey}]
    /\ target \in [Msgs -> QObjs \cup {NoQueue}]
    /\ cleaner \in {"asleep", "awaiting", "stopped"}
    /\ todo \in SUBSET Keys
    /\ awaited \in QObjs \cup {NoQueue}
    /\ stopper \in StopState

Init ==
    /\ queues = [k \in Keys |-> NoQueue]
    /\ keyOf = [q \in QObjs |-> NoKey]
    /\ idle = [q \in QObjs |-> FALSE]
    /\ consumer = [q \in QObjs |-> "unused"]
    /\ cancelled = [q \in QObjs |-> FALSE]
    /\ msg = [m \in Msgs |-> "unsent"]
    /\ dest = [m \in Msgs |-> NoKey]
    /\ target = [m \in Msgs |-> NoQueue]
    /\ cleaner = "asleep"
    /\ todo = {}
    /\ awaited = NoQueue
    /\ stopper = "running"

Items(q) == {m \in Msgs : msg[m] = "queued" /\ target[m] = q}
Full(q) == Cardinality(Items(q)) >= MaxSize
Putters(q) == {m \in Msgs : msg[m] = "putting" /\ target[m] = q}
LiveConsumer(q) == consumer[q] \in {"created", "waiting", "busy"}

(* stop_all has not yet cancelled the consumers.                            *)
Serving == stopper \notin {"waiting", "stopped"}

------------------------------------------------------------------------------
(* Enqueueing.                                                              *)

(* ChannelManager._enqueue_one: one task per message.  After stop_all the   *)
(* manager is gone and the message is refused.                              *)
Submit(m, k) ==
    /\ msg[m] = "unsent" /\ stopper # "stopped"
    /\ msg' = [msg EXCEPT ![m] = "submitted"]
    /\ dest' = [dest EXCEPT ![m] = k]
    /\ UNCHANGED <<qVars, target, cVars, stopper>>

(* Mutant of Resolve: creates a queue without looking for one.              *)
ResolveAlwaysCreates(m) ==
    LET k == dest[m] IN
    /\ msg[m] = "submitted" /\ stopper # "stopped"
    /\ msg' = [msg EXCEPT ![m] = "putting"]
    /\ \E q \in QObjs :
        /\ consumer[q] = "unused"
        /\ target' = [target EXCEPT ![m] = q]
        /\ queues' = [queues EXCEPT ![k] = q]
        /\ keyOf' = [keyOf EXCEPT ![q] = k]
        /\ consumer' = [consumer EXCEPT ![q] = "created"]
    /\ UNCHANGED <<idle, cancelled, dest, cVars, stopper>>

(* _get_or_create_queue, and the activity stamp of enqueue.                 *)
Resolve(m) ==
    LET k == dest[m] IN
    /\ msg[m] = "submitted" /\ stopper # "stopped"
    /\ msg' = [msg EXCEPT ![m] = "putting"]
    /\ \/ /\ queues[k] # NoQueue
          /\ target' = [target EXCEPT ![m] = queues[k]]
          /\ idle' = [idle EXCEPT ![queues[k]] = FALSE]
          /\ UNCHANGED <<queues, keyOf, consumer>>
       \/ \E q \in QObjs :
          /\ queues[k] = NoQueue /\ consumer[q] = "unused"
          /\ target' = [target EXCEPT ![m] = q]
          /\ queues' = [queues EXCEPT ![k] = q]
          /\ keyOf' = [keyOf EXCEPT ![q] = k]
          /\ consumer' = [consumer EXCEPT ![q] = "created"]
          /\ UNCHANGED idle
    /\ UNCHANGED <<cancelled, dest, cVars, stopper>>

(* Mutant of RefuseLate: a message state nothing else knows.                *)
RefuseUnknownState(m) ==
    /\ msg[m] = "submitted" /\ stopper = "stopped"
    /\ msg' = [msg EXCEPT ![m] = "refused"]
    /\ UNCHANGED <<qVars, dest, target, cVars, stopper>>

(* The task finds that stop_all has already dropped the queue manager.      *)
RefuseLate(m) ==
    /\ msg[m] = "submitted" /\ stopper = "stopped"
    /\ msg' = [msg EXCEPT ![m] = "dropped"]
    /\ UNCHANGED <<qVars, dest, target, cVars, stopper>>

(* queue.put succeeds, in a later step than the lookup.                     *)
Put(m) ==
    /\ msg[m] = "putting" /\ ~Full(target[m])
    /\ msg' = [msg EXCEPT ![m] = "queued"]
    /\ UNCHANGED <<qVars, dest, target, cVars, stopper>>

(* Thirty seconds on a full queue: the message is given up.                 *)
PutTimeout(m) ==
    /\ msg[m] = "putting" /\ Full(target[m])
    /\ msg' = [msg EXCEPT ![m] = "dropped"]
    /\ UNCHANGED <<qVars, dest, target, cVars, stopper>>

(* clear_queue, sent by the /stop command.                                  *)
Clear(k) ==
    /\ queues[k] # NoQueue /\ Items(queues[k]) # {} /\ stopper # "stopped"
    /\ msg' = [m \in Msgs |-> IF m \in Items(queues[k]) THEN "dropped" ELSE msg[m]]
    /\ UNCHANGED <<qVars, dest, target, cVars, stopper>>

------------------------------------------------------------------------------
(* The consumer task of a queue object: _run_consumer around _consume_queue *)

ConsumerStart(q) ==
    /\ consumer[q] = "created" /\ ~cancelled[q]
    /\ consumer' = [consumer EXCEPT ![q] = "waiting"]
    /\ UNCHANGED <<queues, keyOf, idle, cancelled, mVars, cVars, stopper>>

(* Cancelled before its first step: the finally never runs.                 *)
ConsumerAbort(q) ==
    /\ consumer[q] = "created" /\ cancelled[q]
    /\ consumer' = [consumer EXCEPT ![q] = "done"]
    /\ UNCHANGED <<queues, keyOf, idle, cancelled, mVars, cVars, stopper>>

(* get returns and the queue is drained into one batch.                     *)
Take(q) ==
    /\ consumer[q] = "waiting" /\ ~cancelled[q] /\ Items(q) # {}
    /\ consumer' = [consumer EXCEPT ![q] = "busy"]
    /\ msg' = [m \in Msgs |-> IF m \in Items(q) THEN "handled" ELSE msg[m]]
    /\ UNCHANGED <<queues, keyOf, idle, cancelled, dest, target, cVars, stopper>>

(* increment_processed: by key, so the object the key names now.            *)
Refresh(k) ==
    idle' = IF queues[k] = NoQueue THEN idle ELSE [idle EXCEPT ![queues[k]] = FALSE]

(* The batch has been processed.                                            *)
ConsumerNext(q) ==
    /\ consumer[q] = "busy" /\ ~cancelled[q]
    /\ consumer' = [consumer EXCEPT ![q] = "waiting"]
    /\ Refresh(keyOf[q])
    /\ UNCHANGED <<queues, keyOf, cancelled, mVars, cVars, stopper>>

(* Mutant of ConsumerFail: the error ends the loop with the key still       *)
(* registered.                                                              *)
FailEndsConsumer(q) ==
    /\ consumer[q] = "busy" /\ ~cancelled[q]
    /\ consumer' = [consumer EXCEPT ![q] = "done"]
    /\ UNCHANGED <<queues, keyOf, idle, cancelled, mVars, cVars, stopper>>

(* Processing raised: logged, and the loop goes on.                         *)
ConsumerFail(q) ==
    /\ consumer[q] = "busy" /\ ~cancelled[q]
    /\ consumer' = [consumer EXCEPT ![q] = "waiting"]
    /\ UNCHANGED <<queues, keyOf, idle, cancelled, mVars, cVars, stopper>>

(* CancelledError breaks the loop; the finally removes whatever object the  *)
(* key names now.                                                           *)
ConsumerExit(q) ==
    /\ consumer[q] \in {"waiting", "busy"} /\ cancelled[q]
    /\ consumer' = [consumer EXCEPT ![q] = "done"]
    /\ queues' = [queues EXCEPT ![keyOf[q]] = NoQueue]
    /\ UNCHANGED <<keyOf, idle, cancelled, mVars, cVars, stopper>>

(* The CancelledError is swallowed inside the batch, which then counts as   *)
(* processed.                                                               *)
ConsumerSwallow(q) ==
    /\ SwallowsCancel
    /\ consumer[q] = "busy" /\ cancelled[q]
    /\ consumer' = [consumer EXCEPT ![q] = "waiting"]
    /\ cancelled' = [cancelled EXCEPT ![q] = FALSE]
    /\ Refresh(keyOf[q])
    /\ UNCHANGED <<queues, keyOf, mVars, cVars, stopper>>

------------------------------------------------------------------------------
(* The cleanup loop.                                                        *)

(* More than idle_timeout passes without activity.  No put is pending for   *)
(* that long, no ready consumer waits that long to run, and stop_all does   *)
(* not take that long; a batch may well be processed for that long.         *)
GoIdle(q) ==
    /\ stopper = "running"
    /\ LiveConsumer(q) /\ keyOf[q] \in IdleKeys /\ ~idle[q]
    /\ Putters(q) = {} /\ ~cancelled[q]
    /\ \/ consumer[q] = "waiting" /\ Items(q) = {}
       \/ consumer[q] = "busy"
    /\ idle' = [idle EXCEPT ![q] = TRUE]
    /\ UNCHANGED <<queues, keyOf, consumer, cancelled, mVars, cVars, stopper>>

(* The keys the scan under the lock selects.                                *)
IdleEmpty == {k \in Keys : queues[k] # NoQueue /\ Items(queues[k]) = {} /\ idle[queues[k]]}

(* Mutant of Sweep: leaves the removal of the key to the consumer's finally *)
SweepKeepsKey(T) ==
    LET present == {k \in T : queues[k] # NoQueue} IN
    \/ \E k \in present :
        /\ cancelled' = [cancelled EXCEPT ![queues[k]] = TRUE]
        /\ awaited' = queues[k]
        /\ todo' = present \ {k}
        /\ cleaner' = "awaiting"
        /\ UNCHANGED queues
    \/ /\ present = {}
       /\ cleaner' = IF stopper \in {"running", "draining"} THEN "asleep" ELSE "stopped"
       /\ todo' = {} /\ awaited' = NoQueue
       /\ UNCHANGED <<queues, cancelled>>

(* The rest of the sweep: the next key of T still in the dictionary is      *)
(* removed, without looking again whether it is idle, and its consumer      *)
(* cancelled and awaited.                                                   *)
Sweep(T) ==
    LET present == {k \in T : queues[k] # NoQueue} IN
    \/ \E k \in present :
        /\ queues' = [queues EXCEPT ![k] = NoQueue]
        /\ cancelled' = [cancelled EXCEPT ![queues[k]] = TRUE]
        /\ awaited' = queues[k]
        /\ todo' = present \ {k}
        /\ cleaner' = "awaiting"
    \/ /\ present = {}
       /\ cleaner' = IF stopper \in {"running", "draining"} THEN "asleep" ELSE "stopped"
       /\ todo' = {} /\ awaited' = NoQueue
       /\ UNCHANGED <<queues, cancelled>>

(* The scan and the first eviction follow each other without an await.      *)
CleanerScan ==
    /\ cleaner = "asleep" /\ IdleEmpty # {}
    /\ Sweep(IdleEmpty)
    /\ UNCHANGED <<keyOf, idle, consumer, mVars, stopper>>

CleanerAwaited ==
    /\ cleaner = "awaiting" /\ consumer[awaited] = "done"
    /\ Sweep(todo)
    /\ UNCHANGED <<keyOf, idle, consumer, mVars, stopper>>

------------------------------------------------------------------------------
(* ChannelManager.stop_all and UnifiedQueueManager.stop_all.                *)

(* Cancel the pending enqueue tasks.                                        *)
StopEnqueues ==
    /\ stopper = "running"
    /\ stopper' = "draining"
    /\ msg' = [m \in Msgs |-> IF msg[m] \in {"submitted", "putting"}
                              THEN "dropped" ELSE msg[m]]
    /\ UNCHANGED <<qVars, dest, target, cVars>>

(* Mutant of StopCleaner: clears _running but does not wake a sleeping loop *)
StopCleanerNoCancel ==
    /\ stopper = "draining"
    /\ stopper' = "halting"
    /\ UNCHANGED <<qVars, mVars, cVars>>

(* Clear _running and cancel the cleanup task.  A cleanup loop that awaits  *)
(* a consumer passes the cancellation on to that consumer.                  *)
StopCleaner ==
    /\ stopper = "draining"
    /\ stopper' = "halting"
    /\ IF cleaner = "asleep"
       THEN cleaner' = "stopped" /\ UNCHANGED cancelled
       ELSE cancelled' = [cancelled EXCEPT ![awaited] = TRUE] /\ UNCHANGED cleaner
    /\ UNCHANGED <<queues, keyOf, idle, consumer, mVars, todo, awaited>>

(* Once the cleanup task has ended: cancel the consumers of the dictionary. *)
StopConsumers ==
    /\ stopper = "halting" /\ cleaner = "stopped"
    /\ stopper' = "waiting"
    /\ cancelled' = [q \in QObjs |-> cancelled[q] \/ \E k \in Keys : queues[k] = q]
    /\ UNCHANGED <<queues, keyOf, idle, consumer, mVars, cVars>>

(* They have ended, or five seconds were not enough for a busy one; the     *)
(* dictionary is cleared.                                                   *)
StopFinish ==
    /\ stopper = "waiting"
    /\ \A q \in QObjs : cancelled[q] => consumer[q] \in {"busy", "done"}
    /\ stopper' = "stopped"
    /\ queues' = [k \in Keys |-> NoQueue]
    /\ UNCHANGED <<keyOf, idle, consumer, cancelled, mVars, cVars>>

------------------------------------------------------------------------------

Enqueue ==
    \E m \in Msgs :
        \/ \E k \in Keys : Submit(m, k)
        \/ Resolve(m) \/ RefuseLate(m) \/ Put(m) \/ PutTimeout(m)

Consumer(q) ==
    \/ ConsumerStart(q) \/ ConsumerAbort(q)
    \/ Take(q) \/ ConsumerNext(q) \/ ConsumerFail(q)
    \/ ConsumerExit(q) \/ ConsumerSwallow(q)

Cleanup == CleanerScan \/ CleanerAwaited

Stop == StopEnqueues \/ StopCleaner \/ StopConsumers \/ StopFinish

Next ==
    \/ Enqueue
    \/ \E k \in Keys : Clear(k)
    \/ \E q \in QObjs : Consumer(q) \/ GoIdle(q)
    \/ Cleanup
    \/ Stop

Spec == Init /\ [][Next]_vars

(* The loop runs ready tasks, a batch is processed in finite time, and a    *)
(* stop_all that has begun goes on.  Nobody has to stop the manager.        *)
Fairness ==
    /\ \A q \in QObjs :
        /\ WF_vars(ConsumerStart(q) \/ ConsumerAbort(q))
        /\ WF_vars(Take(q))
        /\ WF_vars(ConsumerNext(q) \/ ConsumerFail(q))
        /\ WF_vars(ConsumerExit(q) \/ ConsumerSwallow(q))
    /\ WF_vars(CleanerAwaited)
    /\ WF_vars(StopCleaner) /\ WF_vars(StopConsumers) /\ WF_vars(StopFinish)

FairSpec == Spec /\ Fairness

------------------------------------------------------------------------------
(* Properties.                                                              *)

(* Whatever the cleanup loop, failing batches and displaced consumers do, a *)
(* queue found in the dictionary has a consumer that is alive and not about *)
(* to be cancelled, until stop_all cancels them all: a message routed by    *)
(* key is never put before a dead consumer.  (Whether another consumer of   *)
(* the key still runs beside it is the matter of StrictSerialization.)      *)
RegisteredConsumerLive ==
    \A k \in Keys : queues[k] # NoQueue /\ Serving =>
        /\ keyOf[queues[k]] = k
        /\ LiveConsumer(queues[k]) /\ ~cancelled[queues[k]]

(* No two batches of a steady key, one whose traffic never pauses for       *)
(* idle_timeout, are processed at a time, whatever the cleanup loop does to *)
(* the other keys, until stop_all cancels the consumers.                    *)
SteadyKeysSerial ==
    Serving =>
        \A p, q \in QObjs :
            /\ consumer[p] = "busy" /\ consumer[q] = "busy"
            /\ keyOf[p] = keyOf[q] /\ keyOf[p] \notin IdleKeys
            => p = q

(* The running consumer of a steady key is the one the key names, so later  *)
(* messages, clear_queue, the cleanup loop and stop_all all reach it.       *)
SteadyConsumerRegistered ==
    Serving =>
        \A q \in QObjs :
            LiveConsumer(q) /\ keyOf[q] \notin IdleKeys => queues[keyOf[q]] = q

(* A queued message of a steady key is taken into a batch or cleared while  *)
(* the manager runs.                                                        *)
QueuedIsTaken ==
    \A m \in Msgs :
        msg[m] = "queued" /\ dest[m] \notin IdleKeys
            ~> msg[m] # "queued" \/ stopper # "running"

(* stop_all comes to its end, although it awaits a cleanup loop that may    *)
(* itself await a consumer: unless that consumer swallowed the cancellation *)
(* it was sent and goes on (unified_queue_manager.py:341, 410).             *)
StopTerminates ==
    stopper = "draining" ~>
        \/ stopper = "stopped"
        \/ cleaner = "awaiting" /\ LiveConsumer(awaited) /\ ~cancelled[awaited]

(* unified_queue_manager.py:9, "Strict serialization for messages with the  *)
(* same QueueKey": no two batches of any key are processed at a time.       *)
StrictSerialization ==
    stopper = "running" =>
        \A p, q \in QObjs :
            consumer[p] = "busy" /\ consumer[q] = "busy" /\ keyOf[p] = keyOf[q] => p = q

------------------------------------------------------------------------------
(* The mailboxes of the steady keys.                                        *)

SteadyKeys == Keys \ IdleKeys

(* A message on its way to a queue, before or after the lookup, is sent.    *)
Mail ==
    [m \in Msgs |->
        CASE msg[m] = "unsent" -> "unsent"
          [] msg[m] # "unsent" /\ dest[m] \in IdleKeys -> "elsewhere"
          [] msg[m] \in {"submitted", "putting"} /\ dest[m] \notin IdleKeys -> "sent"
          [] msg[m] = "queued" /\ dest[m] \notin IdleKeys -> "waiting"
          [] OTHER -> msg[m]]

To == [m \in Msgs |-> IF Mail[m] \in {"unsent", "elsewhere"} THEN NoKey ELSE dest[m]]

Busy == [k \in SteadyKeys |-> \E q \in QObjs : consumer[q] = "busy" /\ keyOf[q] = k]

Stage == IF stopper = "running" THEN "open" ELSE IF Serving THEN "closing" ELSE "closed"

Contract == INSTANCE Mailbox WITH
    Keys <- SteadyKeys, Capacity <- MaxSize,
    mail <- Mail, to <- To, busy <- Busy, stage <- Stage

(* Beside keys that are evicted while they are looked up, put to and        *)
(* processed, a key whose traffic does not pause has a mailbox: whatever    *)
(* objects, consumers and sweeps do, its messages wait together within the  *)
(* capacity, leave together into one batch at a time or cleared, and none   *)
(* is lost or handled twice.                                                *)
ImplementsMailbox == Contract!Spec
==============================================================================
