---------------------- MODULE UnifiedQueueManagerProofs ----------------------
(***************************************************************************)
(* Proofs about UnifiedQueueManager: for any keys, queue objects, messages  *)
(* and queue size, and on every supported Python, a key never names an      *)
(* object whose consumer is dead or dying, the messages of a steady key are *)
(* handled by one consumer, serially, and the steady keys implement         *)
(* Mailbox.                                                                 *)
(***************************************************************************)
EXTENDS UnifiedQueueManager, TLAPS

(* A message that was submitted has a key.                                  *)
Addressed == \A m \in Msgs : msg[m] # "unsent" => dest[m] \in Keys

(* A key names an object that was created for it.                           *)
KeyMatches ==
    \A k \in Keys : queues[k] # NoQueue =>
        keyOf[queues[k]] = k /\ consumer[queues[k]] # "unused"

(* An object in use has a key; one in the pool is neither idle nor          *)
(* cancelled.                                                               *)
PoolFresh ==
    \A q \in QObjs :
        /\ consumer[q] # "unused" => keyOf[q] \in Keys
        /\ consumer[q] = "unused" => ~idle[q] /\ ~cancelled[q]

(* The object whose consumer the cleanup loop awaits left the dictionary.   *)
AwaitedDisplaced ==
    awaited # NoQueue =>
        consumer[awaited] # "unused" /\ \A k \in Keys : queues[k] # awaited

(* Eviction concerns the keys whose traffic may pause, and nothing but      *)
(* eviction and stop_all cancels a consumer.                                *)
OnlyIdleKeysEvicted ==
    /\ todo \subseteq IdleKeys
    /\ \A q \in QObjs : idle[q] => keyOf[q] \in IdleKeys
    /\ awaited # NoQueue => keyOf[awaited] \in IdleKeys
    /\ Serving => \A q \in QObjs : cancelled[q] => keyOf[q] \in IdleKeys

(* A message on its way into a queue or waiting there is in the right one,  *)
(* which for a steady key is the one the key names.                         *)
Routed ==
    \A m \in Msgs : msg[m] \in {"putting", "queued"} =>
        /\ target[m] \in QObjs
        /\ consumer[target[m]] # "unused" /\ keyOf[target[m]] = dest[m]
        /\ Serving /\ dest[m] \notin IdleKeys => queues[dest[m]] = target[m]

(* The inductive invariant.                                                 *)
IInv ==
    /\ TypeOK
    /\ Addressed
    /\ KeyMatches
    /\ PoolFresh
    /\ AwaitedDisplaced
    /\ RegisteredConsumerLive
    /\ OnlyIdleKeysEvicted
    /\ SteadyConsumerRegistered
    /\ Routed

------------------------------------------------------------------------------
(* The steps, and what they do to types.                                    *)

(* The steps that leave queue objects, cleanup loop and stop_all alone.     *)
MessageStep ==
    \/ \E m \in Msgs, k \in Keys : Submit(m, k)
    \/ \E m \in Msgs : RefuseLate(m) \/ Put(m) \/ PutTimeout(m)
    \/ \E k \in Keys : Clear(k)

(* They leave all of the rest alone.                                        *)
LEMMA MessageStepFrame == MessageStep => UNCHANGED <<qVars, cVars, stopper>>
  BY DEF MessageStep, Submit, RefuseLate, Put, PutTimeout, Clear

(* The case split that the proofs below share.                              *)
LEMMA NextCases ==
  ASSUME Next
  PROVE  \/ MessageStep
         \/ \E m \in Msgs : Resolve(m)
         \/ \E q \in QObjs : \/ ConsumerStart(q) \/ ConsumerAbort(q) \/ Take(q)
                             \/ ConsumerNext(q) \/ ConsumerFail(q)
                             \/ ConsumerExit(q) \/ ConsumerSwallow(q) \/ GoIdle(q)
         \/ CleanerScan \/ CleanerAwaited
         \/ StopEnqueues \/ StopCleaner \/ StopConsumers \/ StopFinish
  BY DEF Next, Enqueue, Consumer, Cleanup, Stop, MessageStep

(* A sweep over keys keeps the types of what it writes.                     *)
LEMMA SweepType ==
  ASSUME TypeOK, NEW T \in SUBSET Keys, Sweep(T)
  PROVE  /\ queues' \in [Keys -> QObjs \cup {NoQueue}]
         /\ cancelled' \in [QObjs -> BOOLEAN]
         /\ cleaner' \in {"asleep", "awaiting", "stopped"}
         /\ todo' \in SUBSET Keys
         /\ awaited' \in QObjs \cup {NoQueue}
  <1> DEFINE present == {k \in T : queues[k] # NoQueue}
  <1>1. CASE \E k \in present : /\ queues' = [queues EXCEPT ![k] = NoQueue]
                               /\ cancelled' = [cancelled EXCEPT ![queues[k]] = TRUE]
                               /\ awaited' = queues[k]
                               /\ todo' = present \ {k}
                               /\ cleaner' = "awaiting"
    BY <1>1 DEF TypeOK
  <1>2. CASE /\ cleaner' = IF stopper \in {"running", "draining"} THEN "asleep" ELSE "stopped"
             /\ todo' = {} /\ awaited' = NoQueue
             /\ UNCHANGED <<queues, cancelled>>
    BY <1>2 DEF TypeOK
  <1> QED BY <1>1, <1>2 DEF Sweep

(* Every step keeps the types.                                              *)
LEMMA TypeStep ==
  ASSUME TypeOK, Addressed, Next
  PROVE  TypeOK'
  <1> USE DEF TypeOK, qVars, mVars, cVars
  <1>1. ASSUME NEW m \in Msgs, NEW k \in Keys, Submit(m, k) PROVE TypeOK'
    BY <1>1 DEF Submit, MsgState
  <1>2. ASSUME NEW m \in Msgs, Resolve(m) PROVE TypeOK'
    <2>1. dest[m] \in Keys
      BY <1>2 DEF Addressed, Resolve
    <2> DEFINE QueueTypes == /\ queues' \in [Keys -> QObjs \cup {NoQueue}]
                             /\ keyOf' \in [QObjs -> Keys \cup {NoKey}]
                             /\ consumer' \in [QObjs -> ConsumerState]
                             /\ idle' \in [QObjs -> BOOLEAN]
    <2>2. QueueTypes
      <3>1. ASSUME idle' = [idle EXCEPT ![queues[dest[m]]] = FALSE],
                   UNCHANGED <<queues, keyOf, consumer>>
            PROVE  QueueTypes
        BY <3>1
      <3>2. ASSUME NEW q \in QObjs,
                   queues' = [queues EXCEPT ![dest[m]] = q],
                   keyOf' = [keyOf EXCEPT ![q] = dest[m]],
                   consumer' = [consumer EXCEPT ![q] = "created"],
                   UNCHANGED idle
            PROVE  QueueTypes
        BY <2>1, <3>2 DEF ConsumerState
      <3> HIDE DEF QueueTypes
      <3> QED BY <1>2, <3>1, <3>2 DEF Resolve
    <2>3. target' \in [Msgs -> QObjs \cup {NoQueue}] /\ msg' \in [Msgs -> MsgState]
      BY <1>2, <2>1 DEF Resolve, MsgState
    <2>4. UNCHANGED <<cancelled, dest, cleaner, todo, awaited, stopper>>
      BY <1>2 DEF Resolve
    <2> QED BY <2>2, <2>3, <2>4
  <1>3. ASSUME NEW m \in Msgs, RefuseLate(m) \/ Put(m) \/ PutTimeout(m) PROVE TypeOK'
    BY <1>3 DEF RefuseLate, Put, PutTimeout, MsgState
  <1>4. ASSUME NEW k \in Keys, Clear(k) PROVE TypeOK'
    BY <1>4 DEF Clear, MsgState
  <1>5. ASSUME NEW q \in QObjs, ConsumerStart(q) \/ ConsumerAbort(q) \/ ConsumerFail(q)
        PROVE  TypeOK'
    BY <1>5 DEF ConsumerStart, ConsumerAbort, ConsumerFail, ConsumerState
  <1>6. ASSUME NEW q \in QObjs, Take(q) PROVE TypeOK'
    BY <1>6 DEF Take, ConsumerState, MsgState
  <1>7. ASSUME NEW q \in QObjs, ConsumerNext(q) \/ ConsumerSwallow(q) PROVE TypeOK'
    BY <1>7 DEF ConsumerNext, ConsumerSwallow, Refresh, ConsumerState
  <1>8. ASSUME NEW q \in QObjs, ConsumerExit(q) \/ GoIdle(q) PROVE TypeOK'
    BY <1>8 DEF ConsumerExit, GoIdle, ConsumerState
  <1>9. CASE CleanerScan
    BY <1>9, SweepType DEF CleanerScan, IdleEmpty
  <1>10. CASE CleanerAwaited
    BY <1>10, SweepType DEF CleanerAwaited
  <1>11. CASE StopEnqueues
    BY <1>11 DEF StopEnqueues, MsgState, StopState
  <1>12. CASE StopCleaner \/ StopConsumers \/ StopFinish
    BY <1>12 DEF StopCleaner, StopConsumers, StopFinish, StopState
  <1> QED
    BY <1>1, <1>2, <1>3, <1>4, <1>5, <1>6, <1>7, <1>8, <1>9, <1>10, <1>11, <1>12
    DEF Next, Enqueue, Consumer, Cleanup, Stop

(* Every step keeps the keys of submitted messages.                         *)
LEMMA AddressedStep ==
  ASSUME TypeOK, Addressed, Next
  PROVE  Addressed'
  <1> USE DEF TypeOK, Addressed
  <1>1. CASE UNCHANGED mVars
    BY <1>1 DEF mVars
  <1>2. ASSUME NEW m \in Msgs, NEW k \in Keys, Submit(m, k) PROVE Addressed'
    BY <1>2 DEF Submit
  <1>3. CASE dest' = dest /\ \A m \in Msgs : msg[m] = "unsent" => msg'[m] = "unsent"
    BY <1>3
  <1>4. ASSUME NEW m \in Msgs, Resolve(m) \/ RefuseLate(m) \/ Put(m) \/ PutTimeout(m)
        PROVE  dest' = dest /\ \A n \in Msgs : msg[n] = "unsent" => msg'[n] = "unsent"
    BY <1>4 DEF Resolve, RefuseLate, Put, PutTimeout
  <1>5. ASSUME NEW k \in Keys, Clear(k)
        PROVE  dest' = dest /\ \A n \in Msgs : msg[n] = "unsent" => msg'[n] = "unsent"
    BY <1>5 DEF Clear, Items
  <1>6. ASSUME NEW q \in QObjs, Take(q)
        PROVE  dest' = dest /\ \A n \in Msgs : msg[n] = "unsent" => msg'[n] = "unsent"
    BY <1>6 DEF Take, Items
  <1>7. ASSUME StopEnqueues
        PROVE  dest' = dest /\ \A n \in Msgs : msg[n] = "unsent" => msg'[n] = "unsent"
    BY <1>7 DEF StopEnqueues
  <1>8. ASSUME NEW q \in QObjs,
               \/ ConsumerStart(q) \/ ConsumerAbort(q) \/ ConsumerNext(q) \/ ConsumerFail(q)
               \/ ConsumerExit(q) \/ ConsumerSwallow(q) \/ GoIdle(q)
        PROVE  UNCHANGED mVars
    BY <1>8 DEF ConsumerStart, ConsumerAbort, ConsumerNext, ConsumerFail, ConsumerExit,
                ConsumerSwallow, GoIdle
  <1>9. ASSUME CleanerScan \/ CleanerAwaited \/ StopCleaner \/ StopConsumers \/ StopFinish
        PROVE  UNCHANGED mVars
    BY <1>9 DEF CleanerScan, CleanerAwaited, StopCleaner, StopConsumers, StopFinish
  <1> QED
    BY <1>1, <1>2, <1>3, <1>4, <1>5, <1>6, <1>7, <1>8, <1>9
    DEF Next, Enqueue, Consumer, Cleanup, Stop

------------------------------------------------------------------------------
(* The dictionary and the consumers.                                        *)
USE DEF Serving

Registry == KeyMatches /\ PoolFresh /\ AwaitedDisplaced /\ RegisteredConsumerLive

(* A step that leaves the dictionary alone, stops no consumer, cancels none *)
(* and does not begin to wait.                                              *)
LEMMA QuietStep ==
  ASSUME TypeOK, Registry,
         UNCHANGED <<queues, keyOf, awaited>>,
         \A q \in QObjs : consumer'[q] # "unused" <=> consumer[q] # "unused",
         \A q \in QObjs : (\E k \in Keys : queues[k] = q) =>
                             (LiveConsumer(q) => LiveConsumer(q)')
                             /\ (~cancelled[q] => ~cancelled'[q]),
         \A q \in QObjs : consumer[q] = "unused" => ~idle'[q] /\ ~cancelled'[q],
         Serving' => Serving
  PROVE  Registry'
  BY NoneAssumption
  DEF TypeOK, Registry, KeyMatches, PoolFresh, AwaitedDisplaced, RegisteredConsumerLive

(* A sweep takes the key it evicts out of the dictionary and waits for an   *)
(* object that no key names.                                                *)
LEMMA SweepRegistry ==
  ASSUME TypeOK, Registry, NEW T \in SUBSET Keys, Sweep(T),
         UNCHANGED <<keyOf, idle, consumer, stopper>>
  PROVE  Registry'
  <1> USE NoneAssumption
  <1> USE DEF TypeOK, Registry, KeyMatches, PoolFresh, AwaitedDisplaced,
              RegisteredConsumerLive, LiveConsumer
  <1>1. ASSUME NEW k \in T, queues[k] # NoQueue,
               queues' = [queues EXCEPT ![k] = NoQueue],
               cancelled' = [cancelled EXCEPT ![queues[k]] = TRUE],
               awaited' = queues[k]
        PROVE  Registry'
    <2>1. queues[k] \in QObjs /\ keyOf[queues[k]] = k /\ consumer[queues[k]] # "unused"
      BY <1>1
    <2>2. \A j \in Keys : queues'[j] # NoQueue => j # k /\ queues'[j] = queues[j]
      BY <1>1
    <2>3. \A j \in Keys : queues'[j] # NoQueue => queues'[j] # queues[k]
      BY <2>1, <2>2
    <2>4. \A q \in QObjs : q # queues[k] => cancelled'[q] = cancelled[q]
      BY <1>1
    <2>5. KeyMatches'
      BY <2>2
    <2>6. PoolFresh'
      BY <2>1, <2>4
    <2>7. AwaitedDisplaced'
      BY <1>1, <2>1, <2>3
    <2>8. RegisteredConsumerLive'
      BY <2>2, <2>3, <2>4
    <2> QED BY <2>5, <2>6, <2>7, <2>8
  <1>2. ASSUME awaited' = NoQueue, UNCHANGED <<queues, cancelled>>
        PROVE  Registry'
    BY <1>2
  <1> QED BY <1>1, <1>2 DEF Sweep

(* A new object is entered under its key and nowhere else.                  *)
LEMMA ResolveRegistry ==
  ASSUME TypeOK, Addressed, Registry, NEW m \in Msgs, Resolve(m)
  PROVE  Registry'
  <1> DEFINE k == dest[m]
  <1>1. k \in Keys
    BY DEF Resolve, Addressed
  <1>2. CASE queues[k] # NoQueue
    <2>1. /\ UNCHANGED <<queues, keyOf, consumer, cancelled, awaited, stopper>>
          /\ idle' = [idle EXCEPT ![queues[k]] = FALSE]
      BY <1>2 DEF Resolve, cVars
    <2> QED BY <2>1, QuietStep DEF TypeOK, Registry, PoolFresh, LiveConsumer
  <1>3. ASSUME NEW q \in QObjs, queues[k] = NoQueue, consumer[q] = "unused",
               queues' = [queues EXCEPT ![k] = q],
               keyOf' = [keyOf EXCEPT ![q] = k],
               consumer' = [consumer EXCEPT ![q] = "created"],
               UNCHANGED <<idle, cancelled, awaited, stopper>>
        PROVE  Registry'
    <2> USE NoneAssumption DEF TypeOK, Registry
    <2>1. \A j \in Keys : queues[j] # q
      BY <1>3 DEF KeyMatches
    <2>2. \A j \in Keys : j # k => queues'[j] = queues[j]
      BY <1>3
    <2>3. \A p \in QObjs : p # q => keyOf'[p] = keyOf[p] /\ consumer'[p] = consumer[p]
      BY <1>3
    <2>4. queues'[k] = q /\ keyOf'[q] = k /\ consumer'[q] = "created" /\ ~cancelled[q]
      BY <1>1, <1>3 DEF PoolFresh
    <2>5. KeyMatches'
      BY <2>1, <2>2, <2>3, <2>4 DEF KeyMatches
    <2>6. PoolFresh'
      BY <1>1, <1>3, <2>3, <2>4 DEF PoolFresh
    <2>7. AwaitedDisplaced'
      BY <1>3, <2>2, <2>3, <2>4 DEF AwaitedDisplaced
    <2>8. RegisteredConsumerLive'
      BY <1>3, <2>1, <2>2, <2>3, <2>4 DEF RegisteredConsumerLive, LiveConsumer
    <2> QED BY <2>5, <2>6, <2>7, <2>8
  <1> QED BY <1>2, <1>3 DEF Resolve, cVars

(* A consumer that leaves its loop was cancelled, so no key names it while  *)
(* that matters; it takes its key out of the dictionary.                    *)
LEMMA ExitRegistry ==
  ASSUME TypeOK, Registry, NEW q \in QObjs, ConsumerExit(q)
  PROVE  Registry'
  <1> USE NoneAssumption DEF TypeOK, Registry, ConsumerExit, cVars
  <1>1. \A j \in Keys : queues'[j] # NoQueue => queues'[j] = queues[j]
    OBVIOUS
  <1>2. \A p \in QObjs : p # q => consumer'[p] = consumer[p]
    OBVIOUS
  <1>3. consumer[q] # "unused" /\ consumer'[q] # "unused" /\ cancelled[q]
    OBVIOUS
  <1>4. KeyMatches'
    BY <1>1, <1>2, <1>3 DEF KeyMatches
  <1>5. PoolFresh'
    BY <1>2, <1>3 DEF PoolFresh
  <1>6. AwaitedDisplaced'
    BY <1>1, <1>2, <1>3 DEF AwaitedDisplaced
  <1>7. RegisteredConsumerLive'
    BY <1>1, <1>2, <1>3 DEF RegisteredConsumerLive, LiveConsumer
  <1> QED BY <1>4, <1>5, <1>6, <1>7

(* Every step keeps the registry invariants.                                *)
LEMMA RegistryStep ==
  ASSUME TypeOK, Addressed, Registry, Next
  PROVE  Registry'
  <1>1. CASE MessageStep
    BY <1>1, MessageStepFrame, QuietStep
    DEF TypeOK, Registry, PoolFresh, LiveConsumer, qVars, cVars
  <1>2. ASSUME NEW m \in Msgs, Resolve(m) PROVE Registry'
    BY <1>2, ResolveRegistry
  <1>3. ASSUME NEW q \in QObjs,
               \/ ConsumerStart(q) \/ Take(q) \/ ConsumerNext(q) \/ ConsumerFail(q)
               \/ ConsumerSwallow(q)
        PROVE  Registry'
    <2>1. /\ UNCHANGED <<queues, keyOf, awaited, stopper>>
          /\ consumer[q] # "unused" /\ consumer'[q] \in {"waiting", "busy"}
          /\ \A p \in QObjs : p # q => consumer'[p] = consumer[p]
      BY <1>3 DEF ConsumerStart, Take, ConsumerNext, ConsumerFail, ConsumerSwallow, cVars, TypeOK
    <2>2. \A p \in QObjs : ~idle[p] => ~idle'[p]
      BY <1>3 DEF ConsumerStart, Take, ConsumerNext, ConsumerFail, ConsumerSwallow,
                  Refresh, TypeOK
    <2>3. \A p \in QObjs : ~cancelled[p] => ~cancelled'[p]
      BY <1>3 DEF ConsumerStart, Take, ConsumerNext, ConsumerFail, ConsumerSwallow, TypeOK
    <2> QED BY <2>1, <2>2, <2>3, QuietStep DEF Registry, PoolFresh, LiveConsumer
  <1>4. ASSUME NEW q \in QObjs, ConsumerAbort(q) PROVE Registry'
    <2>1. /\ UNCHANGED <<queues, keyOf, idle, cancelled, awaited, stopper>>
          /\ consumer[q] = "created" /\ cancelled[q] /\ consumer'[q] = "done"
          /\ \A p \in QObjs : p # q => consumer'[p] = consumer[p]
      BY <1>4 DEF ConsumerAbort, cVars, TypeOK
    <2> QED BY <2>1, NoneAssumption
            DEF TypeOK, Registry, KeyMatches, PoolFresh, AwaitedDisplaced,
                RegisteredConsumerLive, LiveConsumer
  <1>5. ASSUME NEW q \in QObjs, ConsumerExit(q) PROVE Registry'
    BY <1>5, ExitRegistry
  <1>6. ASSUME NEW q \in QObjs, GoIdle(q) PROVE Registry'
    <2>1. /\ UNCHANGED <<queues, keyOf, consumer, cancelled, awaited, stopper>>
          /\ LiveConsumer(q)
          /\ \A p \in QObjs : p # q => idle'[p] = idle[p]
      BY <1>6 DEF GoIdle, cVars, TypeOK
    <2> QED BY <2>1, QuietStep DEF Registry, PoolFresh, LiveConsumer
  <1>7. CASE CleanerScan
    BY <1>7, SweepRegistry DEF CleanerScan, IdleEmpty
  <1>8. CASE CleanerAwaited
    BY <1>8, SweepRegistry DEF CleanerAwaited, TypeOK
  <1>9. CASE StopEnqueues
    BY <1>9, QuietStep DEF StopEnqueues, Registry, PoolFresh, LiveConsumer, qVars, cVars
  <1>10. CASE StopCleaner
    <2>1. /\ UNCHANGED <<queues, keyOf, idle, consumer, awaited>>
          /\ stopper' = "halting" /\ stopper = "draining"
          /\ \A p \in QObjs : p # awaited => cancelled'[p] = cancelled[p]
      BY <1>10 DEF StopCleaner, TypeOK
    <2> QED BY <2>1, NoneAssumption
            DEF TypeOK, Registry, KeyMatches, PoolFresh, AwaitedDisplaced,
                RegisteredConsumerLive, LiveConsumer
  <1>11. CASE StopConsumers
    <2>1. /\ UNCHANGED <<queues, keyOf, idle, consumer, awaited>>
          /\ stopper' = "waiting"
          /\ \A p \in QObjs : cancelled'[p] => cancelled[p] \/ \E k \in Keys : queues[k] = p
      BY <1>11 DEF StopConsumers, cVars
    <2> QED BY <2>1, NoneAssumption
            DEF TypeOK, Registry, KeyMatches, PoolFresh, AwaitedDisplaced,
                RegisteredConsumerLive, LiveConsumer
  <1>12. CASE StopFinish
    BY <1>12 DEF StopFinish, cVars, Registry, KeyMatches, PoolFresh, AwaitedDisplaced,
                 RegisteredConsumerLive, TypeOK
  <1> QED
    BY NextCases, <1>1, <1>2, <1>3, <1>4, <1>5, <1>6, <1>7, <1>8, <1>9, <1>10, <1>11, <1>12

------------------------------------------------------------------------------
(* Steady keys.                                                             *)

Steady == OnlyIdleKeysEvicted /\ SteadyConsumerRegistered

(* A step that evicts nothing and cancels nothing.                          *)
LEMMA QuietSteady ==
  ASSUME TypeOK, Steady,
         UNCHANGED <<queues, keyOf, todo, awaited>>,
         Serving' => Serving,
         \A q \in QObjs : idle'[q] => idle[q] \/ keyOf[q] \in IdleKeys,
         \A q \in QObjs : cancelled'[q] => cancelled[q],
         \A q \in QObjs : LiveConsumer(q)' => LiveConsumer(q)
  PROVE  Steady'
  BY DEF TypeOK, Steady, OnlyIdleKeysEvicted, SteadyConsumerRegistered

(* A sweep over idle keys.                                                  *)
LEMMA SweepSteady ==
  ASSUME TypeOK, KeyMatches, PoolFresh, Steady, NEW T \in SUBSET IdleKeys, Sweep(T),
         UNCHANGED <<keyOf, idle, consumer, stopper>>
  PROVE  Steady'
  <1> USE IdleAssumption DEF TypeOK, Steady, OnlyIdleKeysEvicted, SteadyConsumerRegistered,
                             LiveConsumer
  <1>1. ASSUME NEW k \in T, queues[k] # NoQueue,
               queues' = [queues EXCEPT ![k] = NoQueue],
               cancelled' = [cancelled EXCEPT ![queues[k]] = TRUE],
               awaited' = queues[k],
               todo' \subseteq T
        PROVE  Steady'
    <2>1. k \in IdleKeys /\ k \in Keys /\ queues[k] \in QObjs /\ keyOf[queues[k]] = k
      BY <1>1 DEF KeyMatches
    <2>2. \A j \in Keys : j # k => queues'[j] = queues[j]
      BY <1>1
    <2>3. \A q \in QObjs : cancelled'[q] => cancelled[q] \/ q = queues[k]
      BY <1>1
    <2>4. OnlyIdleKeysEvicted'
      BY <1>1, <2>1, <2>3
    <2>5. ASSUME Serving, NEW q \in QObjs, LiveConsumer(q), keyOf[q] \notin IdleKeys
          PROVE  queues'[keyOf[q]] = q
      <3>1. queues[keyOf[q]] = q
        BY <2>5
      <3>2. keyOf[q] # k
        BY <2>1, <2>5
      <3>3. keyOf[q] \in Keys
        BY <2>5 DEF PoolFresh
      <3> QED BY <2>2, <3>1, <3>2, <3>3
    <2> QED BY <2>4, <2>5
  <1>2. ASSUME todo' = {}, awaited' = NoQueue, UNCHANGED <<queues, cancelled>>
        PROVE  Steady'
    BY <1>2
  <1> QED BY <1>1, <1>2 DEF Sweep

(* A new object belongs to a key that had none, so it is the only consumer  *)
(* of a steady key.                                                         *)
LEMMA ResolveSteady ==
  ASSUME TypeOK, Addressed, PoolFresh, AwaitedDisplaced, Steady, NEW m \in Msgs, Resolve(m)
  PROVE  Steady'
  <1> DEFINE k == dest[m]
  <1>1. k \in Keys
    BY DEF Resolve, Addressed
  <1>2. CASE queues[k] # NoQueue
    <2>1. /\ UNCHANGED <<queues, keyOf, consumer, cancelled, todo, awaited, stopper>>
          /\ idle' = [idle EXCEPT ![queues[k]] = FALSE]
      BY <1>2 DEF Resolve, cVars
    <2>2. \A q \in QObjs : idle'[q] => idle[q]
      BY <2>1 DEF TypeOK
    <2> QED BY <2>1, <2>2, QuietSteady DEF LiveConsumer
  <1>3. ASSUME NEW q \in QObjs, queues[k] = NoQueue, consumer[q] = "unused",
               queues' = [queues EXCEPT ![k] = q],
               keyOf' = [keyOf EXCEPT ![q] = k],
               consumer' = [consumer EXCEPT ![q] = "created"],
               UNCHANGED <<idle, cancelled, todo, awaited, stopper>>
        PROVE  Steady'
    <2> USE NoneAssumption DEF TypeOK, Steady
    <2>1. ~idle[q] /\ ~cancelled[q]
      BY <1>3 DEF PoolFresh
    <2>2. \A p \in QObjs : p # q => keyOf'[p] = keyOf[p] /\ consumer'[p] = consumer[p]
      BY <1>3
    <2>3. OnlyIdleKeysEvicted'
      <3>1. awaited # NoQueue => awaited \in QObjs /\ awaited # q
        BY <1>3 DEF AwaitedDisplaced
      <3> QED BY <1>3, <2>1, <2>2, <3>1 DEF OnlyIdleKeysEvicted
    <2>4. ASSUME Serving, NEW p \in QObjs, LiveConsumer(p)', keyOf'[p] \notin IdleKeys
          PROVE  queues'[keyOf'[p]] = p
      <3>1. CASE p = q
        BY <1>1, <1>3, <3>1
      <3>2. CASE p # q
        <4>1. queues[keyOf[p]] = p
          BY <2>2, <2>4, <3>2 DEF SteadyConsumerRegistered, LiveConsumer
        <4>2. keyOf[p] \in Keys /\ keyOf[p] # k
          BY <1>3, <2>2, <2>4, <3>2, <4>1 DEF PoolFresh, LiveConsumer
        <4> QED BY <1>3, <2>2, <3>2, <4>1, <4>2
      <3> QED BY <3>1, <3>2
    <2> QED BY <1>3, <2>3, <2>4 DEF SteadyConsumerRegistered
  <1> QED BY <1>2, <1>3 DEF Resolve, cVars

(* The key a consumer takes out of the dictionary when it leaves its loop   *)
(* is its own, and an idle one while the manager runs.                      *)
LEMMA ExitSteady ==
  ASSUME TypeOK, PoolFresh, Steady, NEW q \in QObjs, ConsumerExit(q)
  PROVE  Steady'
  <1> USE DEF TypeOK, Steady, ConsumerExit, cVars
  <1>1. OnlyIdleKeysEvicted'
    BY DEF OnlyIdleKeysEvicted
  <1>2. ASSUME Serving, NEW p \in QObjs, LiveConsumer(p)', keyOf[p] \notin IdleKeys
        PROVE  queues'[keyOf[p]] = p
    <2>1. p # q /\ LiveConsumer(p)
      BY <1>2 DEF LiveConsumer
    <2>2. queues[keyOf[p]] = p /\ keyOf[p] \in Keys
      BY <1>2, <2>1 DEF SteadyConsumerRegistered, PoolFresh, LiveConsumer
    <2>3. keyOf[p] # keyOf[q]
      BY <1>2 DEF OnlyIdleKeysEvicted
    <2> QED BY <2>2, <2>3
  <1> QED BY <1>1, <1>2 DEF SteadyConsumerRegistered

(* stop_all cancels only what the cleanup loop awaits, the consumer of an   *)
(* idle key, before it cancels all and ends the obligation.                 *)
LEMMA StopSteady ==
  ASSUME TypeOK, Steady, StopEnqueues \/ StopCleaner \/ StopConsumers \/ StopFinish
  PROVE  Steady'
  <1> USE DEF Steady, OnlyIdleKeysEvicted, SteadyConsumerRegistered, qVars, cVars
  <1>1. CASE StopEnqueues
    BY <1>1, QuietSteady DEF StopEnqueues, LiveConsumer
  <1>2. CASE StopCleaner
    <2>1. /\ UNCHANGED <<queues, keyOf, idle, consumer, todo, awaited>>
          /\ stopper = "draining" /\ stopper' = "halting"
          /\ \A q \in QObjs : cancelled'[q] => cancelled[q] \/ q = awaited
      BY <1>2 DEF StopCleaner, TypeOK
    <2> QED BY <2>1, NoneAssumption DEF LiveConsumer
  <1>3. CASE StopConsumers \/ StopFinish
    BY <1>3 DEF StopConsumers, StopFinish
  <1> QED BY <1>1, <1>2, <1>3

(* Every step keeps the invariants about steady keys.                       *)
LEMMA SteadyStep ==
  ASSUME TypeOK, Addressed, Registry, Steady, Next
  PROVE  Steady'
  <1> USE DEF Registry
  <1>1. CASE MessageStep
    BY <1>1, MessageStepFrame, QuietSteady DEF LiveConsumer, qVars, cVars
  <1>2. ASSUME NEW m \in Msgs, Resolve(m) PROVE Steady'
    BY <1>2, ResolveSteady
  <1>3. ASSUME NEW q \in QObjs,
               \/ ConsumerStart(q) \/ ConsumerAbort(q) \/ Take(q) \/ ConsumerNext(q)
               \/ ConsumerFail(q) \/ ConsumerSwallow(q)
        PROVE  Steady'
    <2> USE DEF ConsumerStart, ConsumerAbort, Take, ConsumerNext, ConsumerFail, ConsumerSwallow
    <2>1. UNCHANGED <<queues, keyOf, todo, awaited, stopper>>
      BY <1>3 DEF cVars
    <2>2. \A p \in QObjs : idle'[p] => idle[p]
      BY <1>3 DEF Refresh, TypeOK
    <2>3. \A p \in QObjs : cancelled'[p] => cancelled[p]
      BY <1>3 DEF TypeOK
    <2>4. \A p \in QObjs : LiveConsumer(p)' => LiveConsumer(p)
      BY <1>3 DEF LiveConsumer, TypeOK
    <2> QED BY <2>1, <2>2, <2>3, <2>4, QuietSteady
  <1>4. ASSUME NEW q \in QObjs, ConsumerExit(q) PROVE Steady'
    BY <1>4, ExitSteady
  <1>5. ASSUME NEW q \in QObjs, GoIdle(q) PROVE Steady'
    <2>1. /\ UNCHANGED <<queues, keyOf, consumer, cancelled, todo, awaited, stopper>>
          /\ keyOf[q] \in IdleKeys
          /\ \A p \in QObjs : p # q => idle'[p] = idle[p]
      BY <1>5 DEF GoIdle, cVars, TypeOK
    <2> QED BY <2>1, QuietSteady DEF LiveConsumer
  <1>6. CASE CleanerScan
    <2>1. IdleEmpty \subseteq IdleKeys
      BY DEF IdleEmpty, KeyMatches, TypeOK, Steady, OnlyIdleKeysEvicted
    <2> QED BY <1>6, <2>1, SweepSteady DEF CleanerScan
  <1>7. CASE CleanerAwaited
    BY <1>7, SweepSteady DEF CleanerAwaited, Steady, OnlyIdleKeysEvicted
  <1>8. CASE StopEnqueues \/ StopCleaner \/ StopConsumers \/ StopFinish
    BY <1>8, StopSteady
  <1> QED BY NextCases, <1>1, <1>2, <1>3, <1>4, <1>5, <1>6, <1>7, <1>8

------------------------------------------------------------------------------
(* Where messages wait.                                                     *)

(* A step that routes no message and keeps the queues of steady keys.       *)
LEMMA QuietRouted ==
  ASSUME TypeOK, Addressed, Routed,
         \A m \in Msgs : msg'[m] \in {"putting", "queued"} =>
             /\ msg[m] \in {"putting", "queued"}
             /\ target'[m] = target[m] /\ dest'[m] = dest[m],
         keyOf' = keyOf,
         \A q \in QObjs : consumer[q] # "unused" => consumer'[q] # "unused",
         Serving' => Serving /\ \A k \in SteadyKeys : queues'[k] = queues[k]
  PROVE  Routed'
  <1> HIDE DEF Serving
  <1> QED BY DEF TypeOK, Addressed, Routed, SteadyKeys

(* The lookup finds the queue of the key or enters it there.                *)
LEMMA ResolveRouted ==
  ASSUME TypeOK, Addressed, KeyMatches, Routed, NEW m \in Msgs, Resolve(m)
  PROVE  Routed'
  <1> DEFINE k == dest[m]
  <1>1. k \in Keys
    BY DEF Resolve, Addressed
  <1>2. /\ \A n \in Msgs : n # m => msg'[n] = msg[n] /\ target'[n] = target[n]
        /\ UNCHANGED <<dest, stopper>>
    BY DEF Resolve, TypeOK
  <1>3. CASE queues[k] # NoQueue
    <2>1. UNCHANGED <<queues, keyOf, consumer>> /\ target'[m] = queues[k]
      BY <1>3 DEF Resolve, TypeOK
    <2>2. queues[k] \in QObjs /\ consumer[queues[k]] # "unused" /\ keyOf[queues[k]] = k
      BY <1>1, <1>3 DEF KeyMatches, TypeOK
    <2> QED BY <1>2, <2>1, <2>2 DEF Routed
  <1>4. ASSUME NEW q \in QObjs, queues[k] = NoQueue, consumer[q] = "unused",
               target' = [target EXCEPT ![m] = q],
               queues' = [queues EXCEPT ![k] = q],
               keyOf' = [keyOf EXCEPT ![q] = k],
               consumer' = [consumer EXCEPT ![q] = "created"]
        PROVE  Routed'
    <2>1. /\ target'[m] = q /\ queues'[k] = q /\ keyOf'[q] = k /\ consumer'[q] = "created"
          /\ \A j \in Keys : j # k => queues'[j] = queues[j]
          /\ \A p \in QObjs : p # q => keyOf'[p] = keyOf[p] /\ consumer'[p] = consumer[p]
      BY <1>1, <1>4 DEF TypeOK
    <2>2. ASSUME NEW n \in Msgs, n # m, msg[n] \in {"putting", "queued"}
          PROVE  /\ target[n] \in QObjs /\ consumer'[target[n]] # "unused"
                 /\ keyOf'[target[n]] = dest[n]
                 /\ Serving /\ dest[n] \notin IdleKeys => queues'[dest[n]] = target[n]
      <3>1. /\ target[n] \in QObjs /\ target[n] # q /\ consumer[target[n]] # "unused"
            /\ keyOf[target[n]] = dest[n] /\ dest[n] \in Keys
            /\ Serving /\ dest[n] \notin IdleKeys => queues[dest[n]] = target[n]
        BY <1>4, <2>2 DEF Routed, Addressed
      <3> HIDE DEF Serving
      <3> QED BY <1>4, <2>1, <3>1, NoneAssumption
    <2> QED BY <1>2, <2>1, <2>2 DEF Routed
  <1> QED BY <1>3, <1>4 DEF Resolve

(* A sweep takes only idle keys out of the dictionary.                      *)
LEMMA SweepRouted ==
  ASSUME TypeOK, Addressed, Routed, NEW T \in SUBSET IdleKeys, Sweep(T),
         UNCHANGED <<keyOf, consumer, mVars, stopper>>
  PROVE  Routed'
  <1>1. \A k \in SteadyKeys : queues'[k] = queues[k]
    <2>1. ASSUME NEW k \in T, queues' = [queues EXCEPT ![k] = NoQueue]
          PROVE  \A j \in SteadyKeys : queues'[j] = queues[j]
      BY <2>1 DEF SteadyKeys, TypeOK
    <2> QED BY <2>1 DEF Sweep
  <1> QED BY <1>1, QuietRouted DEF mVars

(* Every step keeps messages in the queues of their keys.                   *)
LEMMA RoutedStep ==
  ASSUME TypeOK, Addressed, Registry, Steady, Routed, Next
  PROVE  Routed'
  <1> USE DEF Registry
  <1>1. CASE MessageStep
    <2>1. UNCHANGED <<queues, keyOf, consumer, stopper>>
      BY <1>1, MessageStepFrame DEF qVars
    <2>2. \A m \in Msgs : msg'[m] \in {"putting", "queued"} =>
             /\ msg[m] \in {"putting", "queued"}
             /\ target'[m] = target[m] /\ dest'[m] = dest[m]
      BY <1>1 DEF MessageStep, Submit, RefuseLate, Put, PutTimeout, Clear, TypeOK
    <2> QED BY <2>1, <2>2, QuietRouted
  <1>2. ASSUME NEW m \in Msgs, Resolve(m) PROVE Routed'
    BY <1>2, ResolveRouted
  <1>3. ASSUME NEW q \in QObjs,
               \/ ConsumerStart(q) \/ ConsumerAbort(q) \/ ConsumerNext(q)
               \/ ConsumerFail(q) \/ ConsumerSwallow(q) \/ GoIdle(q)
        PROVE  Routed'
    <2> USE DEF ConsumerStart, ConsumerAbort, ConsumerNext, ConsumerFail, ConsumerSwallow, GoIdle
    <2>1. UNCHANGED <<queues, keyOf, mVars, stopper>>
      BY <1>3
    <2>2. \A p \in QObjs : consumer[p] # "unused" => consumer'[p] # "unused"
      BY <1>3 DEF TypeOK
    <2> QED BY <2>1, <2>2, QuietRouted DEF mVars
  <1>4. ASSUME NEW q \in QObjs, Take(q) PROVE Routed'
    <2>1. UNCHANGED <<queues, keyOf, dest, target, stopper>>
      BY <1>4 DEF Take
    <2>2. \A p \in QObjs : consumer[p] # "unused" => consumer'[p] # "unused"
      BY <1>4 DEF Take, TypeOK
    <2>3. \A m \in Msgs : msg'[m] \in {"putting", "queued"} => msg'[m] = msg[m]
      BY <1>4 DEF Take
    <2> QED BY <2>1, <2>2, <2>3, QuietRouted
  <1>5. ASSUME NEW q \in QObjs, ConsumerExit(q) PROVE Routed'
    <2>1. UNCHANGED <<keyOf, mVars, stopper>>
      BY <1>5 DEF ConsumerExit
    <2>2. \A p \in QObjs : consumer[p] # "unused" => consumer'[p] # "unused"
      BY <1>5 DEF ConsumerExit, TypeOK
    <2>3. Serving => keyOf[q] \in IdleKeys
      BY <1>5 DEF ConsumerExit, Steady, OnlyIdleKeysEvicted
    <2>4. Serving => \A k \in SteadyKeys : queues'[k] = queues[k]
      BY <1>5, <2>3 DEF ConsumerExit, SteadyKeys, TypeOK
    <2> QED BY <2>1, <2>2, <2>4, QuietRouted DEF mVars
  <1>6. CASE CleanerScan
    <2>1. IdleEmpty \subseteq IdleKeys
      BY DEF IdleEmpty, KeyMatches, TypeOK, Steady, OnlyIdleKeysEvicted
    <2> QED BY <1>6, <2>1, SweepRouted DEF CleanerScan
  <1>7. CASE CleanerAwaited
    BY <1>7, SweepRouted DEF CleanerAwaited, Steady, OnlyIdleKeysEvicted
  <1>8. CASE StopEnqueues
    <2>1. UNCHANGED <<queues, keyOf, consumer, dest, target>> /\ Serving
      BY <1>8 DEF StopEnqueues, qVars
    <2>2. \A m \in Msgs : msg'[m] \in {"putting", "queued"} => msg'[m] = msg[m]
      BY <1>8 DEF StopEnqueues
    <2> QED BY <2>1, <2>2, QuietRouted
  <1>9. CASE StopCleaner \/ StopConsumers
    <2>1. UNCHANGED <<queues, keyOf, consumer, mVars>> /\ Serving
      BY <1>9 DEF StopCleaner, StopConsumers
    <2> QED BY <2>1, QuietRouted DEF mVars
  <1>10. CASE StopFinish
    <2>1. UNCHANGED <<keyOf, consumer, mVars>> /\ ~Serving'
      BY <1>10 DEF StopFinish
    <2> QED BY <2>1, QuietRouted DEF mVars
  <1> QED BY NextCases, <1>1, <1>2, <1>3, <1>4, <1>5, <1>6, <1>7, <1>8, <1>9, <1>10

------------------------------------------------------------------------------
(* The invariant and what it implies.                                       *)

(* The invariant holds initially ...                                        *)
LEMMA InitIInv == Init => IInv
  BY IdleAssumption
  DEF Init, IInv, TypeOK, Addressed, KeyMatches, PoolFresh, AwaitedDisplaced,
      RegisteredConsumerLive, OnlyIdleKeysEvicted, SteadyConsumerRegistered, Routed,
      LiveConsumer, ConsumerState, MsgState, StopState

(* ... and every step keeps it.                                             *)
LEMMA StepIInv == IInv /\ [Next]_vars => IInv'
  <1> SUFFICES ASSUME IInv, [Next]_vars PROVE IInv'
    OBVIOUS
  <1>1. CASE Next
    BY <1>1, TypeStep, AddressedStep, RegistryStep, SteadyStep, RoutedStep DEF IInv, Registry, Steady
  <1>2. CASE UNCHANGED vars
    BY <1>2
    DEF vars, qVars, mVars, cVars, IInv, TypeOK, Addressed, KeyMatches, PoolFresh,
        AwaitedDisplaced, RegisteredConsumerLive, OnlyIdleKeysEvicted,
        SteadyConsumerRegistered, Routed, LiveConsumer
  <1> QED BY <1>1, <1>2

(* The inductive invariant holds in every reachable state: registry,        *)
(* consumers and evictions agree as described above.                        *)
THEOREM Invariance == Spec => []IInv
  BY InitIInv, StepIInv, PTL DEF Spec

(* Types are kept by every operation of the manager.                        *)
THEOREM TypeCorrect == Spec => []TypeOK
  <1>1. IInv => TypeOK
    BY DEF IInv
  <1> QED BY <1>1, Invariance, PTL

(* Until stop_all cancels them, the object a key names has a consumer that  *)
(* is alive and has no cancellation pending: messages are never routed to a *)
(* dead consumer, by eviction, failing batches or swallowed cancellations.  *)
THEOREM KeysNameLiveConsumers == Spec => []RegisteredConsumerLive
  <1>1. IInv => RegisteredConsumerLive
    BY DEF IInv
  <1> QED BY <1>1, Invariance, PTL

(* The consumer of a steady key stays the one its key names.                *)
THEOREM SteadyConsumersKnown == Spec => []SteadyConsumerRegistered
  <1>1. IInv => SteadyConsumerRegistered
    BY DEF IInv
  <1> QED BY <1>1, Invariance, PTL

(* The batches of a steady key are processed one at a time.                 *)
THEOREM SteadyKeysAreSerial == Spec => []SteadyKeysSerial
  <1>1. IInv => SteadyKeysSerial
    BY DEF IInv, SteadyConsumerRegistered, SteadyKeysSerial, LiveConsumer
  <1> QED BY <1>1, Invariance, PTL

------------------------------------------------------------------------------
(* The manager implements the mailboxes of its steady keys.                 *)

(* What each state of a message is in the contract.                         *)
LEMMA MailOf ==
  ASSUME NEW m \in Msgs
  PROVE  /\ msg[m] = "unsent" => Mail[m] = "unsent"
         /\ msg[m] # "unsent" /\ dest[m] \in IdleKeys => Mail[m] = "elsewhere"
         /\ dest[m] \notin IdleKeys =>
              /\ msg[m] \in {"submitted", "putting"} => Mail[m] = "sent"
              /\ msg[m] = "queued" => Mail[m] = "waiting"
              /\ msg[m] \in {"handled", "dropped"} => Mail[m] = msg[m]
  BY DEF Mail

(* The same of the next state.                                              *)
LEMMA MailNext ==
  ASSUME NEW m \in Msgs
  PROVE  /\ msg'[m] = "unsent" => Mail'[m] = "unsent"
         /\ msg'[m] # "unsent" /\ dest'[m] \in IdleKeys => Mail'[m] = "elsewhere"
         /\ dest'[m] \notin IdleKeys =>
              /\ msg'[m] \in {"submitted", "putting"} => Mail'[m] = "sent"
              /\ msg'[m] = "queued" => Mail'[m] = "waiting"
              /\ msg'[m] \in {"handled", "dropped"} => Mail'[m] = msg'[m]
  BY DEF Mail

(* Messages that stay as they are do so in the contract.                    *)
LEMMA MailFrame ==
  ASSUME NEW m \in Msgs, msg'[m] = msg[m], dest'[m] = dest[m]
  PROVE  Mail'[m] = Mail[m] /\ To'[m] = To[m]
  <1>1. Mail'[m] = Mail[m]
    BY DEF Mail
  <1> QED BY <1>1 DEF To

(* Mailboxes where nothing moves.                                           *)
LEMMA SameMail ==
  ASSUME \A m \in Msgs : Mail'[m] = Mail[m] /\ To'[m] = To[m]
  PROVE  Mail' = Mail /\ To' = To
  <1>1. Mail' = Mail
    BY DEF Mail
  <1> QED BY <1>1 DEF To

(* One message moves on.                                                    *)
LEMMA OneMail ==
  ASSUME NEW m \in Msgs, NEW v, Mail'[m] = v,
         \A n \in Msgs : n # m => Mail'[n] = Mail[n]
  PROVE  Mail' = [Mail EXCEPT ![m] = v]
  <1>1. \A n \in Msgs : Mail'[n] = [Mail EXCEPT ![m] = v][n]
    BY DEF Mail
  <1> QED BY <1>1 DEF Mail

(* Addresses stay when no message is submitted.                             *)
LEMMA SameTo ==
  ASSUME dest' = dest,
         \A m \in Msgs : Mail'[m] \in {"unsent", "elsewhere"}
                            <=> Mail[m] \in {"unsent", "elsewhere"}
  PROVE  To' = To
  BY DEF To

(* Consumers of steady keys that begin and end no batch.                    *)
LEMMA SameBusy ==
  ASSUME \A q \in QObjs, k \in SteadyKeys :
            consumer'[q] = "busy" /\ keyOf'[q] = k <=> consumer[q] = "busy" /\ keyOf[q] = k
  PROVE  Busy' = Busy
  BY DEF Busy

(* What waits for a steady key is what its queue holds.                     *)
LEMMA WaitingIs ==
  ASSUME TypeOK, Addressed, KeyMatches, Routed, Serving,
         NEW k \in SteadyKeys, NEW q \in QObjs, q = queues[k]
  PROVE  Contract!Waiting(k) = Items(q)
  <1>1. k \in Keys /\ k \notin IdleKeys /\ keyOf[q] = k /\ q # NoQueue
    BY NoneAssumption DEF KeyMatches, SteadyKeys
  <1>2. ASSUME NEW m \in Msgs, Mail[m] = "waiting", To[m] = k PROVE m \in Items(q)
    <2>1. dest[m] = k
      BY <1>2 DEF To
    <2>2. msg[m] = "queued"
      BY <1>1, <1>2, <2>1, MailOf DEF TypeOK, MsgState
    <2> QED BY <1>1, <2>1, <2>2 DEF Routed, Items
  <1>3. ASSUME NEW m \in Items(q) PROVE Mail[m] = "waiting" /\ To[m] = k
    <2>1. m \in Msgs /\ msg[m] = "queued" /\ target[m] = q
      BY DEF Items
    <2>2. dest[m] = k
      BY <1>1, <2>1 DEF Routed
    <2>3. Mail[m] = "waiting"
      BY <1>1, <2>1, <2>2, MailOf
    <2> QED BY <2>1, <2>2, <2>3 DEF To
  <1> QED BY <1>2, <1>3 DEF Contract!Waiting, Items

(* What may become of a message in a step.                                  *)
LEMMA Fate ==
  ASSUME TypeOK, Next, NEW m \in Msgs
  PROVE  \/ msg'[m] = msg[m] /\ dest'[m] = dest[m]
         \/ msg[m] = "unsent" /\ msg'[m] = "submitted" /\ dest'[m] \in Keys
         \/ /\ dest'[m] = dest[m]
            /\ \/ msg[m] = "submitted" /\ msg'[m] \in {"putting", "dropped"}
               \/ msg[m] = "putting" /\ msg'[m] \in {"queued", "dropped"}
               \/ msg[m] = "queued" /\ msg'[m] \in {"handled", "dropped"}
  <1> USE DEF TypeOK
  <1>1. ASSUME NEW n \in Msgs, NEW k \in Keys, Submit(n, k)
        PROVE  \/ msg'[m] = msg[m] /\ dest'[m] = dest[m]
               \/ msg[m] = "unsent" /\ msg'[m] = "submitted" /\ dest'[m] \in Keys
    BY <1>1 DEF Submit
  <1> DEFINE Moves == /\ dest'[m] = dest[m]
                      /\ \/ msg'[m] = msg[m]
                         \/ msg[m] = "submitted" /\ msg'[m] \in {"putting", "dropped"}
                         \/ msg[m] = "putting" /\ msg'[m] \in {"queued", "dropped"}
                         \/ msg[m] = "queued" /\ msg'[m] \in {"handled", "dropped"}
  <1>2. ASSUME NEW n \in Msgs, Resolve(n) \/ RefuseLate(n) \/ Put(n) \/ PutTimeout(n)
        PROVE  Moves
    BY <1>2 DEF Resolve, RefuseLate, Put, PutTimeout
  <1>3. ASSUME NEW k \in Keys, Clear(k) PROVE Moves
    BY <1>3 DEF Clear, Items
  <1>4. ASSUME NEW q \in QObjs, Take(q) PROVE Moves
    BY <1>4 DEF Take, Items
  <1>5. CASE StopEnqueues
    BY <1>5 DEF StopEnqueues
  <1>6. ASSUME NEW q \in QObjs,
               \/ ConsumerStart(q) \/ ConsumerAbort(q) \/ ConsumerNext(q) \/ ConsumerFail(q)
               \/ ConsumerExit(q) \/ ConsumerSwallow(q) \/ GoIdle(q)
        PROVE  UNCHANGED mVars
    BY <1>6 DEF ConsumerStart, ConsumerAbort, ConsumerNext, ConsumerFail, ConsumerExit,
                ConsumerSwallow, GoIdle
  <1>7. ASSUME CleanerScan \/ CleanerAwaited \/ StopCleaner \/ StopConsumers \/ StopFinish
        PROVE  UNCHANGED mVars
    BY <1>7 DEF CleanerScan, CleanerAwaited, StopCleaner, StopConsumers, StopFinish
  <1>8. UNCHANGED mVars => Moves
    BY DEF mVars
  <1> HIDE DEF TypeOK, Moves
  <1>9. Moves \/ (\E n \in Msgs, k \in Keys : Submit(n, k)) \/ StopEnqueues
    BY <1>2, <1>3, <1>4, <1>6, <1>7, <1>8
    DEF Next, Enqueue, Consumer, Cleanup, Stop
  <1> USE DEF Moves
  <1> QED BY <1>1, <1>5, <1>9

(* Mailboxes are open from the start.                                       *)
LEMMA InitRefines == Init => Contract!Init
  <1> SUFFICES ASSUME Init PROVE Contract!Init
    OBVIOUS
  <1>1. Mail = [m \in Msgs |-> "unsent"]
    BY DEF Init, Mail
  <1>2. To = [m \in Msgs |-> NoKey] /\ Busy = [k \in SteadyKeys |-> FALSE] /\ Stage = "open"
    BY <1>1 DEF Init, To, Busy, Stage
  <1> QED BY <1>1, <1>2 DEF Contract!Init

(* Once consumers are cancelled, messages still only move on.               *)
LEMMA AfterRefines ==
  ASSUME TypeOK, Addressed, Next, ~Serving
  PROVE  Contract!Aftermath
  <1>1. ~Serving'
    <2>1. CASE MessageStep
      BY <2>1, MessageStepFrame
    <2>2. ASSUME NEW m \in Msgs, Resolve(m) PROVE ~Serving'
      BY <2>2 DEF Resolve
    <2>3. ASSUME NEW q \in QObjs, \/ ConsumerStart(q) \/ ConsumerAbort(q) \/ Take(q)
                                  \/ ConsumerNext(q) \/ ConsumerFail(q)
                                  \/ ConsumerExit(q) \/ ConsumerSwallow(q) \/ GoIdle(q)
          PROVE  ~Serving'
      BY <2>3 DEF ConsumerStart, ConsumerAbort, Take, ConsumerNext, ConsumerFail, ConsumerExit,
                  ConsumerSwallow, GoIdle
    <2>4. CASE CleanerScan \/ CleanerAwaited
      BY <2>4 DEF CleanerScan, CleanerAwaited
    <2>5. CASE StopEnqueues \/ StopCleaner \/ StopConsumers \/ StopFinish
      BY <2>5 DEF StopEnqueues, StopCleaner, StopConsumers, StopFinish
    <2> QED BY NextCases, <2>1, <2>2, <2>3, <2>4, <2>5
  <1>2. Stage = "closed" /\ Stage' = "closed"
    BY <1>1 DEF Stage
  <1>3. ASSUME NEW m \in Msgs
        PROVE  /\ Mail'[m] # Mail[m] => Mail'[m] \in Contract!Onward(Mail[m])
               /\ Mail[m] # "unsent" => To'[m] = To[m]
    <2>1. CASE msg'[m] = msg[m] /\ dest'[m] = dest[m]
      BY <2>1, MailFrame
    <2>2. CASE msg[m] = "unsent" /\ msg'[m] = "submitted"
      <3>1. Mail[m] = "unsent" /\ Mail'[m] \in {"sent", "elsewhere"}
        BY <2>2, MailOf, MailNext
      <3> QED BY <3>1 DEF Contract!Onward
    <2>3. CASE dest'[m] = dest[m] /\ msg[m] \in {"submitted", "putting", "queued"}
                 /\ msg'[m] \in {"putting", "queued", "handled", "dropped"}
      <3>1. CASE dest[m] \in IdleKeys
        <4>1. Mail[m] = "elsewhere" /\ Mail'[m] = "elsewhere"
          BY <2>3, <3>1, MailOf, MailNext
        <4> QED BY <4>1 DEF To
      <3>2. CASE dest[m] \notin IdleKeys
        <4>1. CASE msg[m] \in {"submitted", "putting"}
          <5>1. Mail[m] = "sent" /\ Mail'[m] \in {"sent", "waiting", "dropped"}
            BY <2>3, <3>2, <4>1, Fate, MailOf, MailNext
          <5>2. To'[m] = To[m]
            BY <2>3, <5>1 DEF To
          <5> QED BY <5>1, <5>2 DEF Contract!Onward
        <4>2. CASE msg[m] = "queued"
          <5>1. Mail[m] = "waiting" /\ Mail'[m] \in {"waiting", "handled", "dropped"}
            BY <2>3, <3>2, <4>2, Fate, MailOf, MailNext
          <5>2. To'[m] = To[m]
            BY <2>3, <5>1 DEF To
          <5> QED BY <5>1, <5>2 DEF Contract!Onward
        <4> QED BY <2>3, <4>1, <4>2
      <3> QED BY <3>1, <3>2
    <2> QED BY <2>1, <2>2, <2>3, Fate
  <1> QED BY <1>2, <1>3 DEF Contract!Aftermath

(* A message is sent when it is submitted.                                  *)
LEMMA SubmitRefines ==
  ASSUME TypeOK, Serving, NEW m \in Msgs, NEW k \in Keys, Submit(m, k)
  PROVE  Contract!Next
  <1>1. /\ msg[m] = "unsent" /\ msg'[m] = "submitted" /\ dest'[m] = k
        /\ \A n \in Msgs : n # m => msg'[n] = msg[n] /\ dest'[n] = dest[n]
        /\ UNCHANGED <<consumer, keyOf, stopper>>
    BY DEF Submit, qVars, TypeOK
  <1>2. Busy' = Busy /\ Stage' = Stage /\ Stage # "closed"
    BY <1>1, SameBusy DEF Stage
  <1>3. Mail[m] = "unsent"
    BY <1>1, MailOf
  <1>4. \A n \in Msgs : n # m => Mail'[n] = Mail[n] /\ To'[n] = To[n]
    BY <1>1, MailFrame
  <1>5. CASE k \in IdleKeys
    <2>1. Mail'[m] = "elsewhere"
      BY <1>1, <1>5, MailNext
    <2>2. Mail' = [Mail EXCEPT ![m] = "elsewhere"]
      BY <1>4, <2>1, OneMail
    <2>3. To' = To
      BY <1>3, <1>4, <2>1 DEF To
    <2>4. Contract!SendElsewhere(m)
      BY <1>2, <1>3, <2>2, <2>3 DEF Contract!SendElsewhere, Contract!Serving
    <2> QED BY <2>4 DEF Contract!Next
  <1>6. CASE k \in SteadyKeys
    <2>1. Mail'[m] = "sent"
      BY <1>1, <1>6, MailNext DEF SteadyKeys
    <2>2. Mail' = [Mail EXCEPT ![m] = "sent"]
      BY <1>4, <2>1, OneMail
    <2>3. To' = [To EXCEPT ![m] = k]
      <3>1. \A n \in Msgs : To'[n] = [To EXCEPT ![m] = k][n]
        BY <1>1, <1>4, <2>1 DEF To
      <3> QED BY <3>1 DEF To
    <2>4. Contract!Send(m, k)
      BY <1>2, <1>3, <2>2, <2>3 DEF Contract!Send, Contract!Serving
    <2> QED BY <1>6, <2>4 DEF Contract!Next
  <1> QED BY <1>5, <1>6 DEF SteadyKeys

(* The lookup is not seen.                                                  *)
LEMMA ResolveRefines ==
  ASSUME TypeOK, NEW m \in Msgs, Resolve(m)
  PROVE  UNCHANGED Contract!vars
  <1>1. /\ msg[m] = "submitted" /\ msg'[m] = "putting" /\ dest' = dest /\ stopper' = stopper
        /\ \A n \in Msgs : n # m => msg'[n] = msg[n]
    BY DEF Resolve, TypeOK
  <1>2. Mail'[m] = Mail[m]
    BY <1>1, MailOf, MailNext
  <1>3. \A n \in Msgs : n # m => Mail'[n] = Mail[n]
    BY <1>1, MailFrame
  <1>4. \A n \in Msgs : To'[n] = To[n]
    BY <1>1, <1>2, <1>3 DEF To
  <1>5. ASSUME NEW q \in QObjs, NEW k \in SteadyKeys
        PROVE  consumer'[q] = "busy" /\ keyOf'[q] = k <=> consumer[q] = "busy" /\ keyOf[q] = k
    <2>1. CASE UNCHANGED <<keyOf, consumer>>
      BY <2>1
    <2>2. ASSUME NEW p \in QObjs, consumer[p] = "unused",
                 keyOf' = [keyOf EXCEPT ![p] = dest[m]],
                 consumer' = [consumer EXCEPT ![p] = "created"]
          PROVE  consumer'[q] = "busy" /\ keyOf'[q] = k
                    <=> consumer[q] = "busy" /\ keyOf[q] = k
      BY <2>2 DEF TypeOK
    <2> QED BY <2>1, <2>2 DEF Resolve
  <1>6. Busy' = Busy
    BY <1>5, SameBusy
  <1> QED BY <1>1, <1>2, <1>3, <1>4, <1>6, SameMail DEF Contract!vars, Stage

(* A put arrives in the mailbox, or the mailbox is full.                    *)
LEMMA PutRefines ==
  ASSUME TypeOK, Addressed, KeyMatches, Routed, Serving, NEW m \in Msgs, Put(m) \/ PutTimeout(m)
  PROVE  Contract!Next \/ UNCHANGED Contract!vars
  <1>1. /\ msg[m] = "putting" /\ msg'[m] \in {"queued", "dropped"} /\ dest' = dest
        /\ \A n \in Msgs : n # m => msg'[n] = msg[n]
        /\ UNCHANGED <<consumer, keyOf, stopper>>
    BY DEF Put, PutTimeout, qVars, TypeOK
  <1>2. Busy' = Busy /\ Stage' = Stage /\ Stage # "closed"
    BY <1>1, SameBusy DEF Stage
  <1>3. \A n \in Msgs : n # m => Mail'[n] = Mail[n]
    BY <1>1, MailFrame
  <1>4. CASE dest[m] \in IdleKeys
    <2>1. Mail'[m] = Mail[m]
      BY <1>1, <1>4, MailOf, MailNext
    <2>2. Mail' = Mail /\ To' = To
      BY <1>1, <1>3, <2>1, SameMail DEF To
    <2> QED BY <1>2, <2>2 DEF Contract!vars
  <1>5. CASE dest[m] \notin IdleKeys
    <2>1. Mail[m] = "sent" /\ To[m] = dest[m]
      BY <1>1, <1>5, MailOf DEF To
    <2>2. dest[m] \in SteadyKeys /\ queues[dest[m]] = target[m] /\ target[m] \in QObjs
      BY <1>1, <1>5 DEF Addressed, Routed, SteadyKeys
    <2>3. Contract!Waiting(To[m]) = Items(target[m])
      BY <2>1, <2>2, WaitingIs
    <2>4. Contract!Full(To[m]) <=> Full(target[m])
      BY <2>3 DEF Contract!Full, Full, Contract!Cardinality, Cardinality
    <2>5. CASE Put(m)
      <3>1. msg'[m] = "queued" /\ ~Full(target[m])
        BY <2>5 DEF Put, TypeOK
      <3>2. Mail'[m] = "waiting"
        BY <1>1, <1>5, <3>1, MailNext
      <3>3. Mail' = [Mail EXCEPT ![m] = "waiting"] /\ To' = To
        BY <1>1, <1>3, <2>1, <3>2, OneMail, SameTo
      <3>4. Contract!Arrive(m)
        BY <1>2, <2>1, <2>4, <3>1, <3>3 DEF Contract!Arrive, Contract!Serving
      <3> QED BY <3>4 DEF Contract!Next
    <2>6. CASE PutTimeout(m)
      <3>1. msg'[m] = "dropped" /\ Full(target[m])
        BY <2>6 DEF PutTimeout, TypeOK
      <3>2. Mail'[m] = "dropped"
        BY <1>1, <1>5, <3>1, MailNext
      <3>3. Mail' = [Mail EXCEPT ![m] = "dropped"] /\ To' = To
        BY <1>1, <1>3, <2>1, <3>2, OneMail, SameTo
      <3>4. Contract!GiveUp(m)
        BY <1>2, <2>1, <2>4, <3>1, <3>3 DEF Contract!GiveUp, Contract!Serving
      <3> QED BY <3>4 DEF Contract!Next
    <2> QED BY <2>5, <2>6
  <1> QED BY <1>4, <1>5

(* What a queue holds goes one way: the mailbox of its steady key is        *)
(* emptied, or nothing is seen of it.                                       *)
LEMMA EmptyRefines ==
  ASSUME TypeOK, Addressed, KeyMatches, Routed, Serving,
         NEW q \in QObjs, Items(q) # {}, NEW fate \in {"handled", "dropped"},
         msg' = [m \in Msgs |-> IF m \in Items(q) THEN fate ELSE msg[m]],
         dest' = dest
  PROVE  /\ keyOf[q] \in Keys
         /\ keyOf[q] \in IdleKeys => Mail' = Mail /\ To' = To
         /\ keyOf[q] \in SteadyKeys /\ UNCHANGED Stage =>
              queues[keyOf[q]] = q /\ Contract!Empty(keyOf[q], fate)
  <1>1. \A m \in Items(q) : m \in Msgs /\ msg[m] = "queued" /\ dest[m] = keyOf[q]
                            /\ keyOf[q] \in Keys
                            /\ (keyOf[q] \notin IdleKeys => queues[keyOf[q]] = q)
    BY DEF Items, Routed, Addressed
  <1>2. keyOf[q] \in Keys
    BY <1>1
  <1>3. \A m \in Msgs : m \notin Items(q) => Mail'[m] = Mail[m]
    BY MailFrame
  <1>4. ASSUME keyOf[q] \in IdleKeys PROVE Mail' = Mail /\ To' = To
    <2>1. \A m \in Items(q) : Mail'[m] = Mail[m]
      <3> SUFFICES ASSUME NEW m \in Items(q) PROVE Mail'[m] = Mail[m]
        OBVIOUS
      <3>1. m \in Msgs /\ msg[m] = "queued" /\ dest[m] \in IdleKeys /\ msg'[m] = fate
        BY <1>1, <1>4
      <3> QED BY <3>1, MailOf, MailNext
    <2> QED BY <1>3, <2>1, SameMail DEF To
  <1>5. ASSUME keyOf[q] \in SteadyKeys, UNCHANGED Stage
        PROVE  queues[keyOf[q]] = q /\ Contract!Empty(keyOf[q], fate)
    <2>1. queues[keyOf[q]] = q
      BY <1>1, <1>5 DEF SteadyKeys
    <2>2. Contract!Waiting(keyOf[q]) = Items(q)
      BY <1>5, <2>1, WaitingIs
    <2>3. \A m \in Items(q) : m \in Msgs /\ Mail[m] = "waiting" /\ Mail'[m] = fate
      <3> SUFFICES ASSUME NEW m \in Items(q)
                   PROVE  m \in Msgs /\ Mail[m] = "waiting" /\ Mail'[m] = fate
        OBVIOUS
      <3>1. m \in Msgs /\ msg[m] = "queued" /\ dest[m] \notin IdleKeys /\ msg'[m] = fate
        BY <1>1, <1>5 DEF SteadyKeys
      <3> QED BY <3>1, MailOf, MailNext
    <2>4. Mail' = [m \in Msgs |-> IF m \in Items(q) THEN fate ELSE Mail[m]]
      <3>1. \A m \in Msgs : Mail'[m] = IF m \in Items(q) THEN fate ELSE Mail[m]
        BY <1>3, <2>3
      <3> QED BY <3>1 DEF Mail
    <2>5. To' = To
      <3>1. \A m \in Msgs : Mail'[m] \in {"unsent", "elsewhere"}
                               <=> Mail[m] \in {"unsent", "elsewhere"}
        BY <1>3, <2>3
      <3> QED BY <3>1, SameTo
    <2> QED BY <1>5, <2>1, <2>2, <2>4, <2>5 DEF Contract!Empty
  <1> QED BY <1>2, <1>4, <1>5

(* clear_queue clears the mailbox.                                          *)
LEMMA ClearRefines ==
  ASSUME TypeOK, Addressed, KeyMatches, Routed, Serving, NEW k \in Keys, Clear(k)
  PROVE  Contract!Next \/ UNCHANGED Contract!vars
  <1> DEFINE q == queues[k]
  <1>1. /\ q \in QObjs /\ keyOf[q] = k /\ Items(q) # {}
        /\ msg' = [m \in Msgs |-> IF m \in Items(q) THEN "dropped" ELSE msg[m]]
        /\ UNCHANGED <<dest, consumer, keyOf, stopper>>
    BY DEF Clear, KeyMatches, TypeOK, qVars
  <1>2. Busy' = Busy /\ Stage' = Stage /\ Stage # "closed"
    BY <1>1, SameBusy DEF Stage
  <1> HIDE DEF q
  <1>3. CASE k \in IdleKeys
    <2>1. Mail' = Mail /\ To' = To
      BY <1>1, <1>3, EmptyRefines
    <2> QED BY <1>2, <2>1 DEF Contract!vars
  <1>4. CASE k \in SteadyKeys
    <2>1. Contract!Empty(k, "dropped")
      BY <1>1, <1>2, <1>4, EmptyRefines
    <2>2. Contract!Clear(k)
      BY <1>2, <2>1 DEF Contract!Clear, Contract!Serving
    <2> QED BY <1>4, <2>2 DEF Contract!Next
  <1> QED BY <1>3, <1>4 DEF SteadyKeys

(* A batch takes the whole mailbox, and no other batch of the key is being  *)
(* processed.                                                               *)
LEMMA TakeRefines ==
  ASSUME TypeOK, Addressed, PoolFresh, KeyMatches, Routed, SteadyConsumerRegistered, Serving,
         NEW q \in QObjs, Take(q)
  PROVE  Contract!Next \/ UNCHANGED Contract!vars
  <1> DEFINE k == keyOf[q]
  <1>1. /\ Items(q) # {}
        /\ msg' = [m \in Msgs |-> IF m \in Items(q) THEN "handled" ELSE msg[m]]
        /\ UNCHANGED <<dest, keyOf, stopper>>
        /\ consumer[q] = "waiting" /\ consumer'[q] = "busy"
        /\ \A p \in QObjs : p # q => consumer'[p] = consumer[p]
    BY DEF Take, TypeOK
  <1>2. Stage' = Stage /\ Stage # "closed"
    BY <1>1 DEF Stage
  <1>3. CASE k \in IdleKeys
    <2>1. Mail' = Mail /\ To' = To
      BY <1>1, <1>3, EmptyRefines
    <2>2. Busy' = Busy
      BY <1>1, <1>3, SameBusy DEF SteadyKeys
    <2> QED BY <1>2, <2>1, <2>2 DEF Contract!vars
  <1>4. CASE k \in SteadyKeys
    <2>1. queues[k] = q /\ Contract!Empty(k, "handled")
      BY <1>1, <1>2, <1>4, EmptyRefines
    <2>2. \A p \in QObjs : consumer[p] = "busy" => keyOf[p] # k
      <3>1. \A p \in QObjs : consumer[p] = "busy" /\ keyOf[p] = k => p = q
        BY <1>4, <2>1 DEF SteadyConsumerRegistered, LiveConsumer, SteadyKeys
      <3> QED BY <1>1, <3>1
    <2>3. ~Busy[k]
      BY <1>4, <2>2 DEF Busy
    <2>4. Busy' = [Busy EXCEPT ![k] = TRUE]
      <3>1. \A j \in SteadyKeys : Busy'[j] = [Busy EXCEPT ![k] = TRUE][j]
        BY <1>1, <1>4 DEF Busy
      <3> QED BY <3>1 DEF Busy
    <2>5. Contract!Take(k)
      BY <1>2, <2>1, <2>3, <2>4 DEF Contract!Take, Contract!Serving
    <2> QED BY <1>4, <2>5 DEF Contract!Next
  <1> QED BY <1>1, <1>3, <1>4, EmptyRefines DEF SteadyKeys

(* A batch of a steady key that ends was the only one.                      *)
LEMMA FinishRefines ==
  ASSUME TypeOK, SteadyConsumerRegistered, Serving, NEW q \in QObjs,
         consumer[q] = "busy", consumer'[q] # "busy",
         \A p \in QObjs : p # q => consumer'[p] = consumer[p],
         UNCHANGED <<keyOf, mVars, stopper>>
  PROVE  Contract!Next \/ UNCHANGED Contract!vars
  <1> DEFINE k == keyOf[q]
  <1>1. Mail' = Mail /\ To' = To
    BY MailFrame, SameMail DEF mVars
  <1>2. Stage' = Stage /\ Stage # "closed"
    BY DEF Stage
  <1>3. CASE k \notin SteadyKeys
    <2>1. Busy' = Busy
      BY <1>3, SameBusy
    <2> QED BY <1>1, <1>2, <2>1 DEF Contract!vars
  <1>4. CASE k \in SteadyKeys
    <2>1. \A p \in QObjs : consumer[p] = "busy" /\ keyOf[p] = k => p = q
      BY <1>4 DEF SteadyConsumerRegistered, LiveConsumer, SteadyKeys
    <2>2. Busy[k]
      BY <1>4 DEF Busy
    <2>3. Busy' = [Busy EXCEPT ![k] = FALSE]
      <3>1. \A j \in SteadyKeys : Busy'[j] = [Busy EXCEPT ![k] = FALSE][j]
        BY <1>4, <2>1 DEF Busy
      <3> QED BY <3>1 DEF Busy
    <2>4. Contract!Finish(k)
      BY <1>1, <1>2, <2>2, <2>3 DEF Contract!Finish, Contract!Serving
    <2> QED BY <1>4, <2>4 DEF Contract!Next
  <1> QED BY <1>3, <1>4

(* stop_all turns away the messages on their way.                           *)
LEMMA StopRefines ==
  ASSUME TypeOK, Addressed, StopEnqueues
  PROVE  Contract!Next
  <1>1. /\ stopper = "running" /\ stopper' = "draining" /\ dest' = dest
        /\ msg' = [m \in Msgs |-> IF msg[m] \in {"submitted", "putting"}
                                  THEN "dropped" ELSE msg[m]]
        /\ UNCHANGED <<consumer, keyOf>>
    BY DEF StopEnqueues, qVars
  <1>2. Stage = "open" /\ Stage' = "closing" /\ Busy' = Busy
    BY <1>1, SameBusy DEF Stage
  <1>3. ASSUME NEW m \in Msgs
        PROVE  /\ Mail'[m] = IF Mail[m] = "sent" THEN "dropped" ELSE Mail[m]
               /\ To'[m] = To[m]
    <2>1. CASE msg[m] \in {"submitted", "putting"} /\ dest[m] \notin IdleKeys
      <3>1. Mail[m] = "sent" /\ Mail'[m] = "dropped"
        BY <1>1, <2>1, MailOf, MailNext
      <3> QED BY <1>1, <3>1 DEF To
    <2>2. CASE msg[m] \in {"submitted", "putting"} /\ dest[m] \in IdleKeys
      <3>1. Mail[m] = "elsewhere" /\ Mail'[m] = "elsewhere"
        BY <1>1, <2>2, MailOf, MailNext
      <3> QED BY <1>1, <3>1 DEF To
    <2>3. CASE msg[m] \notin {"submitted", "putting"}
      <3>1. Mail'[m] = Mail[m] /\ To'[m] = To[m]
        BY <1>1, <2>3, MailFrame
      <3>2. Mail[m] # "sent"
        BY <2>3, MailOf DEF TypeOK, MsgState
      <3> QED BY <3>1, <3>2
    <2> QED BY <2>1, <2>2, <2>3
  <1>4. Mail' = [m \in Msgs |-> IF Mail[m] = "sent" THEN "dropped" ELSE Mail[m]]
    BY <1>3 DEF Mail
  <1>5. To' = To
    BY <1>3 DEF To
  <1> QED BY <1>2, <1>4, <1>5 DEF Contract!StartClosing, Contract!Next

(* Steps the mailboxes do not see.                                          *)
LEMMA StutterRefines ==
  ASSUME UNCHANGED <<keyOf, mVars, Stage>>,
         \A q \in QObjs : consumer'[q] = "busy" <=> consumer[q] = "busy"
  PROVE  UNCHANGED Contract!vars
  <1>1. Mail' = Mail /\ To' = To
    BY MailFrame, SameMail DEF mVars
  <1>2. Busy' = Busy
    BY SameBusy
  <1> QED BY <1>1, <1>2 DEF Contract!vars

(* Every step of the manager is a step of the contract or leaves it alone.  *)
LEMMA NextRefines ==
  ASSUME IInv, [Next]_vars
  PROVE  Contract!Next \/ UNCHANGED Contract!vars
  <1> TypeOK /\ Addressed /\ PoolFresh /\ KeyMatches /\ Routed /\ SteadyConsumerRegistered
      /\ OnlyIdleKeysEvicted
    BY DEF IInv
  <1> DEFINE Refines == Contract!Next \/ UNCHANGED Contract!vars
  <1>1. CASE UNCHANGED vars
    BY <1>1, StutterRefines DEF vars, qVars, Stage
  <1>2. CASE Next /\ ~Serving
    BY <1>2, AfterRefines DEF Contract!Next
  <1>3. ASSUME Next, Serving PROVE Refines
    <2>1. ASSUME NEW m \in Msgs, NEW k \in Keys, Submit(m, k) PROVE Refines
      BY <1>3, <2>1, SubmitRefines
    <2>2. ASSUME NEW m \in Msgs, Resolve(m) PROVE Refines
      BY <2>2, ResolveRefines
    <2>3. ASSUME NEW m \in Msgs, RefuseLate(m) PROVE FALSE
      BY <1>3, <2>3 DEF RefuseLate
    <2>4. ASSUME NEW m \in Msgs, Put(m) \/ PutTimeout(m) PROVE Refines
      BY <1>3, <2>4, PutRefines
    <2>5. ASSUME NEW k \in Keys, Clear(k) PROVE Refines
      BY <1>3, <2>5, ClearRefines
    <2>6. ASSUME NEW q \in QObjs, Take(q) PROVE Refines
      BY <1>3, <2>6, TakeRefines
    <2>7. ASSUME NEW q \in QObjs, ConsumerNext(q) \/ ConsumerFail(q) \/ ConsumerSwallow(q)
          PROVE  Refines
      <3>1. /\ consumer[q] = "busy" /\ consumer'[q] # "busy"
            /\ \A p \in QObjs : p # q => consumer'[p] = consumer[p]
            /\ UNCHANGED <<keyOf, mVars, stopper>>
        BY <2>7 DEF ConsumerNext, ConsumerFail, ConsumerSwallow, TypeOK
      <3> QED BY <1>3, <3>1, FinishRefines
    <2>8. ASSUME NEW q \in QObjs, ConsumerStart(q) \/ ConsumerAbort(q) \/ GoIdle(q)
          PROVE  Refines
      <3>1. /\ UNCHANGED <<keyOf, mVars, stopper>>
            /\ \A p \in QObjs : consumer'[p] = "busy" <=> consumer[p] = "busy"
        BY <2>8 DEF ConsumerStart, ConsumerAbort, GoIdle, TypeOK
      <3> QED BY <3>1, StutterRefines DEF Stage
    <2>9. ASSUME NEW q \in QObjs, ConsumerExit(q) PROVE Refines
      <3>1. /\ UNCHANGED <<keyOf, mVars, stopper>> /\ consumer'[q] = "done"
            /\ \A p \in QObjs : p # q => consumer'[p] = consumer[p]
        BY <2>9 DEF ConsumerExit, TypeOK
      <3>2. CASE consumer[q] = "busy"
        BY <1>3, <3>1, <3>2, FinishRefines
      <3>3. CASE consumer[q] # "busy"
        BY <3>1, <3>3, StutterRefines DEF Stage
      <3> QED BY <3>2, <3>3
    <2>10. CASE CleanerScan \/ CleanerAwaited
      <3>1. UNCHANGED <<keyOf, consumer, mVars, stopper>>
        BY <2>10 DEF CleanerScan, CleanerAwaited
      <3> QED BY <3>1, StutterRefines DEF Stage
    <2>11. CASE StopEnqueues
      BY <2>11, StopRefines
    <2>12. CASE StopCleaner
      <3>1. UNCHANGED <<keyOf, consumer, mVars>> /\ stopper = "draining" /\ stopper' = "halting"
        BY <2>12 DEF StopCleaner
      <3> QED BY <3>1, StutterRefines DEF Stage
    <2>13. CASE StopConsumers
      <3>1. UNCHANGED <<keyOf, consumer, mVars>> /\ stopper = "halting" /\ stopper' = "waiting"
        BY <2>13 DEF StopConsumers
      <3>2. Mail' = Mail /\ To' = To
        BY <3>1, MailFrame, SameMail DEF mVars
      <3>3. Busy' = Busy
        BY <3>1, SameBusy
      <3>4. Stage = "closing" /\ Stage' = "closed"
        BY <3>1 DEF Stage
      <3> QED BY <3>2, <3>3, <3>4 DEF Contract!Close, Contract!Next
    <2>14. CASE StopFinish
      BY <1>3, <2>14 DEF StopFinish
    <2> HIDE DEF Refines
    <2> QED BY <1>3, <2>1, <2>2, <2>3, <2>4, <2>5, <2>6, <2>7, <2>8, <2>9, <2>10, <2>11,
               <2>12, <2>13, <2>14 DEF Next, Enqueue, Consumer, Cleanup, Stop
  <1> QED BY <1>1, <1>2, <1>3

(* A key whose traffic does not pause has a mailbox, for any keys, queue    *)
(* objects, messages and capacity, on every supported Python: its messages  *)
(* wait together, leave together into one batch at a time or cleared, and   *)
(* none is lost or handled twice, until stop_all cancels the consumers.     *)
THEOREM MailboxIsImplemented == Spec => ImplementsMailbox
  <1>1. IInv /\ [Next]_vars => [Contract!Next]_(Contract!vars)
    BY NextRefines
  <1> QED BY <1>1, InitRefines, Invariance, PTL DEF Spec, ImplementsMailbox, Contract!Spec
==============================================================================
