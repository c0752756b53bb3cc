-------------------------- MODULE TaskTrackerProofs --------------------------
(***************************************************************************)
(* Proofs about TaskTracker: for any sets of chats, runs and subscribers    *)
(* and any length of buffer and stream, the registry never loses a live     *)
(* run, no open stream is left without an end, what a stream delivers has   *)
(* no gap, and the tracker implements RunRegistry.                          *)
(***************************************************************************)
EXTENDS TaskTracker, SequenceTheorems, TLAPS

(* A run that was ever started has a key.                                   *)
OwnerKnown == \A r \in Runs : task[r] # "unused" => owner[r] \in Keys

(* A chat names a run that was started for it.                              *)
NamesOwn ==
    \A k \in Keys : registry[k] # NoRun =>
        task[registry[k]] # "unused" /\ owner[registry[k]] = k

(* An open stream was attached to a run.                                    *)
JoinedKnown == \A s \in Subs : Open(s) => joined[s] \in Runs

(* A run broadcasts to subscribers that were attached to it, and to none    *)
(* before it is started.                                                    *)
QueueJoined ==
    \A r \in Runs : \A s \in queues[r] :
        joined[s] = r /\ stream[s] # "free" /\ task[r] # "unused"

(* What has not been used yet is empty.                                     *)
FreshEmpty ==
    /\ \A s \in Subs : stream[s] = "free" => inbox[s] = <<>>
    /\ \A r \in Runs : task[r] = "unused" => emitted[r] = 0

(* The replay buffer holds the last events emitted, in order.               *)
EndsAt(b, n) == \A i \in 1..Len(b) : b[i] = n - Len(b) + i
BufferRecent == \A r \in Runs : EndsAt(buffer[r], emitted[r])

(* The inductive invariant.                                                 *)
IInv ==
    /\ TypeOK
    /\ OwnerKnown /\ NamesOwn /\ LiveRunRegistered
    /\ JoinedKnown /\ QueueJoined /\ FreshEmpty
    /\ BufferRecent
    /\ NoStrandedSubscriber
    /\ GapFreeStream

------------------------------------------------------------------------------
(* Lemmas about the queues and the replay buffer.                           *)

(* Cutting the replay buffer leaves a sequence of event numbers.            *)
LEMMA LatestType == ASSUME NEW b \in Seq(Nat) PROVE Latest(b) \in Seq(Nat)
  <1>1. CASE Len(b) > BufCap
    <2>1. \A i \in (Len(b) - BufCap + 1)..Len(b) : b[i] \in Nat
      BY <1>1, BoundsAssumption
    <2>2. SubSeq(b, Len(b) - BufCap + 1, Len(b)) \in Seq(Nat)
      BY <1>1, <2>1, BoundsAssumption
    <2> QED BY <1>1, <2>2 DEF Latest
  <1>2. CASE ~(Len(b) > BufCap)
    BY <1>2 DEF Latest
  <1> QED BY <1>1, <1>2

(* A broadcast leaves every subscriber with a queue of events.              *)
LEMMA DeliverType ==
  ASSUME TypeOK, NEW r \in Runs, NEW e \in Event
  PROVE  Deliver(r, e) \in [Subs -> Seq(Event)]
  BY DEF TypeOK, Deliver

(* A broadcast keeps the sentinels that are on their way.                   *)
LEMMA DeliverKeepsSentinel ==
  ASSUME TypeOK, NEW r \in Runs, NEW e \in Event, NEW s \in Subs,
         HasSentinel(inbox[s])
  PROVE  HasSentinel(Deliver(r, e)[s])
  <1>1. PICK i \in 1..Len(inbox[s]) : inbox[s][i] = Sentinel
    BY DEF HasSentinel
  <1>2. inbox[s] \in Seq(Event)
    BY DEF TypeOK
  <1>3. CASE s \in queues[r]
    <2>1. Deliver(r, e)[s] = Append(inbox[s], e)
      BY <1>3 DEF Deliver
    <2>2. /\ i \in 1..Len(Append(inbox[s], e))
          /\ Append(inbox[s], e)[i] = Sentinel
      BY <1>1, <1>2
    <2> QED BY <2>1, <2>2 DEF HasSentinel
  <1>4. CASE s \notin queues[r]
    BY <1>4 DEF Deliver
  <1> QED BY <1>3, <1>4

(* Appending the sentinel is seen.                                          *)
LEMMA AppendSentinel ==
  ASSUME NEW q \in Seq(Event) PROVE HasSentinel(Append(q, Sentinel))
  <1>1. /\ Len(q) + 1 \in 1..Len(Append(q, Sentinel))
        /\ Append(q, Sentinel)[Len(q) + 1] = Sentinel
    BY DEF Event
  <1> QED BY <1>1 DEF HasSentinel

(* An active key names a run.                                               *)
LEMMA ActiveRun ==
  ASSUME TypeOK, NEW k \in Keys, Active(k)
  PROVE  registry[k] \in Runs /\ Live(registry[k])
  BY DEF TypeOK, Active

(* Detaching takes no other subscriber out of any run.                      *)
LEMMA DetachOthers ==
  ASSUME TypeOK, NEW s \in Subs, Detach(s)
  PROVE  /\ queues' \in [Runs -> SUBSET Subs]
         /\ \A r \in Runs : queues'[r] \subseteq queues[r]
         /\ \A r \in Runs, t \in Subs \ {s} : t \in queues[r] => t \in queues'[r]
  <1> DEFINE r0 == registry[owner[joined[s]]]
  <1>1. queues \in [Runs -> SUBSET Subs]
    BY DEF TypeOK
  <1>2. queues' = IF r0 = NoRun THEN queues ELSE [queues EXCEPT ![r0] = @ \ {s}]
    BY DEF Detach
  <1> HIDE DEF r0
  <1>3. CASE r0 \in Runs
    BY <1>1, <1>2, <1>3
  <1>4. CASE r0 \notin Runs
    <2>1. [queues EXCEPT ![r0] = @ \ {s}] = queues
      BY <1>1, <1>4
    <2> QED BY <1>1, <1>2, <2>1
  <1> QED BY <1>3, <1>4

(* Reading an event leaves the sentinel behind it in the queue.             *)
LEMMA TailKeepsSentinel ==
  ASSUME NEW q \in Seq(Event), q # <<>>, Head(q) # Sentinel, HasSentinel(q)
  PROVE  HasSentinel(Tail(q))
  <1>1. PICK i \in 1..Len(q) : q[i] = Sentinel
    BY DEF HasSentinel
  <1>2. i # 1
    BY <1>1
  <1>3. i - 1 \in 1..Len(Tail(q)) /\ Tail(q)[i - 1] = Sentinel
    BY <1>1, <1>2
  <1> QED BY <1>3 DEF HasSentinel
------------------------------------------------------------------------------
(* Type correctness.                                                        *)

(* Every step keeps every variable in its type.                             *)
LEMMA TypeStep == ASSUME TypeOK, [Next]_vars PROVE TypeOK'
  <1> USE DEF TypeOK, TaskState, Event
  <1>1. ASSUME NEW s \in Subs, NEW k \in Keys, NEW r \in Runs, StartFresh(s, k, r)
        PROVE  TypeOK'
    BY <1>1 DEF StartFresh, Install, Subscribe
  <1>2. ASSUME NEW s \in Subs, NEW k \in Keys, NEW r \in Runs, ForceNew(s, k, r)
        PROVE  TypeOK'
    <2>1. registry[k] \in Runs
      BY <1>2, ActiveRun DEF ForceNew
    <2>2. inbox' \in [Subs -> Seq(Event)]
      BY <1>2, <2>1, DeliverType DEF ForceNew
    <2>3. cancel' \in [Runs -> {"none", "requested", "delivered"}]
      BY <1>2, <2>1 DEF ForceNew
    <2>4. /\ registry' \in [Keys -> Runs \cup {NoRun}]
          /\ owner' \in [Runs -> Keys \cup {NoKey}]
          /\ task' \in [Runs -> TaskState]
          /\ queues' \in [Runs -> SUBSET Subs]
          /\ watchdog' \in [Runs -> {"none", "asleep", "over"}]
      BY <1>2 DEF ForceNew, Install
    <2>5. /\ stream' \in [Subs -> {"free", "open", "closed"}]
          /\ joined' \in [Subs -> Runs \cup {NoRun}]
          /\ seen' \in [Subs -> Int]
      BY <1>2 DEF ForceNew, Install, Subscribe
    <2> QED BY <1>2, <2>2, <2>3, <2>4, <2>5 DEF ForceNew, Install
  <1>3. ASSUME NEW s \in Subs, NEW k \in Keys, NEW replay \in BOOLEAN,
               Attach(s, k, replay)
        PROVE  TypeOK'
    <2> DEFINE r == registry[k]
               q == IF replay THEN buffer[r] ELSE <<>>
    <2>1. r \in Runs
      BY <1>3, ActiveRun DEF Attach
    <2>2. q \in Seq(Nat) /\ q \in Seq(Event)
      <3>1. q \in Seq(Nat)
        BY <2>1
      <3> HIDE DEF q
      <3> QED BY <3>1, SeqMonotonic
    <2>3. emitted[r] - Len(q) \in Int
      BY <2>1, <2>2
    <2>4. /\ stream' = [stream EXCEPT ![s] = "open"]
          /\ joined' = [joined EXCEPT ![s] = r]
          /\ seen' = [seen EXCEPT ![s] = emitted[r] - Len(q)]
          /\ inbox' = [inbox EXCEPT ![s] = q]
          /\ queues' = [queues EXCEPT ![r] = @ \cup {s}]
      BY <1>3 DEF Attach, Subscribe
    <2> HIDE DEF r, q
    <2>5. inbox' \in [Subs -> Seq(Event)] /\ seen' \in [Subs -> Int]
      BY <2>2, <2>3, <2>4
    <2>6. /\ stream' \in [Subs -> {"free", "open", "closed"}]
          /\ joined' \in [Subs -> Runs \cup {NoRun}]
          /\ queues' \in [Runs -> SUBSET Subs]
      BY <2>1, <2>4
    <2>7. UNCHANGED <<registry, owner, task, cancel, buffer, emitted, idle, watchdog>>
      BY <1>3 DEF Attach
    <2> QED BY <2>5, <2>6, <2>7
  <1>4. ASSUME NEW s \in Subs, Consume(s) PROVE TypeOK'
    <2>1. inbox[s] \in Seq(Event) /\ inbox[s] # <<>>
      BY <1>4 DEF Consume
    <2>2. Head(inbox[s]) \in Event /\ Tail(inbox[s]) \in Seq(Event)
      BY ONLY <2>1, HeadTailProperties
    <2>3. queues' \in [Runs -> SUBSET Subs]
      BY <1>4, DetachOthers DEF Consume
    <2>4. seen' \in [Subs -> Int]
      <3>1. CASE UNCHANGED seen
        BY <3>1
      <3>2. CASE Head(inbox[s]) # Sentinel /\ seen' = [seen EXCEPT ![s] = Head(inbox[s])]
        <4>1. Head(inbox[s]) \in Int
          BY <2>2, <3>2
        <4> QED BY <3>2, <4>1
      <3> QED BY <1>4, <3>1, <3>2 DEF Consume
    <2> QED BY <1>4, <2>2, <2>3, <2>4 DEF Consume
  <1>5. ASSUME NEW s \in Subs, Disconnect(s) PROVE TypeOK'
    BY <1>5, DetachOthers DEF Disconnect
  <1>6. ASSUME NEW k \in Keys, RequestStop(k) \/ Touch(k) PROVE TypeOK'
    BY <1>6 DEF RequestStop, Touch, Active, subVars
  <1>7. ASSUME NEW r \in Runs, ProducerStart(r) PROVE TypeOK'
    <2>1. inbox' \in [Subs -> Seq(Event)]
      BY <1>7, DeliverType DEF ProducerStart, Emit
    <2> QED BY <1>7, <2>1 DEF ProducerStart, Emit
  <1>8. ASSUME NEW r \in Runs, ProducerEmit(r) PROVE TypeOK'
    <2>1. inbox' \in [Subs -> Seq(Event)]
      BY <1>8, DeliverType DEF ProducerEmit, Emit
    <2>2. Append(buffer[r], emitted[r] + 1) \in Seq(Nat)
      OBVIOUS
    <2>3. Latest(Append(buffer[r], emitted[r] + 1)) \in Seq(Nat)
      BY <2>2, LatestType
    <2> QED BY <1>8, <2>1, <2>3 DEF ProducerEmit, Emit
  <1>9. ASSUME NEW r \in Runs, ProducerReturn(r) PROVE TypeOK'
    <2>1. inbox' \in [Subs -> Seq(Event)]
      BY <1>9, DeliverType DEF ProducerReturn
    <2> QED BY <1>9, <2>1 DEF ProducerReturn, Finalise
  <1>10. ASSUME NEW r \in Runs, ProducerError(r) PROVE TypeOK'
    <2>1. emitted[r] + 1 \in Event
      OBVIOUS
    <2>2. \A s \in Subs : Append(Append(inbox[s], emitted[r] + 1), Sentinel) \in Seq(Event)
      BY <2>1
    <2>3. inbox' \in [Subs -> Seq(Event)]
      BY <1>10, <2>2 DEF ProducerError
    <2>4. buffer' \in [Runs -> Seq(Nat)] /\ emitted' \in [Runs -> Nat]
      BY <1>10 DEF ProducerError
    <2>5. /\ task' \in [Runs -> TaskState]
          /\ registry' \in [Keys -> Runs \cup {NoRun}]
          /\ watchdog' \in [Runs -> {"none", "asleep", "over"}]
      BY <1>10 DEF ProducerError, Finalise
    <2> QED BY <1>10, <2>3, <2>4, <2>5 DEF ProducerError, Finalise
  <1>11. ASSUME NEW r \in Runs, DeliverCancel(r) \/ AbortBeforeStart(r) PROVE TypeOK'
    BY <1>11 DEF DeliverCancel, AbortBeforeStart, subVars
  <1>12. ASSUME NEW r \in Runs, GoIdle(r) \/ WatchdogTick(r) PROVE TypeOK'
    BY <1>12 DEF GoIdle, WatchdogTick, subVars
  <1>13. CASE UNCHANGED vars
    BY <1>13 DEF vars, runVars, subVars
  <1> QED
    BY <1>1, <1>2, <1>3, <1>4, <1>5, <1>6, <1>7, <1>8, <1>9, <1>10, <1>11, <1>12,
       <1>13 DEF Next, Producer
------------------------------------------------------------------------------
(* The registry.                                                            *)

(* A step that changes neither registry, owner nor task, and clears no      *)
(* cancellation, keeps every live run registered.                           *)
LEMMA RegisteredFrame ==
  ASSUME OwnerKnown, LiveRunRegistered, UNCHANGED <<registry, owner, task>>,
         \A r \in Runs : cancel'[r] = "none" => cancel[r] = "none"
  PROVE  OwnerKnown' /\ LiveRunRegistered'
  BY DEF OwnerKnown, LiveRunRegistered, Live

(* Installing a run under a key whose run, if any, is over or cancelled.    *)
LEMMA RegisteredInstall ==
  ASSUME TypeOK, OwnerKnown, LiveRunRegistered,
         NEW s \in Subs, NEW k \in Keys, NEW r \in Runs, Install(s, k, r),
         \A p \in Runs : cancel'[p] = "none" => cancel[p] = "none",
         registry[k] \in Runs /\ Live(registry[k]) => cancel'[registry[k]] # "none"
  PROVE  OwnerKnown' /\ LiveRunRegistered'
  <1>1. /\ registry' = [registry EXCEPT ![k] = r]
        /\ owner' = [owner EXCEPT ![r] = k]
        /\ task[r] = "unused" /\ task' = [task EXCEPT ![r] = "created"]
    BY DEF Install
  <1>2. OwnerKnown'
    BY <1>1 DEF OwnerKnown, TypeOK
  <1>3. ASSUME NEW p \in Runs, Live(p)', cancel'[p] = "none"
        PROVE  registry'[owner'[p]] = p
    <2>1. CASE p = r
      BY <1>1, <2>1 DEF TypeOK
    <2>2. CASE p # r
      <3>1. Live(p) /\ owner'[p] = owner[p] /\ owner[p] \in Keys
        BY <1>1, <1>3, <2>2 DEF Live, TypeOK, OwnerKnown
      <3>2. registry[owner[p]] = p
        BY <1>3, <3>1 DEF LiveRunRegistered
      <3>3. owner[p] # k
        BY <1>3, <3>1, <3>2
      <3> QED BY <1>1, <3>1, <3>2, <3>3 DEF TypeOK
    <2> QED BY <2>1, <2>2
  <1> QED BY <1>2, <1>3 DEF LiveRunRegistered

(* The finally of a run removes no other run from the registry.             *)
LEMMA RegisteredFinalise ==
  ASSUME TypeOK, OwnerKnown, LiveRunRegistered,
         NEW r \in Runs, task[r] = "streaming", Finalise(r)
  PROVE  OwnerKnown' /\ LiveRunRegistered'
  <1>1. /\ task' = [task EXCEPT ![r] = "finished"]
        /\ registry' = IF registry[owner[r]] = r
                       THEN [registry EXCEPT ![owner[r]] = NoRun] ELSE registry
        /\ UNCHANGED <<owner, cancel>>
    BY DEF Finalise
  <1>2. OwnerKnown'
    BY <1>1 DEF OwnerKnown, TypeOK
  <1>3. ASSUME NEW p \in Runs, Live(p)', cancel'[p] = "none"
        PROVE  registry'[owner'[p]] = p
    <2>1. p # r /\ Live(p)
      BY <1>1, <1>3 DEF Live, TypeOK
    <2>2. registry[owner[p]] = p /\ owner[p] \in Keys
      BY <1>1, <1>3, <2>1 DEF LiveRunRegistered, OwnerKnown, Live
    <2> QED BY <1>1, <2>1, <2>2 DEF TypeOK
  <1> QED BY <1>2, <1>3 DEF LiveRunRegistered

(* No step loses a live run.                                                *)
LEMMA RegisteredStep ==
  ASSUME TypeOK, OwnerKnown, LiveRunRegistered, [Next]_vars
  PROVE  OwnerKnown' /\ LiveRunRegistered'
  <1>1. ASSUME NEW s \in Subs, NEW k \in Keys, NEW r \in Runs, StartFresh(s, k, r)
        PROVE  OwnerKnown' /\ LiveRunRegistered'
    <2>1. ~(registry[k] \in Runs /\ Live(registry[k]))
      BY <1>1, NullAssumption DEF StartFresh, Active
    <2> QED BY <1>1, <2>1, RegisteredInstall DEF StartFresh
  <1>2. ASSUME NEW s \in Subs, NEW k \in Keys, NEW r \in Runs, ForceNew(s, k, r)
        PROVE  OwnerKnown' /\ LiveRunRegistered'
    <2>1. registry[k] \in Runs
      BY <1>2, ActiveRun DEF ForceNew
    <2>2. cancel' = [cancel EXCEPT ![registry[k]] = "requested"] /\ Install(s, k, r)
      BY <1>2 DEF ForceNew
    <2>3. /\ cancel'[registry[k]] # "none"
          /\ \A p \in Runs : cancel'[p] = "none" => cancel[p] = "none"
      BY <2>1, <2>2 DEF TypeOK
    <2> QED BY <2>1, <2>2, <2>3, RegisteredInstall
  <1>3. ASSUME NEW s \in Subs, NEW k \in Keys, NEW replay \in BOOLEAN, Attach(s, k, replay)
        PROVE  OwnerKnown' /\ LiveRunRegistered'
    BY <1>3, RegisteredFrame DEF Attach
  <1>4. ASSUME NEW s \in Subs, Consume(s) \/ Disconnect(s)
        PROVE  OwnerKnown' /\ LiveRunRegistered'
    BY <1>4, RegisteredFrame DEF Consume, Disconnect
  <1>5. ASSUME NEW k \in Keys, RequestStop(k) PROVE OwnerKnown' /\ LiveRunRegistered'
    <2>1. registry[k] \in Runs /\ cancel' = [cancel EXCEPT ![registry[k]] = "requested"]
      BY <1>5, ActiveRun DEF RequestStop
    <2>2. \A p \in Runs : cancel'[p] = "none" => cancel[p] = "none"
      BY <2>1 DEF TypeOK
    <2> QED BY <1>5, <2>2, RegisteredFrame DEF RequestStop
  <1>6. ASSUME NEW k \in Keys, Touch(k) PROVE OwnerKnown' /\ LiveRunRegistered'
    BY <1>6, RegisteredFrame DEF Touch
  <1>7. ASSUME NEW r \in Runs, ProducerStart(r) PROVE OwnerKnown' /\ LiveRunRegistered'
    BY <1>7 DEF ProducerStart, OwnerKnown, LiveRunRegistered, Live, TypeOK
  <1>8. ASSUME NEW r \in Runs, ProducerEmit(r) PROVE OwnerKnown' /\ LiveRunRegistered'
    BY <1>8, RegisteredFrame DEF ProducerEmit
  <1>9. ASSUME NEW r \in Runs, DeliverCancel(r) PROVE OwnerKnown' /\ LiveRunRegistered'
    <2>1. \A p \in Runs : cancel'[p] = "none" => cancel[p] = "none"
      BY <1>9 DEF DeliverCancel, TypeOK
    <2> QED BY <1>9, <2>1, RegisteredFrame DEF DeliverCancel
  <1>10. ASSUME NEW r \in Runs, ProducerReturn(r) PROVE OwnerKnown' /\ LiveRunRegistered'
    BY <1>10, RegisteredFinalise DEF ProducerReturn
  <1>11. ASSUME NEW r \in Runs, ProducerError(r) PROVE OwnerKnown' /\ LiveRunRegistered'
    BY <1>11, RegisteredFinalise DEF ProducerError
  <1>12. ASSUME NEW r \in Runs, AbortBeforeStart(r) PROVE OwnerKnown' /\ LiveRunRegistered'
    BY <1>12 DEF AbortBeforeStart, OwnerKnown, LiveRunRegistered, Live, TypeOK
  <1>13. ASSUME NEW r \in Runs, GoIdle(r) PROVE OwnerKnown' /\ LiveRunRegistered'
    BY <1>13, RegisteredFrame DEF GoIdle
  <1>14. ASSUME NEW r \in Runs, WatchdogTick(r) PROVE OwnerKnown' /\ LiveRunRegistered'
    <2>1. \A p \in Runs : cancel'[p] = "none" => cancel[p] = "none"
      BY <1>14 DEF WatchdogTick, TypeOK
    <2> QED BY <1>14, <2>1, RegisteredFrame DEF WatchdogTick
  <1>15. CASE UNCHANGED vars
    BY <1>15, RegisteredFrame DEF vars, runVars
  <1> QED
    BY <1>1, <1>2, <1>3, <1>4, <1>5, <1>6, <1>7, <1>8, <1>9, <1>10, <1>11, <1>12,
       <1>13, <1>14, <1>15 DEF Next, Producer
------------------------------------------------------------------------------
(* What the dictionary names.                                               *)

(* A fresh run is named by its chat only.                                   *)
LEMMA NamesInstall ==
  ASSUME TypeOK, NamesOwn,
         NEW s \in Subs, NEW k \in Keys, NEW r \in Runs, Install(s, k, r)
  PROVE  NamesOwn'
  <1>1. /\ registry' = [registry EXCEPT ![k] = r]
        /\ owner' = [owner EXCEPT ![r] = k]
        /\ task[r] = "unused" /\ task' = [task EXCEPT ![r] = "created"]
    BY DEF Install
  <1> QED BY <1>1, NullAssumption DEF NamesOwn, TypeOK

(* No step makes a chat name the run of another one.                        *)
LEMMA NamesStep ==
  ASSUME TypeOK, NamesOwn, [Next]_vars
  PROVE  NamesOwn'
  <1> USE NullAssumption
  <1>1. ASSUME NEW s \in Subs, NEW k \in Keys, NEW r \in Runs,
               StartFresh(s, k, r) \/ ForceNew(s, k, r)
        PROVE  NamesOwn'
    BY <1>1, NamesInstall DEF StartFresh, ForceNew
  <1>2. ASSUME UNCHANGED <<registry, owner>>,
               \A p \in Runs : task[p] # "unused" => task'[p] # "unused"
        PROVE  NamesOwn'
    BY <1>2 DEF NamesOwn, TypeOK
  <1>3. ASSUME NEW r \in Runs, task[r] = "streaming", Finalise(r)
        PROVE  NamesOwn'
    BY <1>3 DEF Finalise, NamesOwn, TypeOK
  <1>4. ASSUME NEW s \in Subs, NEW k \in Keys, NEW replay \in BOOLEAN, Attach(s, k, replay)
        PROVE  UNCHANGED <<registry, owner, task>>
    BY <1>4 DEF Attach
  <1>5. ASSUME NEW s \in Subs, Consume(s) \/ Disconnect(s)
        PROVE  UNCHANGED <<registry, owner, task>>
    BY <1>5 DEF Consume, Disconnect
  <1>6. ASSUME NEW k \in Keys, RequestStop(k) \/ Touch(k)
        PROVE  UNCHANGED <<registry, owner, task>>
    BY <1>6 DEF RequestStop, Touch
  <1>7. ASSUME NEW r \in Runs,
               \/ ProducerEmit(r) \/ DeliverCancel(r) \/ GoIdle(r) \/ WatchdogTick(r)
        PROVE  UNCHANGED <<registry, owner, task>>
    BY <1>7 DEF ProducerEmit, DeliverCancel, GoIdle, WatchdogTick
  <1>8. ASSUME NEW r \in Runs, ProducerStart(r) \/ AbortBeforeStart(r)
        PROVE  /\ UNCHANGED <<registry, owner>>
               /\ \A p \in Runs : task[p] # "unused" => task'[p] # "unused"
    BY <1>8 DEF ProducerStart, AbortBeforeStart, TypeOK
  <1>9. ASSUME NEW r \in Runs, ProducerReturn(r) \/ ProducerError(r)
        PROVE  NamesOwn'
    BY <1>3, <1>9 DEF ProducerReturn, ProducerError
  <1>10. ASSUME UNCHANGED vars
         PROVE  UNCHANGED <<registry, owner, task>>
    BY <1>10 DEF vars, runVars
  <1> QED
    BY <1>1, <1>2, <1>4, <1>5, <1>6, <1>7, <1>8, <1>9, <1>10 DEF Next, Producer

------------------------------------------------------------------------------
(* Who is subscribed to what.                                               *)

Shape == JoinedKnown /\ QueueJoined /\ FreshEmpty

(* A broadcast reaches no subscriber that is not attached yet.              *)
LEMMA DeliverSkipsFree ==
  ASSUME TypeOK, QueueJoined, NEW r \in Runs, NEW e \in Event,
         NEW s \in Subs, stream[s] = "free"
  PROVE  Deliver(r, e)[s] = inbox[s]
  BY DEF Deliver, QueueJoined

(* A step that attaches nobody and starts no run.                           *)
LEMMA ShapeFrame ==
  ASSUME TypeOK, Shape, UNCHANGED joined,
         \A r \in Runs : queues'[r] \subseteq queues[r],
         \A s \in Subs : stream'[s] = "open" => stream[s] = "open",
         \A s \in Subs : stream'[s] = "free" => stream[s] = "free" /\ inbox'[s] = inbox[s],
         \A r \in Runs : task'[r] = "unused" =>
                            task[r] = "unused" /\ emitted'[r] = emitted[r]
  PROVE  Shape'
  <1>1. JoinedKnown'
    BY DEF Shape, JoinedKnown, Open
  <1>2. QueueJoined'
    <2> SUFFICES ASSUME NEW r \in Runs, NEW s \in queues'[r]
                 PROVE  joined'[s] = r /\ stream'[s] # "free" /\ task'[r] # "unused"
      BY DEF QueueJoined
    <2>1. s \in queues[r] /\ s \in Subs
      BY DEF TypeOK
    <2> QED BY <2>1 DEF Shape, QueueJoined
  <1>3. FreshEmpty'
    BY DEF Shape, FreshEmpty
  <1> QED BY <1>1, <1>2, <1>3 DEF Shape

(* A new run with its first subscriber.                                     *)
LEMMA ShapeInstall ==
  ASSUME TypeOK, Shape, NEW s \in Subs, NEW k \in Keys, NEW r \in Runs,
         Install(s, k, r),
         \A t \in Subs : stream[t] = "free" => inbox'[t] = inbox[t]
  PROVE  Shape'
  <1>1. /\ stream[s] = "free" /\ stream' = [stream EXCEPT ![s] = "open"]
        /\ joined' = [joined EXCEPT ![s] = r]
        /\ task[r] = "unused" /\ task' = [task EXCEPT ![r] = "created"]
        /\ queues' = [queues EXCEPT ![r] = {s}]
        /\ UNCHANGED emitted
    BY DEF Install, Subscribe
  <1>2. JoinedKnown'
    BY <1>1 DEF Shape, JoinedKnown, Open, TypeOK
  <1>3. QueueJoined'
    <2> SUFFICES ASSUME NEW p \in Runs, NEW t \in queues'[p]
                 PROVE  joined'[t] = p /\ stream'[t] # "free" /\ task'[p] # "unused"
      BY DEF QueueJoined
    <2>1. CASE p = r
      BY <1>1, <2>1 DEF TypeOK
    <2>2. CASE p # r
      <3>1. t \in queues[p] /\ t \in Subs
        BY <1>1, <2>2 DEF TypeOK
      <3>2. joined[t] = p /\ stream[t] # "free" /\ task[p] # "unused"
        BY <3>1 DEF Shape, QueueJoined
      <3>3. t # s
        BY <1>1, <3>2
      <3> QED BY <1>1, <2>2, <3>1, <3>2, <3>3 DEF TypeOK
    <2> QED BY <2>1, <2>2
  <1>4. FreshEmpty'
    BY <1>1 DEF Shape, FreshEmpty, TypeOK
  <1> QED BY <1>2, <1>3, <1>4 DEF Shape

(* Every step keeps subscriptions in that shape.                            *)
LEMMA ShapeStep == ASSUME TypeOK, Shape, [Next]_vars PROVE Shape'
  <1>0. QueueJoined
    BY DEF Shape
  <1>1. ASSUME NEW s \in Subs, NEW k \in Keys, NEW r \in Runs, StartFresh(s, k, r)
        PROVE  Shape'
    BY <1>1, ShapeInstall DEF StartFresh
  <1>2. ASSUME NEW s \in Subs, NEW k \in Keys, NEW r \in Runs, ForceNew(s, k, r)
        PROVE  Shape'
    <2>1. registry[k] \in Runs /\ inbox' = Deliver(registry[k], Sentinel)
      BY <1>2, ActiveRun DEF ForceNew
    <2>2. \A t \in Subs : stream[t] = "free" => inbox'[t] = inbox[t]
      BY <1>0, <2>1, DeliverSkipsFree DEF Event
    <2> QED BY <1>2, <2>2, ShapeInstall DEF ForceNew
  <1>3. ASSUME NEW s \in Subs, NEW k \in Keys, NEW replay \in BOOLEAN, Attach(s, k, replay)
        PROVE  Shape'
    <2>1. /\ registry[k] \in Runs /\ task[registry[k]] # "unused"
          /\ stream[s] = "free" /\ stream' = [stream EXCEPT ![s] = "open"]
          /\ joined' = [joined EXCEPT ![s] = registry[k]]
          /\ queues' = [queues EXCEPT ![registry[k]] = @ \cup {s}]
          /\ \A t \in Subs : t # s => inbox'[t] = inbox[t]
          /\ UNCHANGED <<task, emitted>>
      BY <1>3, ActiveRun DEF Attach, Subscribe, Live, TypeOK
    <2>2. JoinedKnown'
      BY <2>1 DEF Shape, JoinedKnown, Open, TypeOK
    <2>3. QueueJoined'
      <3> SUFFICES ASSUME NEW p \in Runs, NEW t \in queues'[p]
                   PROVE  joined'[t] = p /\ stream'[t] # "free" /\ task'[p] # "unused"
        BY DEF QueueJoined
      <3>1. CASE t = s
        <4>1. s \notin queues[p]
          BY <2>1 DEF Shape, QueueJoined
        <4>2. p = registry[k]
          BY <2>1, <3>1, <4>1 DEF TypeOK
        <4> QED BY <2>1, <3>1, <4>2 DEF TypeOK
      <3>2. CASE t # s
        <4>1. t \in queues[p] /\ t \in Subs
          BY <2>1, <3>2 DEF TypeOK
        <4>2. joined[t] = p /\ stream[t] # "free" /\ task[p] # "unused"
          BY <4>1 DEF Shape, QueueJoined
        <4> QED BY <2>1, <3>2, <4>1, <4>2 DEF TypeOK
      <3> QED BY <3>1, <3>2
    <2>4. FreshEmpty'
      BY <2>1 DEF Shape, FreshEmpty, TypeOK
    <2> QED BY <2>2, <2>3, <2>4 DEF Shape
  <1>4. ASSUME NEW s \in Subs, Consume(s) PROVE Shape'
    <2>1. \A r \in Runs : queues'[r] \subseteq queues[r]
      BY <1>4, DetachOthers DEF Consume
    <2>2. /\ \A t \in Subs : stream'[t] = "open" => stream[t] = "open"
          /\ \A t \in Subs : stream'[t] = "free" =>
                stream[t] = "free" /\ inbox'[t] = inbox[t]
      BY <1>4 DEF Consume, Open, TypeOK
    <2> QED BY <1>4, <2>1, <2>2, ShapeFrame DEF Consume
  <1>5. ASSUME NEW s \in Subs, Disconnect(s) PROVE Shape'
    <2>1. \A r \in Runs : queues'[r] \subseteq queues[r]
      BY <1>5, DetachOthers DEF Disconnect
    <2>2. /\ \A t \in Subs : stream'[t] = "open" => stream[t] = "open"
          /\ \A t \in Subs : stream'[t] = "free" => stream[t] = "free"
      BY <1>5 DEF Disconnect, Open, TypeOK
    <2> QED BY <1>5, <2>1, <2>2, ShapeFrame DEF Disconnect
  <1>6. ASSUME NEW k \in Keys, RequestStop(k) \/ Touch(k) PROVE Shape'
    BY <1>6, ShapeFrame DEF RequestStop, Touch, subVars
  <1>7. ASSUME NEW r \in Runs, ProducerStart(r) \/ ProducerEmit(r) PROVE Shape'
    <2>1. /\ inbox' = Deliver(r, emitted[r] + 1) /\ emitted' = [emitted EXCEPT ![r] = @ + 1]
          /\ task[r] # "unused" /\ task'[r] # "unused"
          /\ \A p \in Runs : p # r => task'[p] = task[p]
          /\ UNCHANGED <<queues, stream, joined>>
      BY <1>7 DEF ProducerStart, ProducerEmit, Emit, TypeOK
    <2>2. \A t \in Subs : stream'[t] = "free" => inbox'[t] = inbox[t]
      BY <1>0, <2>1, DeliverSkipsFree DEF TypeOK, Event
    <2>3. \A p \in Runs : task'[p] = "unused" =>
             task[p] = "unused" /\ emitted'[p] = emitted[p]
      BY <2>1 DEF TypeOK
    <2> QED BY <2>1, <2>2, <2>3, ShapeFrame
  <1>8. ASSUME NEW r \in Runs, DeliverCancel(r) \/ AbortBeforeStart(r) PROVE Shape'
    <2>1. \A p \in Runs : task'[p] = "unused" => task[p] = "unused"
      BY <1>8 DEF DeliverCancel, AbortBeforeStart, TypeOK
    <2> QED BY <1>8, <2>1, ShapeFrame DEF DeliverCancel, AbortBeforeStart, subVars
  <1>9. ASSUME NEW r \in Runs, ProducerReturn(r) \/ ProducerError(r) PROVE Shape'
    <2>1. /\ task' = [task EXCEPT ![r] = "finished"]
          /\ \A p \in Runs : p # r => emitted'[p] = emitted[p]
          /\ UNCHANGED <<queues, stream, joined>>
      BY <1>9 DEF ProducerReturn, ProducerError, Finalise, TypeOK
    <2>2. \A t \in Subs : stream'[t] = "free" => inbox'[t] = inbox[t]
      <3>1. \A t \in Subs : stream[t] = "free" => t \notin queues[r]
        BY <1>0 DEF QueueJoined
      <3> QED BY <1>9, <2>1, <3>1 DEF ProducerReturn, ProducerError, Deliver
    <2>3. \A p \in Runs : task'[p] = "unused" =>
             task[p] = "unused" /\ emitted'[p] = emitted[p]
      BY <2>1 DEF TypeOK
    <2> QED BY <2>1, <2>2, <2>3, ShapeFrame
  <1>10. ASSUME NEW r \in Runs, GoIdle(r) \/ WatchdogTick(r) PROVE Shape'
    BY <1>10, ShapeFrame DEF GoIdle, WatchdogTick, subVars
  <1>11. CASE UNCHANGED vars
    BY <1>11, ShapeFrame DEF vars, runVars, subVars
  <1> QED
    BY <1>1, <1>2, <1>3, <1>4, <1>5, <1>6, <1>7, <1>8, <1>9, <1>10, <1>11
       DEF Next, Producer
------------------------------------------------------------------------------
(* The replay buffer.                                                       *)

(* Cutting the buffer keeps it at the end of what was emitted.              *)
LEMMA LatestEndsAt ==
  ASSUME NEW b \in Seq(Nat), NEW n \in Nat, EndsAt(b, n)
  PROVE  EndsAt(Latest(b), n)
  <1>1. CASE Len(b) > BufCap
    <2> DEFINE c == SubSeq(b, Len(b) - BufCap + 1, Len(b))
    <2>1. /\ Len(c) = BufCap
          /\ \A i \in 1..BufCap : c[i] = b[Len(b) - BufCap + i]
      BY <1>1, BoundsAssumption
    <2>2. \A i \in 1..BufCap : b[Len(b) - BufCap + i] = n - BufCap + i
      BY <1>1, BoundsAssumption DEF EndsAt
    <2>3. Latest(b) = c
      BY <1>1 DEF Latest
    <2> QED BY <2>1, <2>2, <2>3 DEF EndsAt
  <1>2. CASE ~(Len(b) > BufCap)
    BY <1>2 DEF Latest
  <1> QED BY <1>1, <1>2

(* Appending the next event keeps it there too.                             *)
LEMMA AppendEndsAt ==
  ASSUME NEW b \in Seq(Nat), NEW n \in Nat, EndsAt(b, n)
  PROVE  Append(b, n + 1) \in Seq(Nat) /\ EndsAt(Append(b, n + 1), n + 1)
  BY DEF EndsAt

(* Every step keeps the replay buffer of every run up to date.              *)
LEMMA BufferStep == ASSUME TypeOK, BufferRecent, [Next]_vars PROVE BufferRecent'
  <1>1. CASE UNCHANGED <<buffer, emitted>>
    BY <1>1 DEF BufferRecent
  <1>2. ASSUME NEW r \in Runs, emitted' = [emitted EXCEPT ![r] = @ + 1],
               \/ buffer' = [buffer EXCEPT ![r] = Append(@, emitted[r] + 1)]
               \/ buffer' = [buffer EXCEPT ![r] = Latest(Append(@, emitted[r] + 1))]
        PROVE  BufferRecent'
    <2> DEFINE b == Append(buffer[r], emitted[r] + 1)
    <2>1. buffer[r] \in Seq(Nat) /\ emitted[r] \in Nat /\ EndsAt(buffer[r], emitted[r])
      BY DEF TypeOK, BufferRecent
    <2>2. b \in Seq(Nat) /\ EndsAt(b, emitted[r] + 1)
      BY <2>1, AppendEndsAt
    <2>3. EndsAt(Latest(b), emitted[r] + 1)
      <3>1. emitted[r] + 1 \in Nat
        BY <2>1
      <3> HIDE DEF b
      <3> QED BY <2>2, <3>1, LatestEndsAt
    <2>4. emitted'[r] = emitted[r] + 1 /\ buffer'[r] \in {b, Latest(b)}
      BY <1>2 DEF TypeOK
    <2>5. \A p \in Runs : p # r => buffer'[p] = buffer[p] /\ emitted'[p] = emitted[p]
      BY <1>2 DEF TypeOK
    <2> HIDE DEF b
    <2> QED BY <2>2, <2>3, <2>4, <2>5 DEF BufferRecent
  <1>3. ASSUME NEW s \in Subs, NEW k \in Keys, NEW r \in Runs,
               StartFresh(s, k, r) \/ ForceNew(s, k, r)
        PROVE  BufferRecent'
    BY <1>1, <1>3 DEF StartFresh, ForceNew, Install
  <1>4. ASSUME NEW s \in Subs, NEW k \in Keys, NEW replay \in BOOLEAN, Attach(s, k, replay)
        PROVE  BufferRecent'
    BY <1>1, <1>4 DEF Attach
  <1>5. ASSUME NEW s \in Subs, Consume(s) \/ Disconnect(s) PROVE BufferRecent'
    BY <1>1, <1>5 DEF Consume, Disconnect
  <1>6. ASSUME NEW k \in Keys, RequestStop(k) \/ Touch(k) PROVE BufferRecent'
    BY <1>1, <1>6 DEF RequestStop, Touch
  <1>7. ASSUME NEW r \in Runs, ProducerStart(r) \/ ProducerEmit(r) \/ ProducerError(r)
        PROVE  BufferRecent'
    BY <1>2, <1>7 DEF ProducerStart, ProducerEmit, ProducerError, Emit
  <1>8. ASSUME NEW r \in Runs, DeliverCancel(r) \/ AbortBeforeStart(r) \/ ProducerReturn(r)
        PROVE  BufferRecent'
    BY <1>1, <1>8 DEF DeliverCancel, AbortBeforeStart, ProducerReturn
  <1>9. ASSUME NEW r \in Runs, GoIdle(r) \/ WatchdogTick(r) PROVE BufferRecent'
    BY <1>1, <1>9 DEF GoIdle, WatchdogTick
  <1>10. CASE UNCHANGED vars
    BY <1>1, <1>10 DEF vars, runVars
  <1> QED
    BY <1>3, <1>4, <1>5, <1>6, <1>7, <1>8, <1>9, <1>10 DEF Next, Producer

------------------------------------------------------------------------------
(* No stream is left without an end.                                        *)

(* What a step has to respect for that.                                     *)
LEMMA StrandedFrame ==
  ASSUME Shape, NoStrandedSubscriber,
         \A s \in Subs : Open(s)' =>
            /\ Open(s) /\ joined'[s] = joined[s]
            /\ HasSentinel(inbox[s]) => HasSentinel(inbox'[s])
            /\ \A r \in Runs : s \in queues[r] /\ Live(r) =>
                  \/ HasSentinel(inbox'[s])
                  \/ s \in queues'[r] /\ Live(r)'
                  \/ task'[r] = "aborted",
         \A r \in Runs : task[r] = "aborted" => task'[r] = "aborted"
  PROVE  NoStrandedSubscriber'
  <1> SUFFICES ASSUME NEW s \in Subs, Open(s)'
               PROVE  \/ HasSentinel(inbox'[s])
                      \/ s \in queues'[joined'[s]] /\ task'[joined'[s]] \in {"created", "streaming"}
                      \/ task'[joined'[s]] = "aborted"
    BY DEF NoStrandedSubscriber, Live, HasSentinel
  <1>1. Open(s) /\ joined'[s] = joined[s] /\ joined[s] \in Runs
    BY DEF Shape, JoinedKnown
  <1>2. \/ HasSentinel(inbox[s])
        \/ s \in queues[joined[s]] /\ Live(joined[s])
        \/ task[joined[s]] = "aborted"
    BY <1>1 DEF NoStrandedSubscriber
  <1> QED BY <1>1, <1>2 DEF Live

(* No step strands a stream.                                                *)
LEMMA StrandedStep ==
  ASSUME TypeOK, Shape, NoStrandedSubscriber, [Next]_vars
  PROVE  NoStrandedSubscriber'
  <1>1. ASSUME NEW s \in Subs, NEW k \in Keys, NEW r \in Runs, Install(s, k, r),
               \A t \in Subs : HasSentinel(inbox[t]) => HasSentinel(inbox'[t])
        PROVE  NoStrandedSubscriber'
    <2>1. /\ stream[s] = "free" /\ stream' = [stream EXCEPT ![s] = "open"]
          /\ joined' = [joined EXCEPT ![s] = r]
          /\ task[r] = "unused" /\ task' = [task EXCEPT ![r] = "created"]
          /\ queues' = [queues EXCEPT ![r] = {s}]
      BY <1>1 DEF Install, Subscribe
    <2> SUFFICES ASSUME NEW t \in Subs, Open(t)'
                 PROVE  \/ HasSentinel(inbox'[t])
                        \/ t \in queues'[joined'[t]] /\ task'[joined'[t]] \in {"created", "streaming"}
                        \/ task'[joined'[t]] = "aborted"
      BY DEF NoStrandedSubscriber, Live, HasSentinel
    <2>2. CASE t = s
      BY <2>1, <2>2 DEF TypeOK
    <2>3. CASE t # s
      <3>1. Open(t) /\ joined'[t] = joined[t] /\ joined[t] \in Runs
        BY <2>1, <2>3 DEF Open, TypeOK, Shape, JoinedKnown
      <3>2. \/ HasSentinel(inbox[t])
            \/ t \in queues[joined[t]] /\ Live(joined[t])
            \/ task[joined[t]] = "aborted"
        BY <3>1 DEF NoStrandedSubscriber
      <3>3. CASE joined[t] = r
        BY <1>1, <2>1, <3>2, <3>3 DEF Live
      <3>4. CASE joined[t] # r
        BY <1>1, <2>1, <3>1, <3>2, <3>4 DEF Live, TypeOK
      <3> QED BY <3>3, <3>4
    <2> QED BY <2>2, <2>3
  <1>2. ASSUME NEW s \in Subs, NEW k \in Keys, NEW r \in Runs, StartFresh(s, k, r)
        PROVE  NoStrandedSubscriber'
    BY <1>1, <1>2 DEF StartFresh
  <1>3. ASSUME NEW s \in Subs, NEW k \in Keys, NEW r \in Runs, ForceNew(s, k, r)
        PROVE  NoStrandedSubscriber'
    <2>1. registry[k] \in Runs /\ inbox' = Deliver(registry[k], Sentinel)
      BY <1>3, ActiveRun DEF ForceNew
    <2>2. \A t \in Subs : HasSentinel(inbox[t]) => HasSentinel(inbox'[t])
      BY <2>1, DeliverKeepsSentinel DEF Event
    <2> QED BY <1>1, <1>3, <2>2 DEF ForceNew
  <1>4. ASSUME NEW s \in Subs, NEW k \in Keys, NEW replay \in BOOLEAN, Attach(s, k, replay)
        PROVE  NoStrandedSubscriber'
    <2>1. /\ registry[k] \in Runs /\ Live(registry[k])
          /\ stream[s] = "free" /\ stream' = [stream EXCEPT ![s] = "open"]
          /\ joined' = [joined EXCEPT ![s] = registry[k]]
          /\ queues' = [queues EXCEPT ![registry[k]] = @ \cup {s}]
          /\ \A t \in Subs : t # s => inbox'[t] = inbox[t]
          /\ UNCHANGED task
      BY <1>4, ActiveRun DEF Attach, Subscribe, TypeOK
    <2> SUFFICES ASSUME NEW t \in Subs, Open(t)'
                 PROVE  \/ HasSentinel(inbox'[t])
                        \/ t \in queues'[joined'[t]] /\ task'[joined'[t]] \in {"created", "streaming"}
                        \/ task'[joined'[t]] = "aborted"
      BY DEF NoStrandedSubscriber, Live, HasSentinel
    <2>2. CASE t = s
      BY <2>1, <2>2 DEF TypeOK, Live
    <2>3. CASE t # s
      <3>1. Open(t) /\ joined'[t] = joined[t] /\ joined[t] \in Runs
        BY <2>1, <2>3 DEF Open, TypeOK, Shape, JoinedKnown
      <3>2. \/ HasSentinel(inbox[t])
            \/ t \in queues[joined[t]] /\ Live(joined[t])
            \/ task[joined[t]] = "aborted"
        BY <3>1 DEF NoStrandedSubscriber
      <3> QED BY <2>1, <2>3, <3>1, <3>2 DEF Live, TypeOK
    <2> QED BY <2>2, <2>3
  <1>5. ASSUME NEW s \in Subs, Consume(s) PROVE NoStrandedSubscriber'
    <2> SUFFICES ASSUME NEW t \in Subs, Open(t)'
                 PROVE  /\ Open(t) /\ joined'[t] = joined[t]
                        /\ HasSentinel(inbox[t]) => HasSentinel(inbox'[t])
                        /\ \A r \in Runs : t \in queues[r] => t \in queues'[r]
      BY <1>5, StrandedFrame DEF Consume, Live
    <2>1. CASE t = s
      <3>1. Head(inbox[s]) # Sentinel /\ UNCHANGED <<stream, queues>>
        BY <1>5, <2>1 DEF Consume, Open, TypeOK
      <3>2. inbox[s] \in Seq(Event) /\ inbox[s] # <<>> /\ inbox'[s] = Tail(inbox[s])
        BY <1>5 DEF Consume, TypeOK
      <3> QED BY <1>5, <2>1, <3>1, <3>2, TailKeepsSentinel DEF Consume
    <2>2. CASE t # s
      BY <1>5, <2>2, DetachOthers DEF Consume, Open, TypeOK
    <2> QED BY <2>1, <2>2
  <1>6. ASSUME NEW s \in Subs, Disconnect(s) PROVE NoStrandedSubscriber'
    <2> SUFFICES ASSUME NEW t \in Subs, Open(t)'
                 PROVE  Open(t) /\ \A r \in Runs : t \in queues[r] => t \in queues'[r]
      BY <1>6, StrandedFrame DEF Disconnect, Live
    <2>1. t # s
      BY <1>6 DEF Disconnect, Open, TypeOK
    <2> QED BY <1>6, <2>1, DetachOthers DEF Disconnect, Open, TypeOK
  <1>7. ASSUME NEW k \in Keys, RequestStop(k) \/ Touch(k) PROVE NoStrandedSubscriber'
    BY <1>7, StrandedFrame DEF RequestStop, Touch, subVars, Open, Live
  <1>8. ASSUME NEW r \in Runs, ProducerStart(r) \/ ProducerEmit(r)
        PROVE  NoStrandedSubscriber'
    <2>1. /\ inbox' = Deliver(r, emitted[r] + 1)
          /\ Live(r) /\ Live(r)' /\ \A p \in Runs : p # r => task'[p] = task[p]
          /\ UNCHANGED <<queues, stream, joined>>
      BY <1>8 DEF ProducerStart, ProducerEmit, Emit, Live, TypeOK
    <2>2. \A t \in Subs : HasSentinel(inbox[t]) => HasSentinel(inbox'[t])
      BY <2>1, DeliverKeepsSentinel DEF TypeOK, Event
    <2>3. /\ \A p \in Runs : Live(p) => Live(p)'
          /\ \A p \in Runs : task[p] = "aborted" => task'[p] = "aborted"
      BY <2>1 DEF Live
    <2> QED BY <2>1, <2>2, <2>3, StrandedFrame DEF Open
  <1>9. ASSUME NEW r \in Runs, DeliverCancel(r) \/ GoIdle(r) \/ WatchdogTick(r)
        PROVE  NoStrandedSubscriber'
    BY <1>9, StrandedFrame DEF DeliverCancel, GoIdle, WatchdogTick, subVars, Open, Live
  <1>10. ASSUME NEW r \in Runs, AbortBeforeStart(r) PROVE NoStrandedSubscriber'
    <2>1. /\ task' = [task EXCEPT ![r] = "aborted"]
          /\ UNCHANGED <<queues, stream, joined, inbox>>
      BY <1>10 DEF AbortBeforeStart, subVars
    <2>2. \A p \in Runs : Live(p) => Live(p)' \/ task'[p] = "aborted"
      BY <2>1 DEF Live, TypeOK
    <2>3. \A p \in Runs : task[p] = "aborted" => task'[p] = "aborted"
      BY <2>1 DEF TypeOK
    <2> QED BY <2>1, <2>2, <2>3, StrandedFrame DEF Open
  <1>11. ASSUME NEW r \in Runs, ProducerReturn(r) \/ ProducerError(r)
         PROVE  NoStrandedSubscriber'
    <2>1. /\ task[r] = "streaming" /\ task' = [task EXCEPT ![r] = "finished"]
          /\ UNCHANGED <<queues, stream, joined>>
      BY <1>11 DEF ProducerReturn, ProducerError, Finalise
    <2>2. \A t \in Subs : t \in queues[r] => HasSentinel(inbox'[t])
      <3> SUFFICES ASSUME NEW t \in Subs, t \in queues[r] PROVE HasSentinel(inbox'[t])
        OBVIOUS
      <3>1. inbox[t] \in Seq(Event) /\ Append(inbox[t], emitted[r] + 1) \in Seq(Event)
        BY DEF TypeOK, Event
      <3>2. \/ inbox'[t] = Append(inbox[t], Sentinel)
            \/ inbox'[t] = Append(Append(inbox[t], emitted[r] + 1), Sentinel)
        BY <1>11 DEF ProducerReturn, ProducerError, Deliver
      <3> QED BY <3>1, <3>2, AppendSentinel
    <2>3. \A t \in Subs : t \notin queues[r] => inbox'[t] = inbox[t]
      BY <1>11 DEF ProducerReturn, ProducerError, Deliver
    <2>4. /\ \A p \in Runs : p # r /\ Live(p) => Live(p)'
          /\ \A p \in Runs : task[p] = "aborted" => task'[p] = "aborted"
      BY <2>1 DEF TypeOK, Live
    <2>5. \A t \in Subs : HasSentinel(inbox[t]) => HasSentinel(inbox'[t])
      BY <2>2, <2>3
    <2>6. ASSUME NEW t \in Subs, Open(t)', NEW p \in Runs, t \in queues[p], Live(p)
          PROVE  HasSentinel(inbox'[t]) \/ (t \in queues'[p] /\ Live(p)')
      <3>1. CASE p = r
        BY <2>2, <2>6, <3>1
      <3>2. CASE p # r
        BY <2>1, <2>4, <2>6, <3>2
      <3> QED BY <3>1, <3>2
    <2>7. \A t \in Subs : Open(t)' => Open(t) /\ joined'[t] = joined[t]
      BY <2>1 DEF Open
    <2> QED BY <2>4, <2>5, <2>6, <2>7, StrandedFrame
  <1>12. CASE UNCHANGED vars
    BY <1>12, StrandedFrame DEF vars, runVars, subVars, Open, Live
  <1> QED
    BY <1>2, <1>3, <1>4, <1>5, <1>6, <1>7, <1>8, <1>9, <1>10, <1>11, <1>12
       DEF Next, Producer

------------------------------------------------------------------------------
(* No stream has a gap.                                                     *)

(* GapFreeStream for one subscriber.                                        *)
Gapless(s) ==
    Open(s) =>
        /\ Continues(inbox[s], seen[s])
        /\ ~HasSentinel(inbox[s]) /\ Live(joined[s]) =>
              seen[s] + Len(inbox[s]) = emitted[joined[s]]

(* Appending the sentinel, anything behind a sentinel, or the next event.   *)
LEMMA AppendContinues ==
  ASSUME NEW q \in Seq(Event), NEW n \in Int, NEW e \in Event, Continues(q, n),
         HasSentinel(q) \/ e = Sentinel \/ e = n + Len(q) + 1
  PROVE  Continues(Append(q, e), n)
  <1> DEFINE q1 == Append(q, e)
  <1>1. /\ Len(q1) = Len(q) + 1 /\ q1[Len(q) + 1] = e
        /\ \A i \in 1..Len(q) : q1[i] = q[i]
    OBVIOUS
  <1> HIDE DEF q1
  <1> SUFFICES ASSUME NEW i \in 1..Len(q1), Before(q1, i) PROVE q1[i] = n + i
    BY DEF Continues, q1
  <1>2. CASE i \in 1..Len(q)
    <2>1. Before(q, i)
      BY <1>1, <1>2 DEF Before
    <2> QED BY <1>1, <1>2, <2>1 DEF Continues
  <1>3. CASE i = Len(q) + 1
    <2>1. e # Sentinel
      BY <1>1, <1>3 DEF Before
    <2>2. ~HasSentinel(q)
      BY <1>1, <1>3 DEF Before, HasSentinel
    <2> QED BY <1>1, <1>3, <2>1, <2>2
  <1> QED BY <1>1, <1>2, <1>3

(* Reading an event of a queue that continues from n.                       *)
LEMMA TailContinues ==
  ASSUME NEW q \in Seq(Event), NEW n \in Int, Continues(q, n),
         q # <<>>, Head(q) # Sentinel
  PROVE  Head(q) = n + 1 /\ Continues(Tail(q), n + 1)
  <1>1. /\ Len(q) \in Nat \ {0} /\ Head(q) = q[1] /\ Len(Tail(q)) = Len(q) - 1
        /\ \A i \in 1..Len(Tail(q)) : Tail(q)[i] = q[i + 1]
    OBVIOUS
  <1>2. Before(q, 1)
    BY <1>1 DEF Before
  <1>3. ASSUME NEW i \in 1..Len(Tail(q)), Before(Tail(q), i)
        PROVE  Tail(q)[i] = n + 1 + i
    <2>1. Before(q, i + 1)
      <3> SUFFICES ASSUME NEW j \in 1..(i + 1) PROVE q[j] # Sentinel
        BY DEF Before
      <3>1. CASE j = 1
        BY <1>1, <3>1
      <3>2. CASE j # 1
        <4>1. j - 1 \in 1..i /\ j - 1 \in 1..Len(Tail(q))
          BY <1>1, <3>2
        <4>2. (j - 1) + 1 = j
          OBVIOUS
        <4>3. Tail(q)[j - 1] = q[j]
          BY <1>1, <4>1, <4>2
        <4>4. Tail(q)[j - 1] # Sentinel
          BY <1>3, <4>1 DEF Before
        <4> QED BY <4>3, <4>4
      <3> QED BY <3>1, <3>2
    <2>2. i + 1 \in 1..Len(q)
      BY <1>1
    <2> QED BY <1>1, <2>1, <2>2 DEF Continues
  <1>4. Continues(Tail(q), n + 1)
    BY <1>3 DEF Continues
  <1> QED BY <1>1, <1>2, <1>4 DEF Continues

(* A subscriber that a step does not touch.                                 *)
LEMMA GaplessFrame ==
  ASSUME NEW s \in Subs, Gapless(s),
         Open(s)' => Open(s),
         inbox'[s] = inbox[s], seen'[s] = seen[s], joined'[s] = joined[s],
         \/ HasSentinel(inbox[s])
         \/ task'[joined[s]] \in {"created", "streaming"} =>
               Live(joined[s]) /\ emitted'[joined[s]] = emitted[joined[s]]
  PROVE  Gapless(s)'
  BY DEF Gapless, Live, Continues, Before, HasSentinel

(* A subscriber that is sent the sentinel.                                  *)
LEMMA GaplessSentinel ==
  ASSUME TypeOK, NEW s \in Subs, Gapless(s),
         Open(s)' => Open(s), seen'[s] = seen[s],
         inbox'[s] = Append(inbox[s], Sentinel)
  PROVE  Gapless(s)'
  <1>1. inbox[s] \in Seq(Event) /\ seen[s] \in Int /\ Sentinel \in Event
    BY DEF TypeOK, Event
  <1>2. HasSentinel(inbox'[s])
    BY <1>1, AppendSentinel
  <1>3. Open(s) => Continues(inbox'[s], seen'[s])
    BY <1>1, AppendContinues DEF Gapless
  <1> QED BY <1>2, <1>3 DEF Gapless, Continues, Before, HasSentinel

(* A subscriber of a run that emits.                                        *)
LEMMA GaplessEmit ==
  ASSUME TypeOK, Shape, NoStrandedSubscriber,
         NEW s \in Subs, Gapless(s), NEW r \in Runs, Live(r),
         emitted' = [emitted EXCEPT ![r] = @ + 1],
         inbox' = Deliver(r, emitted[r] + 1),
         \A p \in Runs : p # r => task'[p] = task[p],
         UNCHANGED <<stream, seen, joined>>
  PROVE  Gapless(s)'
  <1> SUFFICES ASSUME Open(s) PROVE Gapless(s)'
    BY DEF Gapless, Open
  <1>1. /\ inbox[s] \in Seq(Event) /\ seen[s] \in Int /\ joined[s] \in Runs
        /\ emitted[r] + 1 \in Event /\ emitted[r] \in Nat
    BY DEF TypeOK, Event, Shape, JoinedKnown
  <1>2. /\ Continues(inbox[s], seen[s])
        /\ ~HasSentinel(inbox[s]) /\ Live(joined[s]) =>
              seen[s] + Len(inbox[s]) = emitted[joined[s]]
    BY DEF Gapless
  <1>3. CASE s \in queues[r]
    <2>1. joined[s] = r /\ inbox'[s] = Append(inbox[s], emitted[r] + 1)
      BY <1>3 DEF Deliver, Shape, QueueJoined
    <2>2. HasSentinel(inbox[s]) \/ emitted[r] + 1 = seen[s] + Len(inbox[s]) + 1
      BY <1>1, <1>2, <2>1
    <2>3. Continues(inbox'[s], seen'[s])
      BY <1>1, <1>2, <2>1, <2>2, AppendContinues
    <2>4. ~HasSentinel(inbox'[s]) => seen'[s] + Len(inbox'[s]) = emitted'[joined'[s]]
      <3>1. CASE HasSentinel(inbox[s])
        BY <1>1, <3>1, DeliverKeepsSentinel
      <3>2. CASE ~HasSentinel(inbox[s])
        <4>1. Len(inbox'[s]) = Len(inbox[s]) + 1 /\ emitted'[r] = emitted[r] + 1
          BY <1>1, <2>1 DEF TypeOK
        <4> QED BY <1>1, <2>1, <2>2, <3>2, <4>1
      <3> QED BY <3>1, <3>2
    <2> QED BY <2>3, <2>4 DEF Gapless, Continues, Before, HasSentinel
  <1>4. CASE s \notin queues[r]
    <2>1. inbox'[s] = inbox[s]
      BY <1>4 DEF Deliver
    <2>2. HasSentinel(inbox[s]) \/ joined[s] # r
      BY <1>4 DEF NoStrandedSubscriber, Live
    <2>3. joined[s] # r => emitted'[joined[s]] = emitted[joined[s]]
      BY <1>1 DEF TypeOK
    <2> QED BY <1>1, <2>1, <2>2, <2>3, GaplessFrame DEF Live
  <1> QED BY <1>3, <1>4

(* The subscriptions of a new run: nobody waits for its first event yet.    *)
LEMMA GaplessInstall ==
  ASSUME TypeOK, Shape, NoStrandedSubscriber,
         NEW s \in Subs, NEW k \in Keys, NEW r \in Runs, Install(s, k, r),
         NEW t \in Subs, Gapless(t),
         \/ inbox'[t] = inbox[t]
         \/ stream[t] # "free" /\ inbox'[t] = Append(inbox[t], Sentinel)
  PROVE  Gapless(t)'
  <1>1. /\ stream[s] = "free" /\ stream' = [stream EXCEPT ![s] = "open"]
        /\ joined' = [joined EXCEPT ![s] = r] /\ seen' = [seen EXCEPT ![s] = 0]
        /\ task[r] = "unused" /\ task' = [task EXCEPT ![r] = "created"]
        /\ UNCHANGED emitted
    BY DEF Install, Subscribe
  <1>2. CASE t = s
    <2>1. inbox'[s] = <<>> /\ seen'[s] = 0 /\ joined'[s] = r /\ emitted'[r] = 0
      BY <1>1, <1>2 DEF Shape, FreshEmpty, TypeOK
    <2> QED BY <1>2, <2>1 DEF Gapless, Continues
  <1>3. CASE t # s
    <2>1. /\ Open(t)' => Open(t) /\ joined[t] \in Runs
          /\ seen'[t] = seen[t] /\ joined'[t] = joined[t]
      BY <1>1, <1>3 DEF Open, TypeOK, Shape, JoinedKnown
    <2>2. CASE inbox'[t] = Append(inbox[t], Sentinel)
      BY <2>1, <2>2, GaplessSentinel
    <2>3. CASE inbox'[t] = inbox[t]
      <3>1. CASE ~Open(t)
        BY <2>1, <3>1 DEF Gapless
      <3>2. CASE Open(t)
        <4>1. HasSentinel(inbox[t]) \/ joined[t] # r
          BY <1>1, <3>2 DEF NoStrandedSubscriber, Live
        <4>2. joined[t] # r => task'[joined[t]] = task[joined[t]]
          BY <1>1, <2>1 DEF TypeOK
        <4> QED BY <1>1, <2>1, <2>3, <4>1, <4>2, GaplessFrame DEF Live
      <3> QED BY <3>1, <3>2
    <2> QED BY <2>2, <2>3
  <1> QED BY <1>2, <1>3

(* No step opens a gap.                                                     *)
LEMMA GaplessStep ==
  ASSUME TypeOK, Shape, BufferRecent, NoStrandedSubscriber, [Next]_vars,
         NEW t \in Subs, Gapless(t)
  PROVE  Gapless(t)'
  <1>1. ASSUME NEW s \in Subs, NEW k \in Keys, NEW r \in Runs, StartFresh(s, k, r)
        PROVE  Gapless(t)'
    BY <1>1, GaplessInstall DEF StartFresh
  <1>2. ASSUME NEW s \in Subs, NEW k \in Keys, NEW r \in Runs, ForceNew(s, k, r)
        PROVE  Gapless(t)'
    <2>1. registry[k] \in Runs /\ inbox' = Deliver(registry[k], Sentinel)
      BY <1>2, ActiveRun DEF ForceNew
    <2>2. \/ inbox'[t] = inbox[t]
          \/ stream[t] # "free" /\ inbox'[t] = Append(inbox[t], Sentinel)
      BY <2>1 DEF Deliver, Shape, QueueJoined
    <2> QED BY <1>2, <2>2, GaplessInstall DEF ForceNew
  <1>3. ASSUME NEW s \in Subs, NEW k \in Keys, NEW replay \in BOOLEAN, Attach(s, k, replay)
        PROVE  Gapless(t)'
    <2> DEFINE r == registry[k]
               q == IF replay THEN buffer[r] ELSE <<>>
    <2>1. r \in Runs
      BY <1>3, ActiveRun DEF Attach
    <2>2. /\ stream' = [stream EXCEPT ![s] = "open"]
          /\ joined' = [joined EXCEPT ![s] = r]
          /\ seen' = [seen EXCEPT ![s] = emitted[r] - Len(q)]
          /\ inbox' = [inbox EXCEPT ![s] = q]
          /\ UNCHANGED <<task, emitted>>
      BY <1>3 DEF Attach, Subscribe
    <2>3. q \in Seq(Nat) /\ EndsAt(q, emitted[r]) /\ emitted[r] \in Nat
      BY <2>1 DEF TypeOK, BufferRecent, EndsAt
    <2> HIDE DEF r, q
    <2>4. CASE t = s
      <3>1. inbox'[t] = q /\ seen'[t] = emitted[r] - Len(q) /\ joined'[t] = r
        BY <2>2, <2>4 DEF TypeOK
      <3>2. Len(q) \in Nat /\ \A i \in 1..Len(q) : q[i] = seen'[t] + i
        BY <2>3, <3>1 DEF EndsAt
      <3>3. seen'[t] + Len(inbox'[t]) = emitted'[joined'[t]]
        BY <2>2, <2>3, <3>1, <3>2
      <3> QED BY <3>1, <3>2, <3>3 DEF Gapless, Continues
    <2>5. CASE t # s
      <3>1. /\ Open(t)' => Open(t)
            /\ inbox'[t] = inbox[t] /\ seen'[t] = seen[t] /\ joined'[t] = joined[t]
        BY <2>2, <2>5 DEF Open, TypeOK
      <3> QED BY <2>2, <3>1, GaplessFrame DEF Live
    <2> QED BY <2>4, <2>5
  <1>4. ASSUME NEW s \in Subs, Consume(s) PROVE Gapless(t)'
    <2>1. CASE t # s
      BY <1>4, <2>1, GaplessFrame DEF Consume, Open, Live, TypeOK
    <2>2. CASE t = s /\ Open(t)'
      <3>1. /\ Open(s) /\ inbox[s] # <<>> /\ Head(inbox[s]) # Sentinel
            /\ inbox'[s] = Tail(inbox[s]) /\ seen'[s] = Head(inbox[s])
            /\ UNCHANGED <<task, joined, emitted>>
        BY <1>4, <2>2 DEF Consume, Open, TypeOK
      <3>2. inbox[s] \in Seq(Event) /\ seen[s] \in Int /\ Continues(inbox[s], seen[s])
        BY <2>2, <3>1 DEF TypeOK, Gapless
      <3>3. Head(inbox[s]) = seen[s] + 1 /\ Continues(Tail(inbox[s]), seen[s] + 1)
        BY <3>1, <3>2, TailContinues
      <3>4. HasSentinel(inbox[s]) => HasSentinel(inbox'[s])
        BY <3>1, <3>2, TailKeepsSentinel
      <3>5. Len(inbox[s]) \in Nat /\ Len(inbox'[s]) = Len(inbox[s]) - 1
        BY <3>1, <3>2
      <3>6. ~HasSentinel(inbox'[s]) /\ Live(joined[s]) =>
               seen'[s] + Len(inbox'[s]) = emitted[joined[s]]
        BY <2>2, <3>1, <3>2, <3>3, <3>4, <3>5 DEF Gapless
      <3> QED BY <2>2, <3>1, <3>3, <3>6 DEF Gapless, Continues, Before, HasSentinel, Live
    <2> QED BY <2>1, <2>2 DEF Gapless
  <1>5. ASSUME NEW s \in Subs, Disconnect(s) PROVE Gapless(t)'
    <2>1. Open(t)' => Open(t)
      BY <1>5 DEF Disconnect, Open, TypeOK
    <2> QED BY <1>5, <2>1, GaplessFrame DEF Disconnect, Live
  <1>6. ASSUME NEW k \in Keys, RequestStop(k) \/ Touch(k) PROVE Gapless(t)'
    BY <1>6, GaplessFrame DEF RequestStop, Touch, subVars, Open, Live
  <1>7. ASSUME NEW r \in Runs, ProducerStart(r) \/ ProducerEmit(r) PROVE Gapless(t)'
    <2>1. /\ inbox' = Deliver(r, emitted[r] + 1) /\ emitted' = [emitted EXCEPT ![r] = @ + 1]
          /\ Live(r) /\ \A p \in Runs : p # r => task'[p] = task[p]
          /\ UNCHANGED <<stream, seen, joined>>
      BY <1>7 DEF ProducerStart, ProducerEmit, Emit, Live, TypeOK
    <2> QED BY <2>1, GaplessEmit
  <1>8. ASSUME NEW r \in Runs, DeliverCancel(r) \/ GoIdle(r) \/ WatchdogTick(r)
        PROVE  Gapless(t)'
    BY <1>8, GaplessFrame DEF DeliverCancel, GoIdle, WatchdogTick, subVars, Open, Live
  <1>9. ASSUME NEW r \in Runs, AbortBeforeStart(r) PROVE Gapless(t)'
    <2>1. /\ task' = [task EXCEPT ![r] = "aborted"]
          /\ UNCHANGED <<stream, joined, inbox, seen, emitted>>
      BY <1>9 DEF AbortBeforeStart, subVars
    <2>2. task'[joined[t]] \in {"created", "streaming"} => Live(joined[t])
      BY <2>1 DEF Live, TypeOK
    <2> QED BY <2>1, <2>2, GaplessFrame DEF Open
  <1>10. ASSUME NEW r \in Runs, ProducerReturn(r) PROVE Gapless(t)'
    <2>1. /\ task' = [task EXCEPT ![r] = "finished"]
          /\ inbox' = Deliver(r, Sentinel)
          /\ UNCHANGED <<stream, joined, seen, emitted>>
      BY <1>10 DEF ProducerReturn, Finalise
    <2>2. CASE t \in queues[r]
      BY <2>1, <2>2, GaplessSentinel DEF Deliver, Open
    <2>3. CASE t \notin queues[r]
      <3>1. task'[joined[t]] \in {"created", "streaming"} => Live(joined[t])
        BY <2>1 DEF Live, TypeOK
      <3> QED BY <2>1, <2>3, <3>1, GaplessFrame DEF Open, Deliver
    <2> QED BY <2>2, <2>3
  <1>11. ASSUME NEW r \in Runs, ProducerError(r) PROVE Gapless(t)'
    <2>1. /\ task[r] = "streaming" /\ task' = [task EXCEPT ![r] = "finished"]
          /\ emitted' = [emitted EXCEPT ![r] = @ + 1]
          /\ UNCHANGED <<stream, joined, seen>>
      BY <1>11 DEF ProducerError, Finalise
    <2>2. CASE t \in queues[r]
      <3>1. /\ inbox'[t] = Append(Append(inbox[t], emitted[r] + 1), Sentinel)
            /\ joined[t] = r /\ Live(r)
        BY <1>11, <2>1, <2>2 DEF ProducerError, Shape, QueueJoined, Live
      <3>2. /\ inbox[t] \in Seq(Event) /\ seen[t] \in Int /\ emitted[r] + 1 \in Event
            /\ Sentinel \in Event /\ Append(inbox[t], emitted[r] + 1) \in Seq(Event)
            /\ Len(inbox[t]) \in Nat /\ emitted[r] \in Nat
        BY DEF TypeOK, Event
      <3>3. ASSUME Open(t) PROVE Continues(inbox'[t], seen'[t])
        <4>1. HasSentinel(inbox[t]) \/ emitted[r] + 1 = seen[t] + Len(inbox[t]) + 1
          BY <3>1, <3>2, <3>3 DEF Gapless
        <4>2. Continues(Append(inbox[t], emitted[r] + 1), seen[t])
          BY <3>2, <3>3, <4>1, AppendContinues DEF Gapless
        <4> QED BY <2>1, <3>1, <3>2, <4>2, AppendContinues
      <3>4. HasSentinel(inbox'[t])
        BY <3>1, <3>2, AppendSentinel
      <3> QED BY <2>1, <3>3, <3>4 DEF Gapless, Continues, Before, HasSentinel, Open
    <2>3. CASE t \notin queues[r]
      <3>1. inbox'[t] = inbox[t]
        BY <1>11, <2>3 DEF ProducerError
      <3>2. CASE ~Open(t)
        BY <2>1, <3>2 DEF Gapless, Open
      <3>3. CASE Open(t)
        <4>1. HasSentinel(inbox[t]) \/ joined[t] # r
          BY <2>1, <2>3, <3>3 DEF NoStrandedSubscriber
        <4>2. joined[t] \in Runs
          BY <3>3 DEF Shape, JoinedKnown
        <4>3. joined[t] # r => /\ task'[joined[t]] = task[joined[t]]
                               /\ emitted'[joined[t]] = emitted[joined[t]]
          BY <2>1, <4>2 DEF TypeOK
        <4> QED BY <2>1, <3>1, <4>1, <4>3, GaplessFrame DEF Open, Live
      <3> QED BY <3>2, <3>3
    <2> QED BY <2>2, <2>3
  <1>12. CASE UNCHANGED vars
    BY <1>12, GaplessFrame DEF vars, runVars, subVars, Open, Live
  <1> QED
    BY <1>1, <1>2, <1>3, <1>4, <1>5, <1>6, <1>7, <1>8, <1>9, <1>10, <1>11, <1>12
       DEF Next, Producer

------------------------------------------------------------------------------
(* The theorems.                                                            *)

(* The tracker starts in the invariant.                                     *)
LEMMA InitIInv == Init => IInv
  <1> SUFFICES ASSUME Init PROVE IInv
    OBVIOUS
  <1>1. TypeOK
    BY NullAssumption DEF Init, TypeOK, TaskState, Event
  <1>2. OwnerKnown /\ NamesOwn /\ LiveRunRegistered
    BY DEF Init, OwnerKnown, NamesOwn, LiveRunRegistered, Live
  <1>3. JoinedKnown /\ QueueJoined /\ FreshEmpty
    BY DEF Init, JoinedKnown, QueueJoined, FreshEmpty, Open
  <1>4. BufferRecent
    BY DEF Init, BufferRecent, EndsAt
  <1>5. NoStrandedSubscriber /\ GapFreeStream
    BY DEF Init, NoStrandedSubscriber, GapFreeStream, Open
  <1> QED BY <1>1, <1>2, <1>3, <1>4, <1>5 DEF IInv

(* Every step keeps it.                                                     *)
LEMMA NextIInv == IInv /\ [Next]_vars => IInv'
  <1> SUFFICES ASSUME IInv, [Next]_vars PROVE IInv'
    OBVIOUS
  <1>1. /\ TypeOK /\ OwnerKnown /\ NamesOwn /\ LiveRunRegistered /\ Shape
        /\ BufferRecent /\ NoStrandedSubscriber /\ GapFreeStream
    BY DEF IInv, Shape
  <1>2. TypeOK'
    BY <1>1, TypeStep
  <1>3. OwnerKnown' /\ NamesOwn' /\ LiveRunRegistered'
    BY <1>1, RegisteredStep, NamesStep
  <1>4. Shape'
    BY <1>1, ShapeStep
  <1>5. BufferRecent'
    BY <1>1, BufferStep
  <1>6. NoStrandedSubscriber'
    BY <1>1, StrandedStep
  <1>7. GapFreeStream'
    <2>1. \A s \in Subs : Gapless(s)
      BY <1>1 DEF GapFreeStream, Gapless
    <2>2. \A s \in Subs : Gapless(s)'
      BY <1>1, <2>1, GaplessStep
    <2> QED BY <2>2 DEF GapFreeStream, Gapless
  <1> QED BY <1>2, <1>3, <1>4, <1>5, <1>6, <1>7 DEF IInv, Shape

(* The inductive invariant holds of every state of the tracker.             *)
THEOREM Invariance == Spec => []IInv
  BY InitIInv, NextIInv, PTL DEF Spec

(* Every variable of the tracker keeps its type.                            *)
THEOREM TypeCorrect == Spec => []TypeOK
  <1>1. IInv => TypeOK
    BY DEF IInv
  <1> QED BY Invariance, <1>1, PTL

(* A live run that nobody cancelled is found under its key, whatever        *)
(* replacements, stops and ends of other runs happen around it.             *)
THEOREM LiveRunsAreFound == Spec => []LiveRunRegistered
  <1>1. IInv => LiveRunRegistered
    BY DEF IInv
  <1> QED BY Invariance, <1>1, PTL

(* Whoever streams a run has its end ahead, unless the run was aborted      *)
(* before its first step.                                                   *)
THEOREM StreamsEnd == Spec => []NoStrandedSubscriber
  <1>1. IInv => NoStrandedSubscriber
    BY DEF IInv
  <1> QED BY Invariance, <1>1, PTL

(* Every subscriber reads the events of its run in order, without a gap or  *)
(* a repeat, however replay, replacement and errors interleave.             *)
THEOREM StreamsAreGapFree == Spec => []GapFreeStream
  <1>1. IInv => GapFreeStream
    BY DEF IInv
  <1> QED BY Invariance, <1>1, PTL

------------------------------------------------------------------------------
(* The refinement of RunRegistry.                                           *)

(* The tracker starts as the contract does.                                 *)
LEMMA InitRefines == Init => Contract!Init
  <1> SUFFICES ASSUME Init PROVE Contract!Init
    OBVIOUS
  <1>1. \A k \in Keys : ~Active(k)
    BY DEF Init, Active
  <1>2. Serving = [k \in Keys |-> NoRun]
    BY <1>1 DEF Serving
  <1>3. Phase = [r \in Runs |-> "unused"]
    BY DEF Init, Phase, Done
  <1>4. Asked = [r \in Runs |-> FALSE]
    BY DEF Init, Asked
  <1> QED BY <1>2, <1>3, <1>4 DEF Contract!Init

(* What the contract sees of a run's task.                                  *)
LEMMA PhaseIs ==
  ASSUME TypeOK, NEW r \in Runs
  PROVE  /\ Phase[r] = "unused" <=> task[r] = "unused"
         /\ Phase[r] = "created" <=> task[r] = "created"
         /\ Phase[r] = "live" <=> task[r] = "streaming"
         /\ Phase[r] = "over" <=> Done(r)
  BY DEF TypeOK, Phase, Done, TaskState

(* A chat is served exactly while it is active.                             *)
LEMMA ServingIs ==
  ASSUME TypeOK, NEW k \in Keys
  PROVE  /\ Serving[k] # NoRun <=> Active(k)
         /\ Active(k) => Serving[k] = registry[k] /\ registry[k] \in Runs
  BY NullAssumption DEF TypeOK, Serving, Active

(* Steps that leave dictionary and tasks alone and cancel nothing anew are  *)
(* no steps of the contract.                                                *)
LEMMA StutterRefines ==
  ASSUME UNCHANGED <<registry, task>>,
         \A r \in Runs : cancel'[r] = "none" <=> cancel[r] = "none"
  PROVE  UNCHANGED Contract!vars
  <1>1. Serving' = Serving /\ Phase' = Phase
    BY DEF Serving, Active, Live, Phase, Done
  <1>2. Asked' = Asked
    BY DEF Asked
  <1> QED BY <1>1, <1>2 DEF Contract!vars

(* A fresh run is created in the contract and served by its chat only.      *)
LEMMA InstallRefines ==
  ASSUME TypeOK, NamesOwn,
         NEW s \in Subs, NEW k \in Keys, NEW r \in Runs, Install(s, k, r)
  PROVE  Contract!Serve(r, k)
  <1>1. /\ registry' = [registry EXCEPT ![k] = r]
        /\ task[r] = "unused" /\ task' = [task EXCEPT ![r] = "created"]
    BY DEF Install
  <1>2. Phase[r] = "unused"
    BY <1>1, PhaseIs
  <1>3. Phase' = [Phase EXCEPT ![r] = "created"]
    BY <1>1 DEF Phase, Done, TypeOK
  <1>4. ASSUME NEW j \in Keys
        PROVE  Serving'[j] = [Serving EXCEPT ![k] = r][j]
    <2>1. CASE j = k
      BY <1>1, <2>1, NullAssumption DEF Serving, Active, Live, TypeOK
    <2>2. CASE j # k
      <3>1. registry'[j] = registry[j] /\ registry[j] # r
        BY <1>1, <2>2, NullAssumption DEF NamesOwn, TypeOK
      <3>2. Active(j)' <=> Active(j)
        BY <1>1, <3>1 DEF Active, Live, TypeOK
      <3> QED BY <2>2, <3>1, <3>2 DEF Serving
    <2> QED BY <2>1, <2>2
  <1>5. Serving' = [Serving EXCEPT ![k] = r]
    BY <1>4 DEF Serving
  <1> QED BY <1>2, <1>3, <1>5 DEF Contract!Serve

(* Cancelling the run a chat serves.                                        *)
LEMMA AskRefines ==
  ASSUME TypeOK, NEW k \in Keys, Active(k),
         cancel' = [cancel EXCEPT ![registry[k]] = "requested"]
  PROVE  Asked' = [Asked EXCEPT ![Serving[k]] = TRUE]
  BY ServingIs DEF Asked, TypeOK

(* A task that is done ends its run in the contract, whether its finally    *)
(* takes the name back, finds another run there, or never runs.             *)
LEMMA EndRefines ==
  ASSUME TypeOK, NamesOwn, NEW r \in Runs,
         task[r] = "streaming" \/ (task[r] = "created" /\ cancel[r] # "none"),
         NEW d \in {"finished", "aborted"}, task' = [task EXCEPT ![r] = d],
         \/ registry' = registry
         \/ registry[owner[r]] = r /\ registry' = [registry EXCEPT ![owner[r]] = NoRun],
         UNCHANGED cancel
  PROVE  Contract!End(r)
  <1>1. Phase[r] = "live" \/ (Phase[r] = "created" /\ Asked[r])
    BY PhaseIs DEF Asked
  <1>2. Phase' = [Phase EXCEPT ![r] = "over"]
    BY DEF Phase, Done, TypeOK
  <1>3. ASSUME NEW k \in Keys
        PROVE  Serving'[k] = IF Serving[k] = r THEN NoRun ELSE Serving[k]
    <2>1. CASE registry[k] = r
      <3>1. Active(k) /\ Serving[k] = r
        BY <2>1, NullAssumption DEF Active, Live, Serving
      <3>2. ~Active(k)'
        BY <2>1, NullAssumption DEF Active, Live, NamesOwn, TypeOK
      <3> QED BY <3>1, <3>2 DEF Serving
    <2>2. CASE registry[k] # r
      <3>1. registry'[k] = registry[k]
        BY <2>2 DEF TypeOK
      <3>2. Active(k)' <=> Active(k)
        BY <2>2, <3>1 DEF Active, Live, TypeOK
      <3>3. Serving[k] # r
        BY <2>2, NullAssumption DEF Serving
      <3> QED BY <3>1, <3>2, <3>3 DEF Serving
    <2> QED BY <2>1, <2>2
  <1>4. Serving' = [k \in Keys |-> IF Serving[k] = r THEN NoRun ELSE Serving[k]]
    BY <1>3 DEF Serving
  <1>5. Asked' = Asked
    BY DEF Asked
  <1> QED BY <1>1, <1>2, <1>4, <1>5 DEF Contract!End

(* The first step of a task begins its run.                                 *)
LEMMA BeginRefines ==
  ASSUME TypeOK, NEW r \in Runs, ProducerStart(r)
  PROVE  Contract!Begin(r)
  <1>1. /\ task[r] = "created" /\ cancel[r] = "none"
        /\ task' = [task EXCEPT ![r] = "streaming"]
        /\ UNCHANGED <<registry, cancel>>
    BY DEF ProducerStart
  <1>2. Phase[r] = "created" /\ ~Asked[r]
    BY <1>1, PhaseIs DEF Asked
  <1>3. Phase' = [Phase EXCEPT ![r] = "live"]
    BY <1>1 DEF Phase, Done, TypeOK
  <1>4. \A k \in Keys : Active(k)' <=> Active(k)
    BY <1>1 DEF Active, Live, TypeOK
  <1>5. Serving' = Serving /\ Asked' = Asked
    BY <1>1, <1>4 DEF Serving, Asked
  <1> QED BY <1>2, <1>3, <1>5 DEF Contract!Begin

(* The watchdog asks by run, not by chat: a run that has not been cancelled *)
(* before is the one its chat serves, and of another one it asks no more    *)
(* than was asked already.                                                  *)
LEMMA WatchdogRefines ==
  ASSUME TypeOK, OwnerKnown, LiveRunRegistered, NEW r \in Runs, WatchdogTick(r)
  PROVE  (\E k \in Keys : Contract!Ask(k)) \/ UNCHANGED Contract!vars
  <1>1. UNCHANGED <<registry, task>>
    BY DEF WatchdogTick
  <1>2. CASE Live(r) /\ cancel[r] = "none" /\ cancel' = [cancel EXCEPT ![r] = "requested"]
    <2>1. owner[r] \in Keys /\ registry[owner[r]] = r
      BY <1>2 DEF LiveRunRegistered, OwnerKnown, Live
    <2>2. Active(owner[r])
      BY <1>2, <2>1, NullAssumption DEF Active
    <2>3. Asked' = [Asked EXCEPT ![Serving[owner[r]]] = TRUE]
      BY <1>2, <2>1, <2>2, AskRefines
    <2>4. Serving' = Serving /\ Phase' = Phase
      BY <1>1 DEF Serving, Active, Live, Phase, Done
    <2>5. Contract!Ask(owner[r])
      BY <2>1, <2>2, <2>3, <2>4, ServingIs DEF Contract!Ask
    <2> QED BY <2>1, <2>5
  <1>3. CASE cancel[r] # "none" /\ cancel' = [cancel EXCEPT ![r] = "requested"]
    BY <1>1, <1>3, StutterRefines DEF TypeOK
  <1>4. CASE UNCHANGED cancel
    BY <1>1, <1>4, StutterRefines
  <1> QED BY <1>2, <1>3, <1>4 DEF WatchdogTick

(* Every step of the tracker is a step of the contract or leaves it alone.  *)
LEMMA NextRefines ==
  ASSUME IInv, [Next]_vars
  PROVE  Contract!Next \/ UNCHANGED Contract!vars
  <1> USE DEF IInv
  <1>1. ASSUME NEW s \in Subs, NEW k \in Keys, NEW r \in Runs, StartFresh(s, k, r)
        PROVE  Contract!Start(r, k)
    <2>1. Serving[k] = NoRun
      BY <1>1, ServingIs DEF StartFresh
    <2>2. Contract!Serve(r, k) /\ Asked' = Asked
      BY <1>1, InstallRefines DEF StartFresh, Asked
    <2> QED BY <2>1, <2>2 DEF Contract!Start
  <1>2. ASSUME NEW s \in Subs, NEW k \in Keys, NEW r \in Runs, ForceNew(s, k, r)
        PROVE  Contract!Replace(r, k)
    <2>1. Serving[k] # NoRun
      BY <1>2, ServingIs DEF ForceNew
    <2>2. Contract!Serve(r, k)
      BY <1>2, InstallRefines DEF ForceNew
    <2>3. Asked' = [Asked EXCEPT ![Serving[k]] = TRUE]
      BY <1>2, AskRefines DEF ForceNew
    <2> QED BY <2>1, <2>2, <2>3 DEF Contract!Replace
  <1>3. ASSUME NEW s \in Subs, NEW k \in Keys, NEW replay \in BOOLEAN, Attach(s, k, replay)
        PROVE  UNCHANGED Contract!vars
    BY <1>3, StutterRefines DEF Attach
  <1>4. ASSUME NEW s \in Subs, Consume(s) \/ Disconnect(s)
        PROVE  UNCHANGED Contract!vars
    BY <1>4, StutterRefines DEF Consume, Disconnect
  <1>5. ASSUME NEW k \in Keys, RequestStop(k) PROVE Contract!Ask(k)
    <2>1. Asked' = [Asked EXCEPT ![Serving[k]] = TRUE]
      BY <1>5, AskRefines DEF RequestStop
    <2>2. Serving' = Serving /\ Phase' = Phase
      BY <1>5 DEF RequestStop, Serving, Active, Live, Phase, Done
    <2> QED BY <1>5, <2>1, <2>2, ServingIs DEF RequestStop, Contract!Ask
  <1>6. ASSUME NEW k \in Keys, Touch(k) PROVE UNCHANGED Contract!vars
    BY <1>6, StutterRefines DEF Touch
  <1>7. ASSUME NEW r \in Runs, ProducerStart(r) PROVE Contract!Begin(r)
    BY <1>7, BeginRefines
  <1>8. ASSUME NEW r \in Runs, ProducerEmit(r) \/ GoIdle(r)
        PROVE  UNCHANGED Contract!vars
    BY <1>8, StutterRefines DEF ProducerEmit, GoIdle
  <1>9. ASSUME NEW r \in Runs, DeliverCancel(r) PROVE UNCHANGED Contract!vars
    BY <1>9, StutterRefines DEF DeliverCancel, TypeOK
  <1>10. ASSUME NEW r \in Runs, ProducerReturn(r) \/ ProducerError(r)
         PROVE  Contract!End(r)
    <2>1. /\ task[r] = "streaming" /\ task' = [task EXCEPT ![r] = "finished"]
          /\ registry' = IF registry[owner[r]] = r
                         THEN [registry EXCEPT ![owner[r]] = NoRun] ELSE registry
          /\ UNCHANGED cancel
      BY <1>10 DEF ProducerReturn, ProducerError, Finalise
    <2> QED BY <2>1, EndRefines
  <1>11. ASSUME NEW r \in Runs, AbortBeforeStart(r) PROVE Contract!End(r)
    <2>1. /\ task[r] = "created" /\ cancel[r] # "none"
          /\ task' = [task EXCEPT ![r] = "aborted"]
          /\ UNCHANGED <<registry, cancel>>
      BY <1>11 DEF AbortBeforeStart
    <2> QED BY <2>1, EndRefines
  <1>12. ASSUME NEW r \in Runs, WatchdogTick(r)
         PROVE  (\E k \in Keys : Contract!Ask(k)) \/ UNCHANGED Contract!vars
    BY <1>12, WatchdogRefines
  <1>13. CASE UNCHANGED vars
    BY <1>13, StutterRefines DEF vars, runVars
  <1> QED
    BY <1>1, <1>2, <1>3, <1>4, <1>5, <1>6, <1>7, <1>8, <1>9, <1>10, <1>11, <1>12, <1>13
    DEF Next, Producer, Contract!Next

(* The tracker keeps its contract: at any time a chat serves at most one    *)
(* run, whoever asks by chat reaches that one, and every other run that is  *)
(* still live has been cancelled.                                           *)
THEOREM RegistryIsImplemented == Spec => ImplementsRunRegistry
  <1>1. IInv /\ [Next]_vars => [Contract!Next]_(Contract!vars)
    BY NextRefines
  <1> QED BY InitRefines, Invariance, <1>1, PTL DEF Spec, ImplementsRunRegistry, Contract!Spec
==============================================================================
