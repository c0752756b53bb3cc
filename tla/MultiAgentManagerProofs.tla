----------------------- MODULE MultiAgentManagerProofs -----------------------
(***************************************************************************)
(* Proofs about MultiAgentManager: for any number of instances, reloads and *)
(* requests, until the program shuts down no instance is forgotten, what is *)
(* registered is running, so are the services that reloads hand on, and the *)
(* manager implements AgentService.                                         *)
(***************************************************************************)
EXTENDS MultiAgentManager, TLAPS

(* What the holder of the lock works on.                                    *)
HolderKnows ==
    /\ lock = "load" => /\ agent = None /\ subject \in Insts
                        /\ inst[subject] = "starting" /\ comp[subject] = subject
    /\ lock = "stop" => agent # None /\ subject = agent /\ inst[subject] = "stopping"
    /\ lock = "discard" => agent = None /\ subject \in Insts /\ inst[subject] = "stopping"

(* Call r has an instance of its own that does not serve the agent.         *)
HasNew(r) == reload[r] \in {"checked", "starting", "swap", "discarding"}

(* What a reload call works on.                                             *)
CallKnows(r) ==
    /\ HasNew(r) => new[r] \in Insts
    /\ reload[r] = "checked" => inst[new[r]] = "created"
    /\ reload[r] = "starting" => inst[new[r]] = "starting"
    /\ reload[r] = "swap" => inst[new[r]] = "started" /\ new[r] # agent
    /\ reload[r] = "discarding" => lock = "discard" /\ subject = new[r]
    /\ reload[r] = "stopping" => old[r] \in Insts /\ inst[old[r]] = "stopping"

(* What a delayed cleanup works on.                                         *)
CleanupKnows(i) ==
    /\ cleanup[i] = "waiting" => inst[i] = "started" /\ i # agent
    /\ cleanup[i] = "stopping" => inst[i] = "stopping"

(* No two start, or mean to stop, the same instance.                        *)
OneStarter ==
    \A r \in Reloads :
        /\ lock = "load" /\ reload[r] = "starting" => new[r] # subject
        /\ \A q \in Reloads \ {r} : HasNew(r) /\ HasNew(q) => new[r] # new[q]
        /\ \A i \in Insts : reload[r] = "swap" /\ cleanup[i] = "waiting" => new[r] # i

(* No two stop the same instance.                                           *)
OneStopper ==
    /\ \A r \in Reloads : reload[r] = "stopping" =>
          /\ lock \in {"stop", "discard"} => old[r] # subject
          /\ \A q \in Reloads \ {r} : reload[q] = "stopping" => old[r] # old[q]
          /\ cleanup[old[r]] # "stopping"
    /\ lock \in {"stop", "discard"} => cleanup[subject] # "stopping"

(* The component that call r hands to its instance is running, or is the    *)
(* instance's own; it is its own when the agent is not there.               *)
HandsOnLive(r) ==
    /\ UnderWay(r) => comp[new[r]] = new[r] \/ comp[new[r]] \in open
    /\ reload[r] = "swap" => comp[new[r]] \in open
    /\ agent = None /\ HasNew(r) /\ reload[r] # "checked" => comp[new[r]] = new[r]

(* One holder per instance, and live components in the hands of reloads.    *)
Steady ==
    /\ HolderKnows
    /\ \A r \in Reloads : CallKnows(r)
    /\ \A i \in Insts : CleanupKnows(i)
    /\ OneStarter /\ OneStopper
    /\ ~restarted => \A r \in Reloads : HandsOnLive(r)

(* Whoever starts an instance has one, during shutdown too.                 *)
InHand ==
    /\ lock = "load" => subject \in Insts
    /\ \A r \in Reloads : HasNew(r) => new[r] \in Insts

(* What is being started has not run, and one call starts it; what anybody  *)
(* else works on has.  This holds during shutdown too.                      *)
HasRun(i) == inst[i] \in {"started", "stopping", "stopped"}

StartsOwn ==
    /\ lock = "load" => inst[subject] = "starting"
    /\ \A r \in Reloads :
          /\ reload[r] = "checked" => inst[new[r]] = "created"
          /\ reload[r] = "starting" => inst[new[r]] = "starting"
          /\ lock = "load" /\ reload[r] = "starting" => new[r] # subject
          /\ \A q \in Reloads \ {r} :
                {reload[r], reload[q]} \subseteq {"checked", "starting"} => new[r] # new[q]

StopsRun ==
    /\ agent # None => HasRun(agent)
    /\ last # None => HasRun(last)
    /\ lock \in {"stop", "discard"} => subject \in Insts /\ HasRun(subject)
    /\ \A r \in Reloads :
          /\ reload[r] \in {"swap", "discarding"} => HasRun(new[r])
          /\ reload[r] = "stopping" => old[r] \in Insts /\ HasRun(old[r])
    /\ \A i \in Insts : cleanup[i] \in {"waiting", "stopping"} => HasRun(i)

(* A request has an instance until its run is over.                         *)
GuestKnown == \A c \in Clients : client[c] = "idle" <=> at[c] = None

(* The inductive invariant.                                                 *)
IInv ==
    /\ TypeOK /\ InHand /\ GuestKnown
    /\ StartsOwn /\ StopsRun
    /\ shutdown = "no" => Steady
    /\ NoOrphan /\ RegisteredServes /\ ReusableLive

(* What holds until shutdown.                                               *)
Core == Steady /\ NoOrphan /\ RegisteredServes /\ ReusableLive

------------------------------------------------------------------------------
(* Every action before shutdown preserves Core.                             *)

USE NoneAssumption
    DEF Core, Steady, HolderKnows, CallKnows, HasNew, CleanupKnows, OneStarter,
        OneStopper, HandsOnLive, UnderWay, InHand, NoOrphan, Owned, RegisteredServes,
        ReusableLive, TypeOK, InstOrNone, iVars, lVars, rVars, cVars, sVars

(* A load begins: nobody else has the unused instance.                      *)
LEMMA LoadBeginKeeps ==
  ASSUME TypeOK, Core, shutdown = "no", NEW i \in Insts, LoadBegin(i)
  PROVE  Core'
  <1>1. /\ HolderKnows' /\ OneStarter' /\ OneStopper'
        /\ \A r \in Reloads : CallKnows(r)'
        /\ \A x \in Insts : CleanupKnows(x)'
    BY DEF LoadBegin, StartBegins
  <1>2. NoOrphan' /\ RegisteredServes'
    BY DEF LoadBegin, StartBegins
  <1>3. ReusableLive' /\ (~restarted' => \A r \in Reloads : HandsOnLive(r)')
    BY DEF LoadBegin, StartBegins
  <1> QED BY <1>1, <1>2, <1>3

(* A load ends: the started instance is registered with its own component.  *)
LEMMA LoadEndKeeps ==
  ASSUME TypeOK, Core, shutdown = "no", LoadEnd
  PROVE  Core'
  <1>1. /\ HolderKnows' /\ OneStarter' /\ OneStopper'
        /\ \A r \in Reloads : CallKnows(r)'
        /\ \A x \in Insts : CleanupKnows(x)'
    BY DEF LoadEnd, StartEnds
  <1>2. NoOrphan' /\ RegisteredServes'
    BY DEF LoadEnd, StartEnds
  <1>3. ReusableLive' /\ (~restarted' => \A r \in Reloads : HandsOnLive(r)')
    BY DEF LoadEnd, StartEnds
  <1> QED BY <1>1, <1>2, <1>3

(* A load fails: the instance was never registered.                         *)
LEMMA LoadFailKeeps ==
  ASSUME TypeOK, Core, shutdown = "no", LoadFail
  PROVE  Core'
  <1>1. /\ HolderKnows' /\ OneStarter' /\ OneStopper'
        /\ \A r \in Reloads : CallKnows(r)'
        /\ \A x \in Insts : CleanupKnows(x)'
    BY DEF LoadFail, StartFails
  <1>2. NoOrphan' /\ RegisteredServes'
    BY DEF LoadFail, StartFails
  <1>3. ReusableLive' /\ (~restarted' => \A r \in Reloads : HandsOnLive(r)')
    BY DEF LoadFail, StartFails
  <1> QED BY <1>1, <1>2, <1>3

(* stop_agent begins: the registered instance has one more owner, the lock. *)
LEMMA StopBeginKeeps ==
  ASSUME TypeOK, Core, shutdown = "no", StopBegin
  PROVE  Core'
  <1>1. /\ HolderKnows' /\ OneStarter' /\ OneStopper'
        /\ \A r \in Reloads : CallKnows(r)'
        /\ \A x \in Insts : CleanupKnows(x)'
    BY DEF StopBegin, StopBegins
  <1>2. NoOrphan' /\ RegisteredServes'
    BY DEF StopBegin, StopBegins
  <1>3. ReusableLive' /\ (~restarted' => \A r \in Reloads : HandsOnLive(r)')
    BY DEF StopBegin, StopBegins
  <1> QED BY <1>1, <1>2, <1>3

(* stop_agent ends: entry and instance go together, and reloads that hold   *)
(* the component are marked.                                                *)
LEMMA StopEndKeeps ==
  ASSUME TypeOK, Core, shutdown = "no", StopEnd
  PROVE  Core'
  <1>1. /\ HolderKnows' /\ OneStarter' /\ OneStopper'
        /\ \A r \in Reloads : CallKnows(r)'
        /\ \A x \in Insts : CleanupKnows(x)'
    BY DEF StopEnd, StopEnds
  <1>2. NoOrphan' /\ RegisteredServes'
    BY DEF StopEnd, StopEnds
  <1>3. ReusableLive' /\ (~restarted' => \A r \in Reloads : HandsOnLive(r)')
    BY DEF StopEnd, StopEnds
  <1> QED BY <1>1, <1>2, <1>3

(* A reload creates its instance: nobody else has it.                       *)
LEMMA ReloadCheckKeeps ==
  ASSUME TypeOK, Core, shutdown = "no", NEW p \in Reloads, ReloadCheck(p)
  PROVE  Core'
  <1>1. /\ HolderKnows' /\ OneStarter' /\ OneStopper'
        /\ \A r \in Reloads : CallKnows(r)'
        /\ \A x \in Insts : CleanupKnows(x)'
    BY DEF ReloadCheck, Return
  <1>2. NoOrphan' /\ RegisteredServes'
    BY DEF ReloadCheck, Return
  <1>3. ReusableLive' /\ (~restarted' => \A r \in Reloads : HandsOnLive(r)')
    BY DEF ReloadCheck, Return
  <1> QED BY <1>1, <1>2, <1>3

(* A reload begins to start it, with the component of the registered one.   *)
LEMMA ReloadBeginKeeps ==
  ASSUME TypeOK, Core, shutdown = "no", NEW p \in Reloads, ReloadBegin(p)
  PROVE  Core'
  <1>1. /\ HolderKnows' /\ OneStarter' /\ OneStopper'
        /\ \A r \in Reloads : CallKnows(r)'
        /\ \A x \in Insts : CleanupKnows(x)'
    BY DEF ReloadBegin, StartBegins
  <1>2. NoOrphan' /\ RegisteredServes'
    BY DEF ReloadBegin, StartBegins
  <1>3. ReusableLive' /\ (~restarted' => \A r \in Reloads : HandsOnLive(r)')
    BY DEF ReloadBegin, StartBegins
  <1> QED BY <1>1, <1>2, <1>3

(* The new instance is started and in the hands of the reload.              *)
LEMMA ReloadStartedKeeps ==
  ASSUME TypeOK, Core, shutdown = "no", NEW p \in Reloads, ReloadStarted(p)
  PROVE  Core'
  <1>1. /\ HolderKnows' /\ OneStarter' /\ OneStopper'
        /\ \A r \in Reloads : CallKnows(r)'
        /\ \A x \in Insts : CleanupKnows(x)'
    BY DEF ReloadStarted, StartEnds
  <1>2. NoOrphan' /\ RegisteredServes'
    BY DEF ReloadStarted, StartEnds
  <1>3. ReusableLive' /\ (~restarted' => \A r \in Reloads : HandsOnLive(r)')
    BY DEF ReloadStarted, StartEnds
  <1> QED BY <1>1, <1>2, <1>3

(* The new instance did not start.                                          *)
LEMMA ReloadFailKeeps ==
  ASSUME TypeOK, Core, shutdown = "no", NEW p \in Reloads, ReloadFail(p)
  PROVE  Core'
  <1>1. /\ HolderKnows' /\ OneStarter' /\ OneStopper'
        /\ \A r \in Reloads : CallKnows(r)'
        /\ \A x \in Insts : CleanupKnows(x)'
    BY DEF ReloadFail, StartFails, Return
  <1>2. NoOrphan' /\ RegisteredServes'
    BY DEF ReloadFail, StartFails, Return
  <1>3. ReusableLive' /\ (~restarted' => \A r \in Reloads : HandsOnLive(r)')
    BY DEF ReloadFail, StartFails, Return
  <1> QED BY <1>1, <1>2, <1>3

(* The swap: the replaced instance goes to the reload or to a delayed       *)
(* cleanup.                                                                 *)
LEMMA ReloadSwapKeeps ==
  ASSUME TypeOK, Core, shutdown = "no", NEW p \in Reloads, ReloadSwap(p)
  PROVE  Core'
  <1>1. /\ HolderKnows' /\ OneStarter' /\ OneStopper'
        /\ \A r \in Reloads : CallKnows(r)'
        /\ \A x \in Insts : CleanupKnows(x)'
    BY DEF ReloadSwap, SwapFor, StopBegins, Return
  <1>2. NoOrphan' /\ RegisteredServes'
    BY DEF ReloadSwap, SwapFor, StopBegins, Return
  <1>3. ReusableLive' /\ (~restarted' => \A r \in Reloads : HandsOnLive(r)')
    BY DEF ReloadSwap, SwapFor, StopBegins, Return
  <1> QED BY <1>1, <1>2, <1>3

(* The replaced instance is stopped, its component is not.                  *)
LEMMA ReloadStoppedKeeps ==
  ASSUME TypeOK, Core, shutdown = "no", NEW p \in Reloads, ReloadStopped(p)
  PROVE  Core'
  <1>1. /\ HolderKnows' /\ OneStarter' /\ OneStopper'
        /\ \A r \in Reloads : CallKnows(r)'
        /\ \A x \in Insts : CleanupKnows(x)'
    BY DEF ReloadStopped, StopEnds, Return
  <1>2. NoOrphan' /\ RegisteredServes'
    BY DEF ReloadStopped, StopEnds, Return
  <1>3. ReusableLive' /\ (~restarted' => \A r \in Reloads : HandsOnLive(r)')
    BY DEF ReloadStopped, StopEnds, Return
  <1> QED BY <1>1, <1>2, <1>3

(* A reload that lost its agent begins to stop the new instance.            *)
LEMMA ReloadDiscardKeeps ==
  ASSUME TypeOK, Core, shutdown = "no", NEW p \in Reloads, ReloadDiscard(p)
  PROVE  Core'
  <1>1. /\ HolderKnows' /\ OneStarter' /\ OneStopper'
        /\ \A r \in Reloads : CallKnows(r)'
        /\ \A x \in Insts : CleanupKnows(x)'
    BY DEF ReloadDiscard, StopBegins
  <1>2. NoOrphan' /\ RegisteredServes'
    BY DEF ReloadDiscard, StopBegins
  <1>3. ReusableLive' /\ (~restarted' => \A r \in Reloads : HandsOnLive(r)')
    BY DEF ReloadDiscard, StopBegins
  <1> QED BY <1>1, <1>2, <1>3

(* The discarded instance takes its component along: no other call has it.  *)
LEMMA ReloadDiscardedKeeps ==
  ASSUME TypeOK, Core, shutdown = "no", NEW p \in Reloads, ReloadDiscarded(p)
  PROVE  Core'
  <1>1. /\ HolderKnows' /\ OneStarter' /\ OneStopper'
        /\ \A r \in Reloads : CallKnows(r)'
        /\ \A x \in Insts : CleanupKnows(x)'
    BY DEF ReloadDiscarded, StopEnds, Return
  <1>2. NoOrphan' /\ RegisteredServes'
    BY DEF ReloadDiscarded, StopEnds, Return
  <1>3. ReusableLive' /\ (~restarted' => \A r \in Reloads : HandsOnLive(r)')
    BY DEF ReloadDiscarded, StopEnds, Return
  <1> QED BY <1>1, <1>2, <1>3

(* A delayed cleanup begins to stop the replaced instance.                  *)
LEMMA CleanupWakeKeeps ==
  ASSUME TypeOK, Core, shutdown = "no", NEW j \in Insts, NEW t \in BOOLEAN, CleanupWake(j, t)
  PROVE  Core'
  <1>1. /\ HolderKnows' /\ OneStarter' /\ OneStopper'
        /\ \A r \in Reloads : CallKnows(r)'
        /\ \A x \in Insts : CleanupKnows(x)'
    BY DEF CleanupWake, StopBegins
  <1>2. NoOrphan' /\ RegisteredServes'
    BY DEF CleanupWake, StopBegins
  <1>3. ReusableLive' /\ (~restarted' => \A r \in Reloads : HandsOnLive(r)')
    BY DEF CleanupWake, StopBegins
  <1> QED BY <1>1, <1>2, <1>3

(* A delayed cleanup is done.                                               *)
LEMMA CleanupEndKeeps ==
  ASSUME TypeOK, Core, shutdown = "no", NEW j \in Insts, CleanupEnd(j)
  PROVE  Core'
  <1>1. /\ HolderKnows' /\ OneStarter' /\ OneStopper'
        /\ \A r \in Reloads : CallKnows(r)'
        /\ \A x \in Insts : CleanupKnows(x)'
    BY DEF CleanupEnd, StopEnds
  <1>2. NoOrphan' /\ RegisteredServes'
    BY DEF CleanupEnd, StopEnds
  <1>3. ReusableLive' /\ (~restarted' => \A r \in Reloads : HandsOnLive(r)')
    BY DEF CleanupEnd, StopEnds
  <1> QED BY <1>1, <1>2, <1>3

------------------------------------------------------------------------------
(* Requests only move themselves.                                           *)
LEMMA RequestKeeps ==
  ASSUME TypeOK, Core, NEW c \in Clients, Request(c)
  PROVE  Core'
  <1>1. UNCHANGED <<agent, inst, comp, open, lock, subject, reload, new, old, cleanup,
                    shutdown, restarted>>
    BY DEF Request, Get, RunStart, RunEnd
  <1> QED BY <1>1

(* stop_all takes an instance only after it has begun, and never goes back. *)
LEMMA ShutdownIsForGood ==
  ASSUME TypeOK, StopAll
  PROVE  shutdown' # "no"
  BY DEF StopAll, StopAllBegin, StopAllStop, StopAllStopped, StopAllEnd

(* Nor does anything else take the shutdown back.                           *)
LEMMA ShutdownStays ==
  ASSUME TypeOK, [Next]_vars, shutdown # "no"
  PROVE  shutdown' # "no"
  <1>1. CASE UNCHANGED vars
    BY <1>1 DEF vars
  <1>2. CASE StopAll
    BY <1>2, ShutdownIsForGood
  <1>3. ASSUME NEW c \in Clients, Request(c) PROVE shutdown' # "no"
    BY <1>3 DEF Request, Get, RunStart, RunEnd
  <1>4. CASE Load \/ StopAgent
    BY <1>4 DEF Load, LoadBegin, LoadEnd, LoadFail, StopAgent, StopBegin, StopEnd
  <1>5. ASSUME NEW r \in Reloads, Reload(r) PROVE shutdown' # "no"
    BY <1>5 DEF Reload, ReloadCheck, ReloadBegin, ReloadStarted, ReloadFail, ReloadSwap,
                SwapFor, ReloadStopped, ReloadDiscard, ReloadDiscarded
  <1>6. ASSUME NEW i \in Insts, Cleanup(i) PROVE shutdown' # "no"
    BY <1>6 DEF Cleanup, CleanupWake, CleanupEnd
  <1> QED BY <1>1, <1>2, <1>3, <1>4, <1>5, <1>6 DEF Next

(* Before shutdown every step preserves Core or begins the shutdown.        *)
LEMMA StepKeeps ==
  ASSUME TypeOK, Core, [Next]_vars, shutdown = "no", shutdown' = "no"
  PROVE  Core'
  <1>1. CASE UNCHANGED vars
    BY <1>1 DEF vars
  <1>2. CASE StopAll
    BY <1>2, ShutdownIsForGood
  <1> HIDE DEF Core, TypeOK
  <1>3. ASSUME NEW c \in Clients, Request(c) PROVE Core'
    BY <1>3, RequestKeeps
  <1>4. CASE Load
    BY <1>4, LoadBeginKeeps, LoadEndKeeps, LoadFailKeeps DEF Load
  <1>5. CASE StopAgent
    BY <1>5, StopBeginKeeps, StopEndKeeps DEF StopAgent
  <1>6. ASSUME NEW r \in Reloads, Reload(r) PROVE Core'
    BY <1>6, ReloadCheckKeeps, ReloadBeginKeeps, ReloadStartedKeeps, ReloadFailKeeps,
       ReloadSwapKeeps, ReloadStoppedKeeps, ReloadDiscardKeeps, ReloadDiscardedKeeps
       DEF Reload
  <1>7. ASSUME NEW i \in Insts, Cleanup(i) PROVE Core'
    BY <1>7, CleanupWakeKeeps, CleanupEndKeeps DEF Cleanup
  <1> QED BY <1>1, <1>2, <1>3, <1>4, <1>5, <1>6, <1>7 DEF Next

------------------------------------------------------------------------------
(* Types.                                                                   *)

(* Every step keeps the types.                                             *)
LEMMA TypeStep ==
  ASSUME TypeOK, InHand, [Next]_vars
  PROVE  TypeOK' /\ InHand'
  <1>1. CASE UNCHANGED vars
    BY <1>1 DEF vars
  <1>2. CASE StopAll
    BY <1>2 DEF StopAll, StopAllBegin, StopAllStop, StopAllStopped, StopAllEnd,
                StopBegins, StopEnds
  <1>3. ASSUME NEW c \in Clients, Request(c) PROVE TypeOK' /\ InHand'
    BY <1>3 DEF Request, Get, RunStart, RunEnd
  <1>4. CASE Load
    <2>1. ASSUME NEW i \in Insts, LoadBegin(i) PROVE TypeOK' /\ InHand'
      BY <2>1 DEF LoadBegin, StartBegins
    <2>2. CASE LoadEnd
      BY <2>2 DEF LoadEnd, StartEnds
    <2>3. CASE LoadFail
      BY <2>3 DEF LoadFail, StartFails
    <2> QED BY <1>4, <2>1, <2>2, <2>3 DEF Load
  <1>5. CASE StopAgent
    BY <1>5 DEF StopAgent, StopBegin, StopEnd, StopBegins, StopEnds
  <1>6. ASSUME NEW r \in Reloads, Reload(r) PROVE TypeOK' /\ InHand'
    <2>1. CASE ReloadCheck(r) \/ ReloadBegin(r)
      BY <2>1 DEF ReloadCheck, ReloadBegin, StartBegins, Return
    <2>2. CASE ReloadStarted(r) \/ ReloadFail(r)
      BY <2>2 DEF ReloadStarted, ReloadFail, StartEnds, StartFails, Return
    <2>3. CASE ReloadSwap(r) \/ ReloadStopped(r)
      BY <2>3 DEF ReloadSwap, SwapFor, ReloadStopped, StopBegins, StopEnds, Return
    <2>4. CASE ReloadDiscard(r) \/ ReloadDiscarded(r)
      BY <2>4 DEF ReloadDiscard, ReloadDiscarded, StopBegins, StopEnds, Return
    <2> QED BY <1>6, <2>1, <2>2, <2>3, <2>4 DEF Reload
  <1>7. ASSUME NEW i \in Insts, Cleanup(i) PROVE TypeOK' /\ InHand'
    BY <1>7 DEF Cleanup, CleanupWake, CleanupEnd, StopBegins, StopEnds
  <1> QED BY <1>1, <1>2, <1>3, <1>4, <1>5, <1>6, <1>7 DEF Next

------------------------------------------------------------------------------
(* Who starts and who stops, before and during shutdown.                    *)

(* Every step keeps starters apart and stoppers to what has run.            *)
LEMMA OrderStep ==
  ASSUME TypeOK, InHand, StartsOwn, StopsRun, [Next]_vars
  PROVE  StartsOwn' /\ StopsRun'
  <1> USE DEF StartsOwn, StopsRun, HasRun
  <1>1. CASE UNCHANGED vars
    BY <1>1 DEF vars
  <1>2. CASE StopAll
    BY <1>2 DEF StopAll, StopAllBegin, StopAllStop, StopAllStopped, StopAllEnd,
                StopBegins, StopEnds
  <1>3. ASSUME NEW c \in Clients, Request(c) PROVE StartsOwn' /\ StopsRun'
    BY <1>3 DEF Request, Get, RunStart, RunEnd
  <1>4. CASE Load
    <2>1. ASSUME NEW i \in Insts, LoadBegin(i) PROVE StartsOwn' /\ StopsRun'
      BY <2>1 DEF LoadBegin, StartBegins
    <2>2. CASE LoadEnd
      BY <2>2 DEF LoadEnd, StartEnds
    <2>3. CASE LoadFail
      BY <2>3 DEF LoadFail, StartFails
    <2> QED BY <1>4, <2>1, <2>2, <2>3 DEF Load
  <1>5. CASE StopAgent
    BY <1>5 DEF StopAgent, StopBegin, StopEnd, StopBegins, StopEnds
  <1>6. ASSUME NEW r \in Reloads, Reload(r) PROVE StartsOwn' /\ StopsRun'
    <2>1. CASE ReloadCheck(r)
      BY <2>1 DEF ReloadCheck, Return
    <2>2. CASE ReloadBegin(r)
      BY <2>2 DEF ReloadBegin, StartBegins
    <2>3. CASE ReloadStarted(r)
      BY <2>3 DEF ReloadStarted, StartEnds
    <2>4. CASE ReloadFail(r)
      BY <2>4 DEF ReloadFail, StartFails, Return
    <2>5. CASE ReloadSwap(r)
      BY <2>5 DEF ReloadSwap, SwapFor, StopBegins, Return
    <2>6. CASE ReloadStopped(r)
      BY <2>6 DEF ReloadStopped, StopEnds, Return
    <2>7. CASE ReloadDiscard(r)
      BY <2>7 DEF ReloadDiscard, StopBegins
    <2>8. CASE ReloadDiscarded(r)
      BY <2>8 DEF ReloadDiscarded, StopEnds, Return
    <2> QED BY <1>6, <2>1, <2>2, <2>3, <2>4, <2>5, <2>6, <2>7, <2>8 DEF Reload
  <1>7. ASSUME NEW i \in Insts, Cleanup(i) PROVE StartsOwn' /\ StopsRun'
    BY <1>7 DEF Cleanup, CleanupWake, CleanupEnd, StopBegins, StopEnds
  <1> QED BY <1>1, <1>2, <1>3, <1>4, <1>5, <1>6, <1>7 DEF Next

(* Only requests move requests.                                             *)
LEMMA OthersKeepRequests ==
  ASSUME Next, \A c \in Clients : ~Request(c)
  PROVE  UNCHANGED cVars
  <1>1. CASE StopAll
    BY <1>1 DEF StopAll, StopAllBegin, StopAllStop, StopAllStopped, StopAllEnd
  <1>2. CASE Load \/ StopAgent
    BY <1>2 DEF Load, LoadBegin, LoadEnd, LoadFail, StopAgent, StopBegin, StopEnd
  <1>3. ASSUME NEW r \in Reloads, Reload(r) PROVE UNCHANGED cVars
    BY <1>3 DEF Reload, ReloadCheck, ReloadBegin, ReloadStarted, ReloadFail, ReloadSwap,
                SwapFor, ReloadStopped, ReloadDiscard, ReloadDiscarded
  <1>4. ASSUME NEW i \in Insts, Cleanup(i) PROVE UNCHANGED cVars
    BY <1>4 DEF Cleanup, CleanupWake, CleanupEnd
  <1> QED BY <1>1, <1>2, <1>3, <1>4 DEF Next

(* Every step keeps requests and their instances together.                  *)
LEMMA GuestStep ==
  ASSUME TypeOK, GuestKnown, [Next]_vars
  PROVE  GuestKnown'
  <1>1. CASE UNCHANGED vars
    BY <1>1 DEF vars, GuestKnown
  <1>2. ASSUME NEW c \in Clients, Request(c) PROVE GuestKnown'
    BY <1>2 DEF Request, Get, RunStart, RunEnd, GuestKnown
  <1>3. CASE Next /\ \A c \in Clients : ~Request(c)
    BY <1>3, OthersKeepRequests DEF GuestKnown
  <1> QED BY <1>1, <1>2, <1>3

------------------------------------------------------------------------------
(* The contract.                                                            *)

(* A step of the contract in which instance i alone changes its life.       *)
LEMMA OneBecomes ==
  ASSUME shutdown = "no", shutdown' = "no", NEW i \in Insts, NEW a, NEW b,
         Lives[i] = a, Lives'[i] = b, \A x \in Insts \ {i} : Lives'[x] = Lives[x],
         UNCHANGED cVars
  PROVE  Contract!Become(i, a, b)
  <1>1. Lives' = [Lives EXCEPT ![i] = b]
    BY DEF Lives
  <1>2. Lives[i] = a /\ at' = at /\ Active' = Active
    BY DEF Lives, Active
  <1> QED BY <1>1, <1>2 DEF Contract!Become

(* A step that the contract does not see.                                   *)
LEMMA NothingBecomes ==
  ASSUME shutdown = "no", shutdown' = "no", \A x \in Insts : Lives'[x] = Lives[x],
         UNCHANGED cVars
  PROVE  UNCHANGED Contract!vars
  <1>1. Lives' = Lives
    BY DEF Lives
  <1>2. Active' = Active /\ at' = at
    BY DEF Active
  <1> QED BY <1>1, <1>2 DEF Contract!vars

(* Nobody serves while the agent has no entry and nobody stops it.          *)
LEMMA NobodyServes ==
  ASSUME TypeOK, Core, shutdown = "no", agent = None, lock \in {"free", "load"}
  PROVE  Contract!Vacant
  <1> HIDE DEF Core, TypeOK
  <1>1. ASSUME NEW i \in Insts PROVE Life(i) \notin {"serving", "leaving"}
    <2>1. agent # i
      OBVIOUS
    <2> QED BY <2>1 DEF Life
  <1> QED BY <1>1 DEF Contract!Vacant, Lives

(* The beginnings of loads and reloads, and failed starts, are not seen.    *)
LEMMA LoadMaps ==
  ASSUME TypeOK, Core, shutdown = "no", Load
  PROVE  [Contract!Next]_Contract!vars
  <1>1. ASSUME NEW i \in Insts, LoadBegin(i)
        PROVE  UNCHANGED Contract!vars
    <2>1. \A x \in Insts : Lives'[x] = Lives[x]
      BY <1>1 DEF LoadBegin, StartBegins, Lives, Life
    <2> QED BY <1>1, <2>1, NothingBecomes DEF LoadBegin
  <1>2. CASE LoadEnd
    <2>1. Lives[subject] = "absent" /\ Lives'[subject] = "serving"
      BY <1>2 DEF LoadEnd, StartEnds, Lives, Life
    <2>2. \A x \in Insts \ {subject} : Lives'[x] = Lives[x]
      BY <1>2 DEF LoadEnd, StartEnds, Lives, Life
    <2>3. Contract!Become(subject, "absent", "serving")
      BY <1>2, <2>1, <2>2, OneBecomes DEF LoadEnd
    <2>4. Contract!Load(subject)
      BY <1>2, <2>3, NobodyServes DEF LoadEnd, Contract!Load
    <2> QED BY <1>2, <2>4 DEF LoadEnd, Contract!Next
  <1>3. CASE LoadFail
    <2>1. \A x \in Insts : Lives'[x] = Lives[x]
      BY <1>3 DEF LoadFail, StartFails, Lives, Life
    <2> QED BY <1>3, <2>1, NothingBecomes DEF LoadFail
  <1> QED BY <1>1, <1>2, <1>3 DEF Load

(* stop_agent takes the serving instance out, and lets nobody in before it  *)
(* is gone.                                                                 *)
LEMMA StopMaps ==
  ASSUME TypeOK, Core, shutdown = "no", StopAgent
  PROVE  [Contract!Next]_Contract!vars
  <1>1. CASE StopBegin
    <2>1. Lives[agent] = "serving" /\ Lives'[agent] = "leaving"
      BY <1>1 DEF StopBegin, StopBegins, Lives, Life
    <2>2. \A x \in Insts \ {agent} : Lives'[x] = Lives[x]
      BY <1>1 DEF StopBegin, StopBegins, Lives, Life
    <2>3. Contract!Stop(agent)
      BY <1>1, <2>1, <2>2, OneBecomes DEF StopBegin, Contract!Stop
    <2> QED BY <1>1, <2>3 DEF StopBegin, Contract!Next
  <1>2. CASE StopEnd
    <2>1. Lives[subject] = "leaving" /\ Lives'[subject] = "gone"
      BY <1>2 DEF StopEnd, StopEnds, Lives, Life
    <2>2. \A x \in Insts \ {subject} : Lives'[x] = Lives[x]
      BY <1>2 DEF StopEnd, StopEnds, Lives, Life
    <2>3. Contract!Go(subject)
      BY <1>2, <2>1, <2>2, OneBecomes DEF StopEnd, Contract!Go
    <2> QED BY <1>2, <2>3 DEF StopEnd, Contract!Next
  <1> QED BY <1>1, <1>2 DEF StopAgent

(* A reload replaces the instance that serves when it takes the lock.       *)
LEMMA SwapMaps ==
  ASSUME TypeOK, Core, shutdown = "no", NEW p \in Reloads, ReloadSwap(p)
  PROVE  Contract!Replace(new[p], agent)
  <1>1. Lives[new[p]] = "ready" /\ Lives[agent] = "serving" /\ new[p] # agent
    BY DEF ReloadSwap, SwapFor, Lives, Life
  <1>2. Lives'[new[p]] = "serving"
    BY DEF ReloadSwap, SwapFor, StopBegins, Return, Lives, Life
  <1>3. Lives'[agent] = IF Busy(agent) THEN "draining" ELSE "stopping"
    <2>1. agent \in Insts /\ agent' # agent /\ lock' = "free"
      BY DEF ReloadSwap, SwapFor
    <2>2. CASE Busy(agent)
      <3>1. inst'[agent] = "started" /\ cleanup'[agent] = "waiting"
        BY <2>1, <2>2 DEF ReloadSwap, SwapFor
      <3> HIDE DEF Core, TypeOK
      <3> QED BY <2>1, <2>2, <3>1 DEF Lives, Life
    <2>3. CASE ~Busy(agent)
      <3>1. inst'[agent] = "stopping" /\ reload'[p] = "stopping" /\ old'[p] = agent
        BY <2>1, <2>3 DEF ReloadSwap, SwapFor, StopBegins
      <3> HIDE DEF Core, TypeOK
      <3> QED BY <2>1, <2>3, <3>1 DEF Lives, Life
    <2> QED BY <2>2, <2>3
  <1>4. \A x \in Insts \ {new[p], agent} : Lives'[x] = Lives[x]
    BY DEF ReloadSwap, SwapFor, StopBegins, Return, Lives, Life
  <1>5. Contract!Occupied(agent) = Busy(agent)
    BY DEF Contract!Occupied, Active, Busy
  <1>6. new[p] \in Insts /\ agent \in Insts /\ UNCHANGED <<cVars, shutdown>>
    BY DEF ReloadSwap, SwapFor
  <1>7. Lives' = [Lives EXCEPT ![new[p]] = "serving",
                               ![agent] = IF Busy(agent) THEN "draining" ELSE "stopping"]
    <2>1. DOMAIN Lives = Insts /\ DOMAIN Lives' = Insts
      BY DEF Lives
    <2> HIDE DEF Core, TypeOK
    <2>2. Lives = [x \in Insts |-> Lives[x]] /\ Lives' = [x \in Insts |-> Lives'[x]]
      BY DEF Lives
    <2> QED BY <1>1, <1>2, <1>3, <1>4, <1>6, <2>1, <2>2
  <1>8. UNCHANGED <<at, Active, shutdown # "no">>
    BY <1>6 DEF Active
  <1> QED BY <1>1, <1>5, <1>6, <1>7, <1>8 DEF Contract!Replace, Lives

(* The other steps of a reload.                                             *)
LEMMA ReloadMaps ==
  ASSUME TypeOK, Core, shutdown = "no", NEW p \in Reloads, Reload(p)
  PROVE  [Contract!Next]_Contract!vars
  <1>1. CASE ReloadCheck(p)
    <2>1. \A x \in Insts : Lives'[x] = Lives[x]
      BY <1>1 DEF ReloadCheck, Return, Lives, Life
    <2> QED BY <1>1, <2>1, NothingBecomes DEF ReloadCheck
  <1>2. CASE ReloadBegin(p)
    <2>1. \A x \in Insts : Lives'[x] = Lives[x]
      BY <1>2 DEF ReloadBegin, StartBegins, Lives, Life
    <2> QED BY <1>2, <2>1, NothingBecomes DEF ReloadBegin
  <1>3. CASE ReloadStarted(p)
    <2>1. Lives[new[p]] = "absent" /\ Lives'[new[p]] = "ready"
      BY <1>3 DEF ReloadStarted, StartEnds, Lives, Life
    <2>2. \A x \in Insts \ {new[p]} : Lives'[x] = Lives[x]
      BY <1>3 DEF ReloadStarted, StartEnds, Lives, Life
    <2>3. Contract!Prepare(new[p])
      BY <1>3, <2>1, <2>2, OneBecomes DEF ReloadStarted, Contract!Prepare
    <2> QED BY <1>3, <2>3 DEF ReloadStarted, Contract!Next
  <1>4. CASE ReloadFail(p)
    <2>1. \A x \in Insts : Lives'[x] = Lives[x]
      BY <1>4 DEF ReloadFail, StartFails, Return, Lives, Life
    <2> QED BY <1>4, <2>1, NothingBecomes DEF ReloadFail
  <1>5. CASE ReloadSwap(p)
    <2>1. new[p] \in Insts /\ agent \in Insts
      BY <1>5 DEF ReloadSwap, SwapFor
    <2> QED BY <1>5, <2>1, SwapMaps DEF Contract!Next
  <1>6. CASE ReloadStopped(p)
    <2>1. Lives[old[p]] = "stopping" /\ Lives'[old[p]] = "gone"
      BY <1>6 DEF ReloadStopped, StopEnds, Return, Lives, Life
    <2>2. \A x \in Insts \ {old[p]} : Lives'[x] = Lives[x]
      BY <1>6 DEF ReloadStopped, StopEnds, Return, Lives, Life
    <2>3. Contract!Go(old[p])
      BY <1>6, <2>1, <2>2, OneBecomes DEF ReloadStopped, Contract!Go
    <2> QED BY <1>6, <2>3 DEF ReloadStopped, Contract!Next
  <1>7. CASE ReloadDiscard(p)
    <2>1. Lives[new[p]] = "ready" /\ Lives'[new[p]] = "leaving"
      BY <1>7 DEF ReloadDiscard, StopBegins, Lives, Life
    <2>2. \A x \in Insts \ {new[p]} : Lives'[x] = Lives[x]
      BY <1>7 DEF ReloadDiscard, StopBegins, Lives, Life
    <2>3. Contract!Become(new[p], "ready", "leaving")
      BY <1>7, <2>1, <2>2, OneBecomes DEF ReloadDiscard
    <2>4. Contract!Discard(new[p])
      BY <1>7, <2>3, NobodyServes DEF ReloadDiscard, Contract!Discard
    <2> QED BY <1>7, <2>4 DEF ReloadDiscard, Contract!Next
  <1>8. CASE ReloadDiscarded(p)
    <2>1. Lives[new[p]] = "leaving" /\ Lives'[new[p]] = "gone"
      BY <1>8 DEF ReloadDiscarded, StopEnds, Return, Lives, Life
    <2>2. \A x \in Insts \ {new[p]} : Lives'[x] = Lives[x]
      BY <1>8 DEF ReloadDiscarded, StopEnds, Return, Lives, Life
    <2>3. Contract!Go(new[p])
      BY <1>8, <2>1, <2>2, OneBecomes DEF ReloadDiscarded, Contract!Go
    <2> QED BY <1>8, <2>3 DEF ReloadDiscarded, Contract!Next
  <1> QED BY <1>1, <1>2, <1>3, <1>4, <1>5, <1>6, <1>7, <1>8 DEF Reload

(* A replaced instance is drained and goes.                                 *)
LEMMA CleanupMaps ==
  ASSUME TypeOK, Core, shutdown = "no", NEW i \in Insts, Cleanup(i)
  PROVE  [Contract!Next]_Contract!vars
  <1>1. ASSUME NEW t \in BOOLEAN, CleanupWake(i, t)
        PROVE  Contract!Drain(i)
    <2>1. Lives[i] = "draining" /\ Lives'[i] = "stopping"
      BY <1>1 DEF CleanupWake, StopBegins, Lives, Life
    <2>2. \A x \in Insts \ {i} : Lives'[x] = Lives[x]
      BY <1>1 DEF CleanupWake, StopBegins, Lives, Life
    <2> QED BY <1>1, <2>1, <2>2, OneBecomes DEF CleanupWake, Contract!Drain
  <1>2. CASE CleanupEnd(i)
    <2>1. Lives[i] = "stopping" /\ Lives'[i] = "gone"
      BY <1>2 DEF CleanupEnd, StopEnds, Lives, Life
    <2>2. \A x \in Insts \ {i} : Lives'[x] = Lives[x]
      BY <1>2 DEF CleanupEnd, StopEnds, Lives, Life
    <2>3. Contract!Go(i)
      BY <1>2, <2>1, <2>2, OneBecomes DEF CleanupEnd, Contract!Go
    <2> QED BY <2>3 DEF Contract!Next
  <1> QED BY <1>1, <1>2 DEF Cleanup, Contract!Next

(* A request enters at the serving instance; at any time its run begins and *)
(* ends.                                                                    *)
LEMMA RequestMaps ==
  ASSUME IInv, NEW c \in Clients, Request(c)
  PROVE  [Contract!Next]_Contract!vars
  <1>1. UNCHANGED <<iVars, lVars, rVars, cleanup, sVars>>
    BY DEF Request, Get, RunStart, RunEnd
  <1>2. \A x \in Insts : Lives'[x] = Lives[x]
    BY <1>1 DEF Lives, Life
  <1>3. UNCHANGED <<Lives, shutdown # "no">>
    BY <1>1, <1>2 DEF Lives
  <1>4. CASE Get(c)
    <2>1. agent \in Insts /\ Lives[agent] = "serving" /\ shutdown = "no"
      BY <1>4 DEF IInv, Get, Lives, Life
    <2>2. Active' = Active
      BY <1>4 DEF Get, Active
    <2>3. at[c] = None
      BY <1>4 DEF IInv, GuestKnown, Get
    <2>4. Contract!Enter(c, agent)
      BY <1>3, <1>4, <2>1, <2>2, <2>3 DEF Get, Contract!Enter
    <2> QED BY <2>1, <2>4 DEF Contract!Next
  <1>5. CASE RunStart(c)
    <2>1. Active' = Active \cup {c} /\ c \notin Active
      BY <1>5 DEF IInv, RunStart, Active
    <2>2. at[c] # None /\ at' = at
      BY <1>5 DEF IInv, GuestKnown, RunStart
    <2>3. Contract!Begin(c)
      BY <1>3, <2>1, <2>2 DEF Contract!Begin
    <2> QED BY <2>3 DEF Contract!Next
  <1>6. CASE RunEnd(c)
    <2>1. Active' = Active \ {c} /\ c \in Active
      BY <1>6 DEF IInv, RunEnd, Active
    <2>2. Contract!Leave(c)
      BY <1>3, <1>6, <2>1 DEF RunEnd, Contract!Leave
    <2> QED BY <2>2 DEF Contract!Next
  <1> QED BY <1>4, <1>5, <1>6 DEF Request

(* What is stopped stays stopped, in every step.                            *)
LEMMA GoneIsGone ==
  ASSUME IInv, [Next]_vars, NEW x \in Insts, inst[x] = "stopped"
  PROVE  inst'[x] = "stopped"
  <1> USE DEF IInv, StartsOwn
  <1>1. CASE UNCHANGED vars
    BY <1>1 DEF vars
  <1>2. CASE StopAll
    BY <1>2 DEF StopAll, StopAllBegin, StopAllStop, StopAllStopped, StopAllEnd,
                StopBegins, StopEnds
  <1>3. ASSUME NEW c \in Clients, Request(c) PROVE inst'[x] = "stopped"
    BY <1>3 DEF Request, Get, RunStart, RunEnd
  <1>4. CASE Load \/ StopAgent
    BY <1>4 DEF Load, LoadBegin, LoadEnd, LoadFail, StopAgent, StopBegin, StopEnd,
                StartBegins, StartEnds, StartFails, StopBegins, StopEnds
  <1>5. ASSUME NEW r \in Reloads, Reload(r) PROVE inst'[x] = "stopped"
    <2>1. CASE ReloadCheck(r) \/ ReloadBegin(r) \/ ReloadStarted(r) \/ ReloadFail(r)
      BY <2>1 DEF ReloadCheck, ReloadBegin, ReloadStarted, ReloadFail, StartBegins,
                  StartEnds, StartFails, Return
    <2>2. CASE ReloadSwap(r) \/ ReloadStopped(r) \/ ReloadDiscard(r) \/ ReloadDiscarded(r)
      BY <2>2 DEF ReloadSwap, SwapFor, ReloadStopped, ReloadDiscard, ReloadDiscarded,
                  StopBegins, StopEnds, Return
    <2> QED BY <1>5, <2>1, <2>2 DEF Reload
  <1>6. ASSUME NEW i \in Insts, Cleanup(i) PROVE inst'[x] = "stopped"
    BY <1>6 DEF Cleanup, CleanupWake, CleanupEnd, StopBegins, StopEnds
  <1> QED BY <1>1, <1>2, <1>3, <1>4, <1>5, <1>6 DEF Next

(* From stop_all on.                                                        *)
LEMMA ShutDownMaps ==
  ASSUME IInv, [Next]_vars, shutdown' # "no", UNCHANGED cVars
  PROVE  Contract!ShutDown
  <1>1. \A x \in Insts : Lives[x] = "gone" => inst[x] = "stopped"
    BY DEF IInv, Lives, Life
  <1>2. \A x \in Insts : inst'[x] = "stopped" => Lives'[x] = "gone"
    BY DEF Lives, Life
  <1>3. \A x \in Insts : Lives[x] = "gone" => Lives'[x] = "gone"
    BY <1>1, <1>2, GoneIsGone
  <1>4. UNCHANGED <<at, Active>>
    BY DEF Active
  <1> QED BY <1>3, <1>4 DEF Contract!ShutDown

(* Every step is a step of the contract or one that it does not see.        *)
LEMMA StepMaps ==
  ASSUME IInv, [Next]_vars
  PROVE  [Contract!Next]_Contract!vars
  <1>1. CASE UNCHANGED vars
    <2>1. Lives' = Lives
      BY <1>1 DEF vars, Lives, Life
    <2> QED BY <1>1, <2>1 DEF vars, Active, Contract!vars
  <1>2. ASSUME NEW c \in Clients, Request(c) PROVE [Contract!Next]_Contract!vars
    BY <1>2, RequestMaps
  <1>3. CASE Next /\ (\A c \in Clients : ~Request(c)) /\ shutdown' # "no"
    BY <1>3, OthersKeepRequests, ShutDownMaps DEF Contract!Next
  <1>4. CASE Next /\ (\A c \in Clients : ~Request(c)) /\ shutdown' = "no"
    <2>1. TypeOK /\ Core /\ shutdown = "no"
      BY <1>4, ShutdownStays DEF IInv
    <2>2. ~StopAll
      BY <1>4, <2>1, ShutdownIsForGood
    <2> HIDE DEF Core, TypeOK
    <2> QED BY <1>4, <2>1, <2>2, LoadMaps, StopMaps, ReloadMaps, CleanupMaps DEF Next
  <1> QED BY <1>1, <1>2, <1>3, <1>4

------------------------------------------------------------------------------

(* The inductive invariant holds of every behaviour.                        *)
THEOREM Invariance == Spec => []IInv
  <1>1. Init => IInv
    <2> SUFFICES ASSUME Init PROVE IInv
      OBVIOUS
    <2>1. TypeOK
      BY DEF Init
    <2>2. Core /\ InHand /\ StartsOwn /\ StopsRun /\ GuestKnown
      BY DEF Init, StartsOwn, StopsRun, GuestKnown
    <2> QED BY <2>1, <2>2 DEF IInv
  <1>2. IInv /\ [Next]_vars => IInv'
    <2> SUFFICES ASSUME IInv, [Next]_vars PROVE IInv'
      OBVIOUS
    <2>1. TypeOK' /\ InHand' /\ StartsOwn' /\ StopsRun' /\ GuestKnown'
      BY TypeStep, OrderStep, GuestStep DEF IInv
    <2>2. CASE shutdown' = "no"
      <3>1. shutdown = "no"
        BY <2>2, ShutdownStays DEF IInv
      <3>2. Core'
        BY <2>2, <3>1, StepKeeps DEF IInv
      <3> QED BY <2>1, <3>2 DEF IInv
    <2>3. CASE shutdown' # "no"
      BY <2>1, <2>3 DEF IInv
    <2> QED BY <2>2, <2>3
  <1> QED BY <1>1, <1>2, PTL DEF Spec

(* Every variable keeps its type.                                           *)
THEOREM TypeCorrect == Spec => []TypeOK
  <1>1. IInv => TypeOK
    BY DEF IInv
  <1> QED BY <1>1, Invariance, PTL

(* Reloads, stops and fresh loads in any order forget no running instance   *)
(* until shutdown (multi_agent_manager.py, reload_agent).                   *)
THEOREM NoInstanceForgotten == Spec => []NoOrphan
  <1>1. IInv => NoOrphan
    BY DEF IInv
  <1> QED BY <1>1, Invariance, PTL

(* get_agent hands out a started instance.                                  *)
THEOREM RegisteredInstancesServe == Spec => []RegisteredServes
  <1>1. IInv => RegisteredServes
    BY DEF IInv
  <1> QED BY <1>1, Invariance, PTL

(* The services that reloads hand on are running where they are used.       *)
THEOREM HandedOnServicesLive == Spec => []ReusableLive
  <1>1. IInv => ReusableLive
    BY DEF IInv
  <1> QED BY <1>1, Invariance, PTL

(* The manager implements AgentService: for any instances, reloads and      *)
(* requests the agent is served by one instance, which reloads replace      *)
(* without a gap, and every other one is used or stopped by somebody        *)
(* (multi_agent_manager.py, reload_agent and _graceful_stop_old_instance).  *)
THEOREM ServiceIsImplemented == Spec => ImplementsAgentService
  <1>1. Init => Contract!Init
    <2> SUFFICES ASSUME Init PROVE Contract!Init
      OBVIOUS
    <2>1. Lives = [i \in Insts |-> "absent"]
      BY DEF Init, Lives, Life
    <2>2. Active = {}
      BY DEF Init, Active
    <2> QED BY <2>1, <2>2 DEF Init, Contract!Init
  <1>2. IInv /\ [Next]_vars => [Contract!Next]_Contract!vars
    BY StepMaps
  <1> QED BY <1>1, <1>2, Invariance, PTL DEF Spec, ImplementsAgentService, Contract!Spec
==============================================================================
