-------------------------- MODULE MultiAgentManager --------------------------
(***************************************************************************)
(* The life of an agent's workspace instances: app/multi_agent_manager.py,  *)
(* with Workspace.start and stop (app/workspace/workspace.py) and the       *)
(* transfer of reusable services (app/workspace/service_manager.py).        *)
(*                                                                         *)
(* One agent: agents share nothing but the manager's lock.  That lock is    *)
(* held across the start of get_agent, the stop of stop_agent and the stop  *)
(* of a discarded reload; reload_agent starts its instance without it and   *)
(* takes it three times for a moment, and stop_all never takes it.          *)
(*                                                                         *)
(* The reusable services of an instance (memory and chat manager) are one   *)
(* component, named by the instance that created it and handed on by        *)
(* reloads.  A run of a client is what the tracker of the instance knows.   *)
(***************************************************************************)
EXTENDS Naturals

CONSTANTS
    Insts,      \* pool of workspace instances
    Reloads,    \* pool of reload_agent calls
    Clients,    \* requests that run the agent
    None

ASSUME NoneAssumption == None \notin Insts

VARIABLES
    agent,      \* agents[agent_id]: the instance serving the agent, or None
    lock,       \* what the manager's lock is held for
    subject,    \* the instance that its holder starts or stops
    inst,       \* life of each instance
    comp,       \* the component an instance uses, or None
    open,       \* components that are running
    reload,     \* where each reload_agent call stands
    new,        \* the instance it started
    old,        \* its old_instance: the one registered when it last looked
    cleanup,    \* the delayed cleanup task of a replaced instance
    client,     \* where each request stands
    at,         \* the instance it was given
    shutdown,   \* progress of stop_all
    last,       \* the instance stop_all stops
    restarted   \* a stop_agent ended while a reload had a component in hand

lVars == <<lock, subject>>
iVars == <<agent, inst, comp, open>>
rVars == <<reload, new, old>>
cVars == <<client, at>>
sVars == <<shutdown, last>>
vars == <<iVars, lVars, rVars, cleanup, cVars, sVars, restarted>>

InstOrNone == Insts \cup {None}

TypeOK ==
    /\ agent \in InstOrNone /\ subject \in InstOrNone /\ last \in InstOrNone
    /\ lock \in {"free", "load", "stop", "discard"}
    /\ inst \in [Insts -> {"unused", "created", "starting", "failed", "started",
                        "stopping", "stopped"}]
    /\ comp \in [Insts -> InstOrNone]
    /\ open \in SUBSET Insts
    /\ reload \in [Reloads -> {"idle", "checked", "starting", "swap", "discarding",
                               "stopping", "done"}]
    /\ new \in [Reloads -> InstOrNone] /\ old \in [Reloads -> InstOrNone]
    /\ cleanup \in [Insts -> {"none", "waiting", "stopping", "done", "cancelled"}]
    /\ client \in [Clients -> {"idle", "holding", "running"}]
    /\ at \in [Clients -> InstOrNone]
    /\ shutdown \in {"no", "begun", "stopping", "clearing", "over"}
    /\ restarted \in BOOLEAN

Init ==
    /\ agent = None /\ lock = "free" /\ subject = None
    /\ inst = [i \in Insts |-> "unused"]
    /\ comp = [i \in Insts |-> None]
    /\ open = {}
    /\ reload = [r \in Reloads |-> "idle"]
    /\ new = [r \in Reloads |-> None] /\ old = [r \in Reloads |-> None]
    /\ cleanup = [i \in Insts |-> "none"]
    /\ client = [c \in Clients |-> "idle"] /\ at = [c \in Clients |-> None]
    /\ shutdown = "no" /\ last = None
    /\ restarted = FALSE

(* tracker.has_active_tasks                                                 *)
Busy(i) == \E c \in Clients : client[c] = "running" /\ at[c] = i

(* Call r has started an instance, or starts it, that nobody else knows.     *)
UnderWay(r) == reload[r] \in {"starting", "swap"}

------------------------------------------------------------------------------
(* Workspace.start and Workspace.stop.                                      *)

(* A new instance begins to start, with the component x of another one, or  *)
(* with one of its own.                                                     *)
StartBegins(i, x) ==
    /\ inst' = [inst EXCEPT ![i] = "starting"]
    /\ comp' = [comp EXCEPT ![i] = IF x = None THEN i ELSE x]

(* Start ends; a component of its own is running by then.                   *)
StartEnds(i) ==
    /\ inst' = [inst EXCEPT ![i] = "started"]
    /\ open' = IF comp[i] = i THEN open \cup {i} ELSE open

(* Start raises or is cancelled.  The stop() it calls finds _started unset  *)
(* and returns: what was started stays.                                     *)
StartFails(i) ==
    /\ inst' = [inst EXCEPT ![i] = "failed"]
    /\ open' \in IF comp[i] = i THEN {open, open \cup {i}} ELSE {open}

(* Stop returns at once when the instance is not started.                   *)
StopBegins(i) ==
    inst' = [inst EXCEPT ![i] = IF @ = "started" THEN "stopping" ELSE @]

(* stop(final=True) stops the component, whoever created it.                *)
StopEnds(i, final) ==
    /\ inst' = [inst EXCEPT ![i] = "stopped"]
    /\ open' = IF final THEN open \ {comp[i]} ELSE open

------------------------------------------------------------------------------
(* get_agent.                                                               *)

(* The agent is loaded.                                                     *)
Get(c) ==
    /\ client[c] = "idle" /\ lock = "free" /\ agent # None /\ shutdown = "no"
    /\ client' = [client EXCEPT ![c] = "holding"]
    /\ at' = [at EXCEPT ![c] = agent]
    /\ UNCHANGED <<iVars, lVars, rVars, cleanup, sVars, restarted>>

(* It is not: start an instance under the lock.                             *)
LoadBegin(i) ==
    /\ lock = "free" /\ agent = None /\ shutdown = "no" /\ inst[i] = "unused"
    /\ lock' = "load" /\ subject' = i
    /\ StartBegins(i, None)
    /\ UNCHANGED <<agent, open, rVars, cleanup, cVars, sVars, restarted>>

LoadEnd ==
    /\ lock = "load"
    /\ StartEnds(subject)
    /\ agent' = subject
    /\ lock' = "free" /\ subject' = None
    /\ UNCHANGED <<comp, rVars, cleanup, cVars, sVars, restarted>>

(* Mutant of LoadFail: an instance that did not start is in an unknown state. *)
LoadFailUnknownState ==
    /\ lock = "load"
    /\ inst' = [inst EXCEPT ![subject] = "broken"]
    /\ lock' = "free" /\ subject' = None
    /\ UNCHANGED <<agent, comp, open, rVars, cleanup, cVars, sVars, restarted>>

LoadFail ==
    /\ lock = "load"
    /\ StartFails(subject)
    /\ lock' = "free" /\ subject' = None
    /\ UNCHANGED <<agent, comp, rVars, cleanup, cVars, sVars, restarted>>

------------------------------------------------------------------------------
(* stop_agent.                                                              *)

StopBegin ==
    /\ lock = "free" /\ agent # None /\ shutdown = "no"
    /\ lock' = "stop" /\ subject' = agent
    /\ StopBegins(agent)
    /\ UNCHANGED <<agent, comp, open, rVars, cleanup, cVars, sVars, restarted>>

StopEnd ==
    /\ lock = "stop"
    /\ StopEnds(subject, TRUE)
    /\ agent' = None
    /\ lock' = "free" /\ subject' = None
    /\ restarted' = (restarted \/ \E r \in Reloads : UnderWay(r))
    /\ UNCHANGED <<comp, rVars, cleanup, cVars, sVars>>

------------------------------------------------------------------------------
(* reload_agent.                                                            *)

(* The call returns, and its variables are gone.                            *)
Return(r) ==
    /\ reload' = [reload EXCEPT ![r] = "done"]
    /\ new' = [new EXCEPT ![r] = None]
    /\ old' = [old EXCEPT ![r] = None]

(* Steps 1 to 3: the agent is running; create an instance, unless the agent  *)
(* has left the configuration.                                              *)
ReloadCheck(r) ==
    /\ reload[r] = "idle" /\ lock = "free" /\ agent # None /\ shutdown = "no"
    /\ \/ /\ Return(r)
          /\ UNCHANGED inst
       \/ \E i \in Insts :
             /\ inst[i] = "unused"
             /\ inst' = [inst EXCEPT ![i] = "created"]
             /\ new' = [new EXCEPT ![r] = i] /\ old' = [old EXCEPT ![r] = agent]
             /\ reload' = [reload EXCEPT ![r] = "checked"]
    /\ UNCHANGED <<agent, comp, open, lVars, cleanup, cVars, sVars, restarted>>

(* Step 3.5: look at the agent again for a component to take over, and       *)
(* begin to start the new instance.                                         *)
ReloadBegin(r) ==
    /\ reload[r] = "checked" /\ lock = "free"
    /\ reload' = [reload EXCEPT ![r] = "starting"]
    /\ old' = [old EXCEPT ![r] = agent]
    /\ StartBegins(new[r], IF agent = None THEN None ELSE comp[agent])
    /\ UNCHANGED <<agent, open, lVars, new, cleanup, cVars, sVars, restarted>>

ReloadStarted(r) ==
    /\ reload[r] = "starting"
    /\ StartEnds(new[r])
    /\ reload' = [reload EXCEPT ![r] = "swap"]
    /\ UNCHANGED <<agent, comp, lVars, new, old, cleanup, cVars, sVars, restarted>>

ReloadFail(r) ==
    /\ reload[r] = "starting"
    /\ StartFails(new[r])
    /\ Return(r)
    /\ UNCHANGED <<agent, comp, lVars, cleanup, cVars, sVars, restarted>>

(* Steps 4 and 5: swap, and look at the tracker of the replaced instance,    *)
(* which follows without an await that suspends.                            *)
SwapFor(r, replaced) ==
    /\ reload[r] = "swap" /\ lock = "free" /\ agent # None
    /\ agent' = new[r]
    /\ \/ /\ Busy(replaced)
          /\ cleanup' = [cleanup EXCEPT ![replaced] = "waiting"]
          /\ Return(r)
          /\ UNCHANGED inst
       \/ /\ ~Busy(replaced)
          /\ StopBegins(replaced)
          /\ reload' = [reload EXCEPT ![r] = "stopping"]
          /\ old' = [old EXCEPT ![r] = replaced]
          /\ UNCHANGED <<new, cleanup>>
    /\ UNCHANGED <<comp, open, lVars, cVars, sVars, restarted>>

(* Mutant of ReloadSwap: stop the instance seen in step 3.5.                *)
ReloadSwapStale(r) == SwapFor(r, old[r])

ReloadSwap(r) == SwapFor(r, agent)

(* Mutant of ReloadStopped: stop the reusable services as well.             *)
ReloadStoppedFinal(r) ==
    /\ reload[r] = "stopping"
    /\ StopEnds(old[r], TRUE)
    /\ Return(r)
    /\ UNCHANGED <<agent, comp, lVars, cleanup, cVars, sVars, restarted>>

ReloadStopped(r) ==
    /\ reload[r] = "stopping"
    /\ StopEnds(old[r], FALSE)
    /\ Return(r)
    /\ UNCHANGED <<agent, comp, lVars, cleanup, cVars, sVars, restarted>>

(* The agent was removed meanwhile: stop the new instance under the lock.   *)
ReloadDiscard(r) ==
    /\ reload[r] = "swap" /\ lock = "free" /\ agent = None
    /\ lock' = "discard" /\ subject' = new[r]
    /\ StopBegins(new[r])
    /\ reload' = [reload EXCEPT ![r] = "discarding"]
    /\ UNCHANGED <<agent, comp, open, new, old, cleanup, cVars, sVars, restarted>>

(* Mutant of ReloadDiscarded: take the lock again to stop the instance.     *)
ReloadDiscardedRelocks(r) ==
    /\ reload[r] = "discarding" /\ lock = "free"
    /\ StopEnds(new[r], TRUE)
    /\ Return(r)
    /\ UNCHANGED <<agent, comp, lVars, cleanup, cVars, sVars, restarted>>

ReloadDiscarded(r) ==
    /\ reload[r] = "discarding"
    /\ StopEnds(new[r], TRUE)
    /\ lock' = "free" /\ subject' = None
    /\ Return(r)
    /\ UNCHANGED <<agent, comp, cleanup, cVars, sVars, restarted>>

------------------------------------------------------------------------------
(* The delayed cleanup of a replaced instance.                              *)

(* Mutant of CleanupWake: wait without a timeout.                           *)
CleanupWakePatient(i, timeout) ==
    /\ cleanup[i] = "waiting" /\ ~Busy(i)
    /\ cleanup' = [cleanup EXCEPT ![i] = "stopping"]
    /\ StopBegins(i)
    /\ UNCHANGED <<agent, comp, open, lVars, rVars, cVars, sVars, restarted>>

(* wait_all_done returns: no run is left, or its minute is over.            *)
CleanupWake(i, timeout) ==
    /\ cleanup[i] = "waiting" /\ (timeout \/ ~Busy(i))
    /\ cleanup' = [cleanup EXCEPT ![i] = "stopping"]
    /\ StopBegins(i)
    /\ UNCHANGED <<agent, comp, open, lVars, rVars, cVars, sVars, restarted>>

CleanupEnd(i) ==
    /\ cleanup[i] = "stopping"
    /\ cleanup' = [cleanup EXCEPT ![i] = "done"]
    /\ StopEnds(i, FALSE)
    /\ UNCHANGED <<agent, comp, lVars, rVars, cVars, sVars, restarted>>

------------------------------------------------------------------------------
(* Requests.                                                                *)

(* The request starts its run, some awaits after it was given the instance. *)
RunStart(c) ==
    /\ client[c] = "holding"
    /\ client' = [client EXCEPT ![c] = "running"]
    /\ UNCHANGED <<iVars, lVars, rVars, cleanup, at, sVars, restarted>>

RunEnd(c) ==
    /\ client[c] = "running"
    /\ client' = [client EXCEPT ![c] = "idle"]
    /\ at' = [at EXCEPT ![c] = None]
    /\ UNCHANGED <<iVars, lVars, rVars, cleanup, sVars, restarted>>

------------------------------------------------------------------------------
(* stop_all, once no more requests come in.                                 *)

(* Cancel the delayed cleanups, in whatever await they are.                 *)
StopAllBegin ==
    /\ shutdown = "no"
    /\ shutdown' = "begun"
    /\ cleanup' = [i \in Insts |-> IF cleanup[i] \in {"waiting", "stopping"}
                                   THEN "cancelled" ELSE cleanup[i]]
    /\ UNCHANGED <<iVars, lVars, rVars, cVars, last, restarted>>

(* Stop the instance the agent has now.                                     *)
StopAllStop ==
    /\ shutdown = "begun" /\ agent # None
    /\ shutdown' = "stopping" /\ last' = agent
    /\ StopBegins(agent)
    /\ UNCHANGED <<agent, comp, open, lVars, rVars, cleanup, cVars, restarted>>

StopAllStopped ==
    /\ shutdown = "stopping"
    /\ StopEnds(last, TRUE)
    /\ shutdown' = "clearing" /\ last' = None
    /\ UNCHANGED <<agent, comp, lVars, rVars, cleanup, cVars, restarted>>

(* Other agents have been stopped; forget all of them.                      *)
StopAllEnd ==
    /\ shutdown = "clearing" \/ (shutdown = "begun" /\ agent = None)
    /\ shutdown' = "over"
    /\ agent' = None
    /\ UNCHANGED <<inst, comp, open, lVars, rVars, cleanup, cVars, last, restarted>>

------------------------------------------------------------------------------

Request(c) == Get(c) \/ RunStart(c) \/ RunEnd(c)

Load == (\E i \in Insts : LoadBegin(i)) \/ LoadEnd \/ LoadFail

StopAgent == StopBegin \/ StopEnd

Reload(r) ==
    \/ ReloadCheck(r) \/ ReloadBegin(r)
    \/ ReloadStarted(r) \/ ReloadFail(r)
    \/ ReloadSwap(r) \/ ReloadStopped(r)
    \/ ReloadDiscard(r) \/ ReloadDiscarded(r)

Cleanup(i) ==
    \/ \E timeout \in BOOLEAN : CleanupWake(i, timeout)
    \/ CleanupEnd(i)

StopAll == StopAllBegin \/ StopAllStop \/ StopAllStopped \/ StopAllEnd

Next ==
    \/ \E c \in Clients : Request(c)
    \/ Load \/ StopAgent
    \/ \E r \in Reloads : Reload(r)
    \/ \E i \in Insts : Cleanup(i)
    \/ StopAll

Spec == Init /\ [][Next]_vars

(* Starting and stopping end; the lock is first come, first served; a       *)
(* delayed cleanup wakes after a minute at the latest.                      *)
Fairness ==
    /\ WF_vars(LoadEnd \/ LoadFail) /\ WF_vars(StopEnd)
    /\ \A r \in Reloads :
          /\ SF_vars(ReloadBegin(r)) /\ WF_vars(ReloadStarted(r) \/ ReloadFail(r))
          /\ SF_vars(ReloadSwap(r) \/ ReloadDiscard(r))
          /\ WF_vars(ReloadStopped(r)) /\ WF_vars(ReloadDiscarded(r))
    /\ \A i \in Insts : WF_vars(Cleanup(i))

FairSpec == Spec /\ Fairness

------------------------------------------------------------------------------
(* Properties.                                                              *)

(* Somebody will stop instance i, or it serves the agent.                   *)
Owned(i) ==
    \/ agent = i
    \/ lock \in {"stop", "discard"} /\ subject = i
    \/ \E r \in Reloads : \/ reload[r] = "swap" /\ new[r] = i
                          \/ reload[r] = "stopping" /\ old[r] = i
    \/ cleanup[i] \in {"waiting", "stopping"}

(* Until shutdown no running instance is forgotten: reloads, stops and fresh *)
(* loads in any order leave each one either serving the agent or in the      *)
(* hands of somebody who stops it (old_instance read again at the swap,      *)
(* multi_agent_manager.py:618; delayed cleanup, 444).                        *)
NoOrphan ==
    shutdown = "no" =>
        \A i \in Insts : inst[i] \in {"started", "stopping"} => Owned(i)

(* get_agent returns a started instance: what is in the dictionary runs,     *)
(* except while the one who stops it holds the lock.                         *)
RegisteredServes ==
    agent # None /\ lock # "stop" /\ shutdown = "no" => inst[agent] = "started"

(* The memory and chat manager that reloads hand on are running in the       *)
(* instance that serves the agent, unless the agent was stopped while a      *)
(* reload had them in hand (service_manager.py, stop with final=False).      *)
ReusableLive ==
    /\ agent # None /\ lock # "stop" /\ shutdown = "no"
    /\ ~restarted
    => comp[agent] \in open

(* Every reload ends, however it meets other reloads and stop_agent at the   *)
(* lock.                                                                    *)
ReloadEnds == \A r \in Reloads : reload[r] = "checked" ~> reload[r] = "done"

(* An instance that was replaced under a run is stopped, after a minute at   *)
(* the latest, unless the program shuts down.                               *)
ReplacedStops ==
    \A i \in Insts :
        cleanup[i] = "waiting" ~> inst[i] = "stopped" \/ shutdown # "no"

------------------------------------------------------------------------------
(* The contract.                                                            *)

(* An instance that runs and that nobody uses or stops is lost.             *)
Life(i) ==
    CASE inst[i] \in {"unused", "created", "starting", "failed"} -> "absent"
      [] inst[i] = "started" /\ agent = i -> "serving"
      [] inst[i] = "started" /\ agent # i /\ cleanup[i] = "waiting" -> "draining"
      [] inst[i] = "started" /\ agent # i /\ cleanup[i] # "waiting"
            /\ (\E r \in Reloads : reload[r] = "swap" /\ new[r] = i) -> "ready"
      [] inst[i] = "stopping" /\ lock \in {"stop", "discard"} /\ subject = i -> "leaving"
      [] inst[i] = "stopping" /\ ~(lock \in {"stop", "discard"} /\ subject = i)
            /\ (\/ cleanup[i] = "stopping"
                \/ \E r \in Reloads : reload[r] = "stopping" /\ old[r] = i) -> "stopping"
      [] inst[i] = "stopped" -> "gone"
      [] OTHER -> "lost"

Lives == [i \in Insts |-> Life(i)]

Active == {c \in Clients : client[c] = "running"}

Contract == INSTANCE AgentService WITH
    life <- Lives, guest <- at, active <- Active, shut <- shutdown # "no"

(* Reloads, stops, fresh loads and delayed cleanups, however they meet at   *)
(* the lock and outside it, leave the agent with one instance, which a      *)
(* reload replaces without a gap and which requests are given only while it *)
(* is started; every other instance is in the hands of one who will use it  *)
(* or stop it, at once if nothing runs on it; and none is started again.    *)
ImplementsAgentService == Contract!Spec
==============================================================================
