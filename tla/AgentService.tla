----------------------------- MODULE AgentService -----------------------------
(***************************************************************************)
(* What the workspace manager promises to an agent and its requests         *)
(* (app/multi_agent_manager.py), without its lock, its reload calls and its *)
(* cleanup tasks.  At any time at most one instance serves the agent.  A    *)
(* reload puts a ready instance in its place in one step, so that the agent *)
(* is never without one; the replaced instance is stopped, after its runs   *)
(* if it has any.  An agent that was stopped is loaded again only when the  *)
(* instance stopped is gone.  A request is given the serving instance.      *)
(*                                                                         *)
(* Once stop_all has begun, nothing is promised but that what is gone does  *)
(* not come back.                                                           *)
(***************************************************************************)
CONSTANTS
    Insts,
    Clients,
    None

VARIABLES
    life,       \* of each instance
    guest,      \* the instance a request was given, or None
    active,     \* requests whose run has begun
    shut        \* stop_all has begun

vars == <<life, guest, active, shut>>

Init ==
    /\ life = [i \in Insts |-> "absent"]
    /\ guest = [c \in Clients |-> None]
    /\ active = {}
    /\ shut = FALSE

Occupied(i) == \E c \in active : guest[c] = i

(* Nobody serves the agent, and nobody who did is still stopping.           *)
Vacant == \A i \in Insts : life[i] \notin {"serving", "leaving"}

------------------------------------------------------------------------------
(* Instances.                                                               *)

Become(i, from, to) ==
    /\ ~shut /\ life[i] = from
    /\ life' = [life EXCEPT ![i] = to]
    /\ UNCHANGED <<guest, active, shut>>

(* The agent is loaded.                                                     *)
Load(i) == Vacant /\ Become(i, "absent", "serving")

(* The agent is stopped.                                                    *)
Stop(i) == Become(i, "serving", "leaving")

(* A reload has an instance ready ...                                       *)
Prepare(i) == Become(i, "absent", "ready")

(* ... which takes over from the one that serves then ...                   *)
Replace(i, j) ==
    /\ ~shut /\ life[i] = "ready" /\ life[j] = "serving"
    /\ life' = [life EXCEPT ![i] = "serving",
                            ![j] = IF Occupied(j) THEN "draining" ELSE "stopping"]
    /\ UNCHANGED <<guest, active, shut>>

(* ... or leaves when the agent is not there any more.                      *)
Discard(i) == Vacant /\ Become(i, "ready", "leaving")

(* The runs of a replaced instance are over, or their time is.              *)
Drain(i) == Become(i, "draining", "stopping")

Go(i) == Become(i, "stopping", "gone") \/ Become(i, "leaving", "gone")

------------------------------------------------------------------------------
(* Requests.                                                                *)

Enter(c, i) ==
    /\ ~shut /\ guest[c] = None /\ life[i] = "serving"
    /\ guest' = [guest EXCEPT ![c] = i]
    /\ UNCHANGED <<life, active, shut>>

Begin(c) ==
    /\ guest[c] # None /\ c \notin active
    /\ active' = active \cup {c}
    /\ UNCHANGED <<life, guest, shut>>

Leave(c) ==
    /\ c \in active
    /\ guest' = [guest EXCEPT ![c] = None]
    /\ active' = active \ {c}
    /\ UNCHANGED <<life, shut>>

------------------------------------------------------------------------------

ShutDown ==
    /\ shut'
    /\ \A i \in Insts : life[i] = "gone" => life'[i] = "gone"
    /\ UNCHANGED <<guest, active>>

Next ==
    \/ \E i \in Insts :
        \/ Load(i) \/ Stop(i) \/ Prepare(i) \/ Discard(i) \/ Drain(i) \/ Go(i)
        \/ \E j \in Insts : Replace(i, j)
        \/ \E c \in Clients : Enter(c, i)
    \/ \E c \in Clients : Begin(c) \/ Leave(c)
    \/ ShutDown

Spec == Init /\ [][Next]_vars
==============================================================================
