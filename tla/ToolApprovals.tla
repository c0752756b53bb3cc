---------------------------- MODULE ToolApprovals ----------------------------
(***************************************************************************)
(* Approvals of tool calls: app/approvals/service.py, the guard in          *)
(* agents/tool_guard_mixin.py that blocks calls and uses approvals up, and  *)
(* the part of app/runner/runner.py that answers a request with a message   *)
(* of the user and replays the call that was approved.                      *)
(*                                                                         *)
(* The service awaits nothing under its lock and the guard nothing between  *)
(* its decision and the new request, so each of them is one step; turns of  *)
(* the agent interleave between their reasoning, their calls and the runs   *)
(* of tools.  A pooled agent carries the guard's attributes from one turn   *)
(* to the next one, of whichever session.                                   *)
(*                                                                         *)
(* Ages and the caps on the service's dictionaries are not counted: a       *)
(* request or an approval may be too old, or one too many, whenever the     *)
(* code looks.                                                              *)
(***************************************************************************)
EXTENDS Integers, Sequences

CONSTANTS
    Sessions,
    Turns,          \* pool of turns (query_handler), each used once
    Calls,          \* pool of the tool calls a model may make
    Tool, Input,    \* what a call calls
    Guarded,        \* tools in the guard's scope
    Denied,         \* tools that are never run
    Flagged,        \* calls in which the guardians find something
    MaxBatch,       \* calls in one message of the model
    MaxRequests,    \* approval requests in a behaviour
    NoSession, NoQueue, NoAgent

Signature(c) == <<Tool[c], Input[c]>>
Signatures == {Signature(c) : c \in Calls}

ASSUME CallsAssumption ==
    /\ Calls \subseteq DOMAIN Tool \cap DOMAIN Input
    /\ Flagged \subseteq Calls
    /\ \A c, d \in Calls :
          Signature(c) = Signature(d) => (c \in Flagged <=> d \in Flagged)
ASSUME BoundsAssumption == MaxBatch \in Nat /\ MaxRequests \in Nat
ASSUME NullsAssumption ==
    /\ NoSession \notin Sessions /\ NoQueue \notin Seq(Calls)
    /\ NoAgent \notin [queue : Seq(Calls) \cup {NoQueue}, active : BOOLEAN,
                       done : Seq(Calls)]

VARIABLES
    requests,   \* _pending and _completed, in order of creation
    pool,       \* the guard's attributes of the pooled agent
    saved,      \* session files: calls with results, calls marked denied
    pc,         \* where the turn stands
    session,    \* the session it serves
    forced,     \* forced_tool_call_json: the approved call, then its queue
    todo,       \* calls of the last message that have not been acted on
    queue,      \* _tool_guard_replay_queue
    active,     \* _tool_guard_forced_replay_active
    done,       \* remaining_queue of _tool_guard_replay_done, or empty
    results,    \* the agent's memory: calls with a result
    marked,     \* the agent's memory: calls denied and marked so
    blocked,    \* the last message of the memory is a denied result
    origin,     \* history: the session in which the model made the call
    balance     \* history: approvals given less flagged calls run

serviceVars == <<requests, balance>>
guardVars == <<queue, active, done>>
memoryVars == <<results, marked, blocked>>
vars == <<serviceVars, pool, saved, pc, session, forced, todo, guardVars,
          memoryVars, origin>>

Queue == Seq(Calls) \cup {NoQueue}
Guard == [queue : Queue, active : BOOLEAN, done : Seq(Calls)]
Memory == [results : SUBSET Calls, marked : SUBSET Calls]
Request == [session : Sessions, call : Calls, queue : Seq(Calls),
            status : {"pending", "approved", "closed"}]
PC == {"idle", "denied", "starting", "reasoning", "acting", "executing",
       "ending", "done"}

TypeOK ==
    /\ requests \in Seq(Request)
    /\ pool \in Guard \cup {NoAgent}
    /\ saved \in [Sessions -> Memory]
    /\ pc \in [Turns -> PC]
    /\ session \in [Turns -> Sessions \cup {NoSession}]
    /\ \A t \in Turns : pc[t] \notin {"idle", "done"} => session[t] \in Sessions
    /\ forced \in [Turns -> Seq(Calls)]
    /\ todo \in [Turns -> Seq(Calls)]
    /\ \A t \in Turns : pc[t] \in {"acting", "executing"} => todo[t] # <<>>
    /\ queue \in [Turns -> Queue]
    /\ active \in [Turns -> BOOLEAN]
    /\ done \in [Turns -> Seq(Calls)]
    /\ results \in [Turns -> SUBSET Calls]
    /\ marked \in [Turns -> SUBSET Calls]
    /\ blocked \in [Turns -> BOOLEAN]
    /\ origin \in [Calls -> Sessions \cup {NoSession}]
    /\ balance \in [Sessions \X Signatures -> Int]

Init ==
    /\ requests = <<>>
    /\ pool = NoAgent
    /\ saved = [s \in Sessions |-> [results |-> {}, marked |-> {}]]
    /\ pc = [t \in Turns |-> "idle"]
    /\ session = [t \in Turns |-> NoSession]
    /\ forced = [t \in Turns |-> <<>>]
    /\ todo = [t \in Turns |-> <<>>]
    /\ queue = [t \in Turns |-> NoQueue]
    /\ active = [t \in Turns |-> FALSE]
    /\ done = [t \in Turns |-> <<>>]
    /\ results = [t \in Turns |-> {}]
    /\ marked = [t \in Turns |-> {}]
    /\ blocked = [t \in Turns |-> FALSE]
    /\ origin = [c \in Calls |-> NoSession]
    /\ balance = [x \in Sessions \X Signatures |-> 0]

--------------------------------------------------------------------------
(* ApprovalService *)

HasStatus(st) == {r \in DOMAIN requests : requests[r].status = st}
Pending(s) == {r \in HasStatus("pending") : requests[r].session = s}
Oldest(S) == {r \in S : \A q \in S : r <= q}

Closed(R) ==
    [r \in DOMAIN requests |->
        IF r \in R THEN [requests[r] EXCEPT !.status = "closed"] ELSE requests[r]]

(* resolve_request, with the collection of completed approvals.            *)
Resolve(r, st) ==
    \E lost \in SUBSET HasStatus("approved") :
        LET kept == Closed(lost) IN requests' = [kept EXCEPT ![r].status = st]

(* get_pending_by_session and resolve_request of the runner: the oldest     *)
(* request is approved by "approve"; by anything else, or too late, it is   *)
(* denied, and the message goes no further.                                *)
Answer(t, r) ==
    \/ /\ Resolve(r, "approved")
       /\ LET s == requests[r].session
              g == Signature(requests[r].call)
          IN  balance' = [balance EXCEPT ![<<s, g>>] = @ + 1]
       /\ forced' = [forced EXCEPT ![t] = <<requests[r].call>> \o requests[r].queue]
       /\ pc' = [pc EXCEPT ![t] = "starting"]
    \/ /\ Resolve(r, "closed")
       /\ pc' = [pc EXCEPT ![t] = "denied"]
       /\ UNCHANGED <<balance, forced>>

Receive(t, s) ==
    /\ pc[t] = "idle"
    /\ session' = [session EXCEPT ![t] = s]
    /\ \/ \E r \in Oldest(Pending(s)) : Answer(t, r)
       \/ /\ Pending(s) = {}
          /\ pc' = [pc EXCEPT ![t] = "starting"]
          /\ UNCHANGED <<requests, balance, forced>>
    /\ UNCHANGED <<pool, saved, todo, guardVars, memoryVars, origin>>

(* _cleanup_denied_session_memory: the marks go, the results stay.         *)
CleanDenied(t) ==
    /\ pc[t] = "denied"
    /\ saved' = [saved EXCEPT ![session[t]] =
                    [results |-> @.results \cup @.marked, marked |-> {}]]
    /\ pc' = [pc EXCEPT ![t] = "done"]
    /\ session' = [session EXCEPT ![t] = NoSession]
    /\ UNCHANGED <<serviceVars, pool, forced, todo, guardVars, memoryVars, origin>>

--------------------------------------------------------------------------
(* A turn of the agent *)

NewAgent == [queue |-> NoQueue, active |-> FALSE, done |-> <<>>]

(* The pooled agent, or a new one if none is there or it is too old, with   *)
(* the session's memory.                                                   *)
Begin(t) ==
    /\ pc[t] = "starting"
    /\ pc' = [pc EXCEPT ![t] = "reasoning"]
    /\ \E agent \in {NewAgent, pool} \ {NoAgent} :
          /\ queue' = [queue EXCEPT ![t] = agent.queue]
          /\ active' = [active EXCEPT ![t] = agent.active]
          /\ done' = [done EXCEPT ![t] = agent.done]
    /\ pool' = NoAgent
    /\ results' = [results EXCEPT ![t] = saved[session[t]].results]
    /\ marked' = [marked EXCEPT ![t] = saved[session[t]].marked]
    /\ blocked' = [blocked EXCEPT ![t] = FALSE]
    /\ UNCHANGED <<serviceVars, saved, session, forced, todo, origin>>

(* A replayed call is the whole of the message.                            *)
Replay(t, c, rest) ==
    /\ todo' = [todo EXCEPT ![t] = <<c>>]
    /\ queue' = [queue EXCEPT ![t] = rest]
    /\ active' = [active EXCEPT ![t] = TRUE]
    /\ pc' = [pc EXCEPT ![t] = "acting"]

(* The queue that the last replay left, without calls that have results:   *)
(* a set of one sequence, the waiting calls in their order.                *)
Left(t) ==
    LET waiting == {i \in DOMAIN done[t] : done[t][i] \notin results[t]}
        picks == UNION {[1..n -> waiting] : n \in 0..Len(done[t])}
        Ordered(f) ==
            /\ \A i, j \in DOMAIN f : i < j => f[i] < f[j]
            /\ \A w \in waiting : \E i \in DOMAIN f : f[i] = w
    IN  {[i \in DOMAIN f |-> done[t][f[i]]] : f \in {p \in picks : Ordered(p)}}

(* A wait for the user once a call is blocked, an answer of the model, or  *)
(* its message of new calls.                                               *)
Consult(t) ==
    \/ /\ pc' = [pc EXCEPT ![t] = "ending"]
       /\ UNCHANGED <<todo, origin>>
    \/ /\ ~blocked[t]
       /\ \E n \in 1..MaxBatch : \E batch \in [1..n -> Calls] :
             /\ \A i, j \in 1..n : batch[i] = batch[j] => i = j
             /\ \A i \in 1..n : origin[batch[i]] = NoSession
             /\ todo' = [todo EXCEPT ![t] = batch]
             /\ origin' = [c \in Calls |-> IF \E i \in 1..n : batch[i] = c
                                           THEN session[t] ELSE origin[c]]
       /\ pc' = [pc EXCEPT ![t] = "acting"]

(* _reasoning: the next of the queue, else the approved call, else a wait  *)
(* for the user or the model.                                              *)
Reason(t) ==
    /\ pc[t] = "reasoning"
    /\ done' = [done EXCEPT ![t] = <<>>]
    /\ \/ /\ \E left \in Left(t) : left # <<>> /\ Replay(t, Head(left), Tail(left))
          /\ UNCHANGED <<forced, origin>>
       \/ /\ <<>> \in Left(t) /\ forced[t] # <<>>
          /\ Replay(t, Head(forced[t]), Tail(forced[t]))
          /\ forced' = [forced EXCEPT ![t] = <<>>]
          /\ UNCHANGED origin
       \/ /\ <<>> \in Left(t) /\ forced[t] = <<>>
          /\ Consult(t)
          /\ UNCHANGED <<queue, active, forced>>
    /\ UNCHANGED <<serviceVars, pool, saved, session, memoryVars>>

(* Mutant of Proceed: back to the message when it is done.                  *)
ProceedActing(t) ==
    /\ todo' = [todo EXCEPT ![t] = Tail(@)]
    /\ pc' = [pc EXCEPT ![t] = "acting"]

(* The next call of the message, or the model again.                       *)
Proceed(t) ==
    /\ todo' = [todo EXCEPT ![t] = Tail(@)]
    /\ pc' = [pc EXCEPT ![t] = IF Tail(todo[t]) = <<>> THEN "reasoning" ELSE "acting"]

--------------------------------------------------------------------------
(* The guard: _acting *)

Acting(t, c) == pc[t] = "acting" /\ c = Head(todo[t])

(* consume_approval: the first approval of the tool in the session goes,   *)
(* whether its parameters are the call's or not.                           *)
Usable(t, c) ==
    {r \in HasStatus("approved") :
        requests[r].session = session[t] /\ Tool[requests[r].call] = Tool[c]}
Consumed(t, c) == IF Tool[c] \in Guarded THEN Oldest(Usable(t, c)) ELSE {}
Approved(t, c) == \E r \in Consumed(t, c) : Input[requests[r].call] = Input[c]

AutoDeny(t, c) ==
    /\ Acting(t, c) /\ Tool[c] \in Denied
    /\ results' = [results EXCEPT ![t] = @ \cup {c}]
    /\ blocked' = [blocked EXCEPT ![t] = FALSE]
    /\ Proceed(t)
    /\ UNCHANGED <<serviceVars, pool, saved, session, forced, guardVars, marked,
                   origin>>

Charge(t, c) ==
    balance' = IF c \in Flagged
               THEN [balance EXCEPT ![<<session[t], Signature(c)>>] = @ - 1] ELSE balance

(* Mutant of Used: only an approval with other parameters goes.             *)
UsedKept(t, c) == {r \in Consumed(t, c) : Input[requests[r].call] # Input[c]}

Used(t, c) == Consumed(t, c)

(* Approved, or nothing found: the tool runs.  An approval used up clears  *)
(* the memory of marked messages.                                          *)
Run(t, c) ==
    /\ Acting(t, c) /\ Tool[c] \notin Denied
    /\ Approved(t, c) \/ c \notin Flagged
    /\ requests' = Closed(Used(t, c))
    /\ Charge(t, c)
    /\ marked' = IF Approved(t, c) THEN [marked EXCEPT ![t] = {}] ELSE marked
    /\ pc' = [pc EXCEPT ![t] = "executing"]
    /\ UNCHANGED <<pool, saved, session, forced, todo, guardVars, results, blocked,
                   origin>>

(* Requests of this call and of the calls queued behind it are superseded. *)
Stale(t, c) ==
    {r \in Pending(session[t]) :
        \/ requests[r].call = c
        \/ queue[t] # NoQueue /\ \E i \in DOMAIN queue[t] : requests[r].call = queue[t][i]}

(* _acting_with_approval: the call is blocked and a request is created,    *)
(* with the calls to replay after it; requests too old or too many go.     *)
Block(t, c) ==
    /\ Acting(t, c) /\ Tool[c] \notin Denied
    /\ ~Approved(t, c) /\ c \in Flagged
    /\ Len(requests) < MaxRequests
    /\ \E gone \in SUBSET (HasStatus("pending") \cup HasStatus("approved")) :
          requests' = Append(Closed(Consumed(t, c) \cup Stale(t, c) \cup gone),
                        [session |-> session[t], call |-> c, status |-> "pending",
                         queue |-> IF queue[t] = NoQueue THEN Tail(todo[t]) ELSE queue[t]])
    /\ queue' = [queue EXCEPT ![t] = NoQueue]
    /\ marked' = [marked EXCEPT ![t] = @ \cup {c}]
    /\ blocked' = [blocked EXCEPT ![t] = TRUE]
    /\ Proceed(t)
    /\ UNCHANGED <<balance, pool, saved, session, forced, active, done, results,
                   origin>>

(* The tool's result; a replayed call leaves its queue to _reasoning.      *)
Finish(t) ==
    /\ pc[t] = "executing"
    /\ results' = [results EXCEPT ![t] = @ \cup {Head(todo[t])}]
    /\ blocked' = [blocked EXCEPT ![t] = FALSE]
    /\ active' = [active EXCEPT ![t] = FALSE]
    /\ done' = IF active[t]
               THEN [done EXCEPT ![t] = IF queue[t] = NoQueue THEN <<>> ELSE queue[t]]
               ELSE done
    /\ Proceed(t)
    /\ UNCHANGED <<serviceVars, pool, saved, session, forced, queue, marked, origin>>

(* Stopped, failed, or out of iterations.  An interrupted tool may leave a *)
(* result.                                                                 *)
Interrupt(t) ==
    /\ pc[t] \in {"reasoning", "acting", "executing"}
    /\ pc' = [pc EXCEPT ![t] = "ending"]
    /\ \/ UNCHANGED results
       \/ /\ pc[t] = "executing"
          /\ results' = [results EXCEPT ![t] = @ \cup {Head(todo[t])}]
    /\ todo' = [todo EXCEPT ![t] = <<>>]
    /\ forced' = [forced EXCEPT ![t] = <<>>]
    /\ UNCHANGED <<serviceVars, pool, saved, session, guardVars, marked, blocked,
                   origin>>

(* Stopped or failed before it has an agent.                               *)
Abandon(t) ==
    /\ pc[t] = "starting"
    /\ pc' = [pc EXCEPT ![t] = "done"]
    /\ session' = [session EXCEPT ![t] = NoSession]
    /\ forced' = [forced EXCEPT ![t] = <<>>]
    /\ UNCHANGED <<serviceVars, pool, saved, todo, guardVars, memoryVars, origin>>

(* The finally of query_handler: memory is saved, the agent goes back.     *)
End(t) ==
    /\ pc[t] = "ending"
    /\ saved' = [saved EXCEPT ![session[t]] =
                    [results |-> results[t], marked |-> marked[t]]]
    /\ pool' = [queue |-> queue[t], active |-> active[t], done |-> done[t]]
    /\ pc' = [pc EXCEPT ![t] = "done"]
    /\ queue' = [queue EXCEPT ![t] = NoQueue]
    /\ active' = [active EXCEPT ![t] = FALSE]
    /\ done' = [done EXCEPT ![t] = <<>>]
    /\ session' = [session EXCEPT ![t] = NoSession]
    /\ results' = [results EXCEPT ![t] = {}]
    /\ marked' = [marked EXCEPT ![t] = {}]
    /\ blocked' = [blocked EXCEPT ![t] = FALSE]
    /\ UNCHANGED <<serviceVars, forced, todo, origin>>

--------------------------------------------------------------------------

Act(t) == \E c \in Calls : AutoDeny(t, c) \/ Run(t, c) \/ Block(t, c)

Next ==
    \E t \in Turns :
        \/ \E s \in Sessions : Receive(t, s)
        \/ CleanDenied(t)
        \/ Begin(t)
        \/ Reason(t)
        \/ Act(t)
        \/ Finish(t)
        \/ Interrupt(t)
        \/ Abandon(t)
        \/ End(t)

Spec == Init /\ [][Next]_vars

--------------------------------------------------------------------------
(* A call in which the guard finds something runs no more often, in its    *)
(* session and with its tool and input, than the user has approved it:     *)
(* whatever turns overlap, replays are interrupted or approvals are left   *)
(* over (service.py:217-262, tool_guard_mixin.py:342).                      *)
RunsApproved == \A x \in Sessions \X Signatures : balance[x] >= 0

(* The user is asked once at a time about a call: a replay that is blocked *)
(* again replaces the request that waits (service.py:174, mixin:541-553).  *)
AskedOnce ==
    \A q, r \in HasStatus("pending") :
        requests[q].session = requests[r].session /\ requests[q].call = requests[r].call
            => q = r

(* A turn acts on calls of its own session only: "Reset per-session state  *)
(* on a pooled agent for reuse" (runner.py:528).                            *)
SessionIsolation ==
    \A t \in Turns : \A i \in DOMAIN todo[t] : origin[todo[t][i]] = session[t]

--------------------------------------------------------------------------
(* The ledger.                                                              *)

Asking == {<<requests[r].session, requests[r].call>> : r \in HasStatus("pending")}

Ledger == INSTANCE ApprovalLedger WITH asking <- Asking, credit <- balance

(* The service and the guard keep a ledger of approvals: whatever turns     *)
(* overlap, replays are interrupted, approvals are left over or collected,  *)
(* an answer settles the one question it was asked, and a flagged call runs *)
(* only in a step that takes a credit of its session, tool and input.       *)
ImplementsLedger == Ledger!Spec
==============================================================================
