----------------------------- MODULE RunRegistry -----------------------------
(***************************************************************************)
(* What the task tracker promises those who reach runs by chat              *)
(* (app/runner/task_tracker.py), without its tasks, queues and dictionary:  *)
(* a chat serves one run at a time, from its start until it is over or      *)
(* replaced; a run that no chat serves any more has been asked to stop; and *)
(* a request made by chat stops the run the chat serves, not another one.   *)
(*                                                                         *)
(* TaskTracker implements it with all of its machinery; RunControl, which   *)
(* has a tracker of its own reduced to what run control sees of it,         *)
(* implements it as well: both models mean the same tracker.                *)
(***************************************************************************)
CONSTANTS
    Chats,
    Runs,       \* pool of runs
    NoRun

VARIABLES
    serving,    \* the run a chat serves, or NoRun
    phase,      \* where each run stands
    asked       \* it has been asked to stop

vars == <<serving, phase, asked>>

Init ==
    /\ serving = [c \in Chats |-> NoRun]
    /\ phase = [r \in Runs |-> "unused"]
    /\ asked = [r \in Runs |-> FALSE]

(* A new run is served from now on.                                         *)
Serve(r, c) ==
    /\ phase[r] = "unused"
    /\ phase' = [phase EXCEPT ![r] = "created"]
    /\ serving' = [serving EXCEPT ![c] = r]

Start(r, c) ==
    /\ serving[c] = NoRun
    /\ Serve(r, c)
    /\ UNCHANGED asked

(* The run that has to make room is asked to stop in the same step.         *)
Replace(r, c) ==
    /\ serving[c] # NoRun
    /\ Serve(r, c)
    /\ asked' = [asked EXCEPT ![serving[c]] = TRUE]

Ask(c) ==
    /\ serving[c] # NoRun
    /\ asked' = [asked EXCEPT ![serving[c]] = TRUE]
    /\ UNCHANGED <<serving, phase>>

Begin(r) ==
    /\ phase[r] = "created" /\ ~asked[r]
    /\ phase' = [phase EXCEPT ![r] = "live"]
    /\ UNCHANGED <<serving, asked>>

(* A run ends, or is given up before it began because it was asked to stop; *)
(* its chat is idle then, unless it serves another run already.             *)
End(r) ==
    /\ phase[r] = "live" \/ (phase[r] = "created" /\ asked[r])
    /\ phase' = [phase EXCEPT ![r] = "over"]
    /\ serving' = [c \in Chats |-> IF serving[c] = r THEN NoRun ELSE serving[c]]
    /\ UNCHANGED asked

Next ==
    \/ \E r \in Runs, c \in Chats : Start(r, c) \/ Replace(r, c)
    \/ \E c \in Chats : Ask(c)
    \/ \E r \in Runs : Begin(r) \/ End(r)

Spec == Init /\ [][Next]_vars
=============================================================================
