--------------------------- MODULE ApprovalLedger ---------------------------
(***************************************************************************)
(* What the approvals of tool calls promise the user                        *)
(* (app/approvals/service.py with the guard of tool_guard_mixin.py),        *)
(* without requests, turns, replays and pooled agents: a ledger.  The user  *)
(* is asked about a call of a session, once at a time; every approval       *)
(* answers a question that is being asked and lets one flagged call with    *)
(* that tool and that input run in that session.  A call that is flagged    *)
(* runs in no other way; one that the guard cannot judge is not flagged: it *)
(* lets through what it fails on, what has no session, and everything when  *)
(* its engine is disabled (tool_guard_mixin.py:283, 324, 358).              *)
(***************************************************************************)
EXTENDS Integers

CONSTANTS
    Sessions,
    Calls,
    Flagged,        \* calls in which the guardians find something
    Signature(_)    \* tool and input of a call

VARIABLES
    asking,     \* the calls of sessions that the user is being asked about
    credit      \* approvals given, less flagged calls run

vars == <<asking, credit>>

Signatures == {Signature(c) : c \in Calls}

Init ==
    /\ asking = {}
    /\ credit = [x \in Sessions \X Signatures |-> 0]

(* A question may make others void.                                         *)
Ask(s, c) ==
    /\ c \in Flagged
    /\ <<s, c>> \in asking' /\ asking' \subseteq asking \cup {<<s, c>>}
    /\ UNCHANGED credit

Answer(s, c) ==
    /\ <<s, c>> \in asking
    /\ asking' = asking \ {<<s, c>>}

Approve(s, c) ==
    /\ Answer(s, c)
    /\ credit' = [credit EXCEPT ![<<s, Signature(c)>>] = @ + 1]

Refuse(s, c) ==
    /\ Answer(s, c)
    /\ UNCHANGED credit

Run(s, c) ==
    /\ credit[<<s, Signature(c)>>] > 0
    /\ credit' = [credit EXCEPT ![<<s, Signature(c)>>] = @ - 1]
    /\ UNCHANGED asking

Next ==
    \E s \in Sessions, c \in Calls :
        Ask(s, c) \/ Approve(s, c) \/ Refuse(s, c) \/ Run(s, c)

Spec == Init /\ [][Next]_vars
=============================================================================
