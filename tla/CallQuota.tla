------------------------------ MODULE CallQuota ------------------------------
(***************************************************************************)
(* What the provider and the users of model calls are promised              *)
(* (providers/rate_limiter.py, retry_chat_model.py, fallback_model.py),     *)
(* without pauses, windows, sleeps, generators and the counting of          *)
(* attempts: a slot is free, granted or held, and none is free while a call *)
(* queues for it, unless a call that was granted one is about to pass it    *)
(* on; a request is sent with a slot, not before the Retry-After that its   *)
(* call was given, and so many times at most; and no call is answered by    *)
(* the fallback once its user has seen output.                              *)
(***************************************************************************)
EXTENDS Naturals

CONSTANTS
    Calls,
    FallbackCalls,  \* the calls whose model has a fallback
    Slots,
    Attempts,
    Pauses          \* what a 429 may ask for

VARIABLES
    stage,      \* of each call
    free,       \* slots
    spoken,     \* the user of the call has seen output
    sent,       \* requests of each call
    due         \* what is left of its Retry-After

vars == <<stage, free, spoken, sent, due>>

Init ==
    /\ stage = [c \in Calls |-> "idle"]
    /\ free = Slots
    /\ spoken = [c \in Calls |-> FALSE]
    /\ sent = [c \in Calls |-> 0]
    /\ due = [c \in Calls |-> 0]

Queued == {c \in Calls : stage[c] = "queued"}
Granted == {c \in Calls : stage[c] = "granted"}

------------------------------------------------------------------------------
(* Slots.                                                                   *)

Move(c, next) == stage' = [stage EXCEPT ![c] = next] /\ UNCHANGED free

(* A slot that is given back goes to a call that queues, if there is one.   *)
Free(c, next) ==
    \/ Queued = {} /\ free' = free + 1 /\ stage' = [stage EXCEPT ![c] = next]
    \/ \E d \in Queued :
        stage' = [stage EXCEPT ![c] = next, ![d] = "granted"] /\ UNCHANGED free

Leave(c, next) ==
    IF stage[c] \in {"granted", "holding"} THEN Free(c, next) ELSE Move(c, next)

Send(c) ==
    /\ due[c] = 0 /\ sent[c] < Attempts
    /\ sent' = [sent EXCEPT ![c] = @ + 1]
    /\ UNCHANGED <<spoken, due>>

------------------------------------------------------------------------------
(* Calls.                                                                   *)

Begin(c) ==
    /\ stage[c] = "idle" /\ Move(c, "waiting")
    /\ UNCHANGED <<spoken, sent, due>>

Take(c) ==
    /\ stage[c] = "waiting" /\ Queued = {} /\ Granted = {} /\ free > 0
    /\ stage' = [stage EXCEPT ![c] = "holding"] /\ free' = free - 1
    /\ Send(c)

Queue(c) ==
    /\ stage[c] = "waiting"
    /\ free = 0 \/ Granted # {}
    /\ Move(c, "queued")
    /\ UNCHANGED <<spoken, sent, due>>

(* A slot that is free meanwhile goes on to a call that queues.             *)
Use(c) ==
    /\ stage[c] = "granted"
    /\ \/ (free = 0 \/ Queued = {}) /\ Move(c, "holding")
       \/ /\ free > 0 /\ free' = free - 1
          /\ \E d \in Queued : stage' = [stage EXCEPT ![c] = "holding", ![d] = "granted"]
    /\ Send(c)

(* Output reaches the user, and the slot is given back unless it is the     *)
(* whole answer, in a stream's place.                                       *)
Speak(c) ==
    /\ stage[c] = "holding"
    /\ Free(c, "talking") \/ UNCHANGED <<stage, free>>
    /\ spoken' = [spoken EXCEPT ![c] = TRUE]
    /\ UNCHANGED <<sent, due>>

(* Answered, given up or cancelled.                                         *)
End(c) ==
    /\ stage[c] # "idle" /\ Leave(c, "over")
    /\ UNCHANGED <<spoken, sent>>

GoToFallback(c) ==
    /\ stage[c] \notin {"idle", "over", "fallback"}
    /\ c \in FallbackCalls /\ ~spoken[c] /\ Leave(c, "fallback")
    /\ UNCHANGED <<spoken, sent>>

(* A failed request or stream: another attempt comes, at once or later.     *)
Again(c) ==
    /\ stage[c] \in {"holding", "talking", "resting"} /\ sent[c] < Attempts
    /\ \/ Leave(c, "resting")
       \/ Leave(c, "waiting")
       \/ UNCHANGED <<stage, free>>
    /\ UNCHANGED <<spoken, sent>>

(* What fails may be told to wait.                                          *)
Told(c) ==
    \/ UNCHANGED due
    \/ /\ stage[c] \in {"holding", "talking"}
       /\ \E t \in Pauses : due' = [due EXCEPT ![c] = t]

Tick ==
    /\ due' = [c \in Calls |-> IF due[c] > 0 THEN due[c] - 1 ELSE 0]
    /\ UNCHANGED <<stage, free, spoken, sent>>

Next ==
    \/ Tick
    \/ \E c \in Calls :
        \/ Begin(c) \/ Take(c) \/ Queue(c) \/ Use(c) \/ Speak(c)
        \/ (End(c) \/ GoToFallback(c) \/ Again(c)) /\ Told(c)

Spec == Init /\ [][Next]_vars
==============================================================================
