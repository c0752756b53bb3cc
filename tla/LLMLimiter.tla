----------------------------- MODULE LLMLimiter -----------------------------
(***************************************************************************)
(* Model calls through the limiter, the retry wrapper and the fallback:     *)
(* providers/rate_limiter.py, retry_chat_model.py and fallback_model.py.    *)
(*                                                                         *)
(* acquire() passes three gates: the pause set by a 429, the window of      *)
(* calls per minute, the semaphore.  Nothing is awaited under _lock or      *)
(* _qpm_lock, so a caller goes from gate to gate in one step unless it      *)
(* sleeps.  The slot is held through the request and the back-off of a      *)
(* failed request; it passes to the stream wrapper when the answer is a     *)
(* stream, which gives it back at the first chunk, and a stream that fails  *)
(* is requested again from within the wrapper.                              *)
(*                                                                         *)
(* Time is discrete.  A timer holds what is left of a sleep or a pause, the *)
(* window holds the ages of its entries, Tick lets one unit pass; a sleeper *)
(* may wake late.  The deadline of wait_for(acquire) is not counted: it may *)
(* pass at any time, and fairness says that it does pass.                   *)
(***************************************************************************)
EXTENDS Integers, Sequences, FiniteSets

CONSTANTS
    Calls,          \* pool of model calls
    FallbackCalls,  \* the calls whose model has a fallback
    MaxConcurrent,  \* slots of the semaphore
    MaxQpm,         \* calls admitted per window, 0 for no such limit
    Window,         \* length of the window (60 s)
    Pauses,         \* pauses a 429 may ask for (Retry-After or the default)
    Jitters,        \* what a waiter may add to the pause
    Attempts,       \* max_retries + 1
    BackoffBase, BackoffCap

ASSUME CallsAssumption == IsFiniteSet(Calls) /\ FallbackCalls \subseteq Calls
ASSUME LimitsAssumption ==
    /\ MaxConcurrent \in Nat \ {0} /\ MaxQpm \in Nat /\ Window \in Nat \ {0}
    /\ Attempts \in Nat \ {0}
ASSUME DelaysAssumption ==
    /\ Pauses \subseteq Nat /\ Jitters \subseteq Nat /\ Jitters # {}
    /\ BackoffBase \in Nat /\ BackoffCap \in Nat

(* _compute_backoff *)
Backoff(n) ==
    LET grown == BackoffBase * 2^(n - 1)
    IN  IF grown < BackoffCap THEN grown ELSE BackoffCap

ASSUME BackoffAssumption == \A n \in 1..Attempts : Backoff(n) \in Nat

VARIABLES
    pc,         \* where the call stands
    attempt,    \* its attempt, counted on from __call__ into _wrap_stream
    timer,      \* what is left of its sleep
    wrapped,    \* a stream has taken it into _wrap_stream
    emitted,    \* its consumer has received output
    pause,      \* what is left of the pause (_pause_until)
    window,     \* ages of the entries of _request_times, oldest first
    value,      \* free slots of the semaphore
    inFlight,   \* _in_flight
    requests,   \* history: requests the call has sent
    due         \* history: what is left of the Retry-After of its own 429

callVars == <<pc, attempt, timer, wrapped, emitted>>
limiterVars == <<pause, window, value, inFlight>>
history == <<requests, due>>
vars == <<callVars, limiterVars, history>>

Ended == {"done", "failed", "cancelled"}
Acquiring == {"ready", "cooling", "throttled", "queued", "granted"}
Holding == {"requesting", "holdoff", "opening", "yielding"}
Slotless == {"delivering", "backoff", "fallback", "fallback_stream"}
PC == {"idle"} \cup Acquiring \cup Holding \cup Slotless \cup Ended

(* What a request may raise: an error that is not retried, one that is, a  *)
(* 429 with the pause it asks for.                                         *)
Error ==
    [kind : {"fatal", "transient"}, after : {0}]
        \cup [kind : {"rate_limit"}, after : Pauses]

TypeOK ==
    /\ pc \in [Calls -> PC]
    /\ attempt \in [Calls -> 1..Attempts]
    /\ timer \in [Calls -> Nat]
    /\ wrapped \in [Calls -> BOOLEAN]
    /\ emitted \in [Calls -> BOOLEAN]
    /\ pause \in Nat
    /\ window \in Seq(0..(Window + 1))
    /\ value \in Nat
    /\ inFlight \in Int
    /\ requests \in [Calls -> Nat]
    /\ due \in [Calls -> Nat]

Init ==
    /\ pc = [c \in Calls |-> "idle"]
    /\ attempt = [c \in Calls |-> 1]
    /\ timer = [c \in Calls |-> 0]
    /\ wrapped = [c \in Calls |-> FALSE]
    /\ emitted = [c \in Calls |-> FALSE]
    /\ pause = 0
    /\ window = <<>>
    /\ value = MaxConcurrent
    /\ inFlight = 0
    /\ requests = [c \in Calls |-> 0]
    /\ due = [c \in Calls |-> 0]

Less(t) == IF t > 0 THEN t - 1 ELSE 0
Larger(a, b) == IF a >= b THEN a ELSE b

(* One unit of time passes.  Ages stop beyond the window.                  *)
Tick ==
    /\ \/ pause > 0
       \/ \E c \in Calls : timer[c] > 0 \/ due[c] > 0
       \/ \E i \in DOMAIN window : window[i] <= Window
    /\ pause' = Less(pause)
    /\ timer' = [c \in Calls |-> Less(timer[c])]
    /\ due' = [c \in Calls |-> Less(due[c])]
    /\ window' = [i \in DOMAIN window |->
                    IF window[i] <= Window THEN window[i] + 1 ELSE window[i]]
    /\ UNCHANGED <<pc, attempt, wrapped, emitted, value, inFlight, requests>>

--------------------------------------------------------------------------
(* acquire() *)

SleepFor(c, where, t) ==
    /\ pc' = [pc EXCEPT ![c] = where]
    /\ timer' = [timer EXCEPT ![c] = t]

(* Step 3: the semaphore, then the request it is acquired for.  A newcomer *)
(* queues behind everyone who waits or has been granted a slot and has not *)
(* resumed (so from Python 3.11 on).  Waiters are served in order; the     *)
(* model lets any of them be first.                                        *)
Waiting == {c \in Calls : pc[c] = "queued"}
Granted == {c \in Calls : pc[c] = "granted"}
TakeSlot(c) ==
    IF value > 0 /\ Waiting = {} /\ Granted = {}
    THEN /\ value' = value - 1
         /\ inFlight' = inFlight + 1
         /\ requests' = [requests EXCEPT ![c] = @ + 1]
         /\ pc' = [pc EXCEPT ![c] = "requesting"]
    ELSE /\ pc' = [pc EXCEPT ![c] = "queued"]
         /\ UNCHANGED <<value, inFlight, requests>>

(* Step 2: _acquire_qpm_slot.  Expired entries go from the left; a full     *)
(* window is slept out, with a margin.                                     *)
Expired == {i \in DOMAIN window : \A j \in 1..i : window[j] > Window}
Kept == SubSeq(window, Cardinality(Expired) + 1, Len(window))
PassWindow(c) ==
    IF MaxQpm = 0 THEN TakeSlot(c) /\ UNCHANGED <<window, timer>>
    ELSE IF Len(Kept) < MaxQpm
    THEN /\ window' = Append(Kept, 0)
         /\ TakeSlot(c)
         /\ UNCHANGED timer
    ELSE /\ window' = Kept
         /\ SleepFor(c, "throttled", Window - Kept[1] + 1)
         /\ UNCHANGED <<value, inFlight, requests>>

(* Step 1: the pause, looked at again after every sleep.                   *)
PassPause(c) ==
    IF pause > 0
    THEN /\ \E j \in Jitters : SleepFor(c, "cooling", pause + j)
         /\ UNCHANGED <<window, value, inFlight, requests>>
    ELSE PassWindow(c)

Acquire(c) ==
    /\ pc[c] = "ready" \/ (pc[c] = "cooling" /\ timer[c] = 0)
    /\ PassPause(c)
    /\ UNCHANGED <<attempt, wrapped, emitted, pause, due>>

(* A call that slept out a full window goes back to the window only.       *)
Recheck(c) ==
    /\ pc[c] = "throttled" /\ timer[c] = 0
    /\ PassWindow(c)
    /\ UNCHANGED <<attempt, wrapped, emitted, pause, due>>

(* A waiter that release() has granted the slot resumes; a slot that is    *)
(* free besides is granted to the next.                                    *)
Resume(c) ==
    /\ pc[c] = "granted"
    /\ IF value > 0 /\ Waiting # {}
       THEN /\ \E d \in Waiting :
                  pc' = [pc EXCEPT ![c] = "requesting", ![d] = "granted"]
            /\ value' = value - 1
       ELSE /\ pc' = [pc EXCEPT ![c] = "requesting"]
            /\ UNCHANGED value
    /\ inFlight' = inFlight + 1
    /\ requests' = [requests EXCEPT ![c] = @ + 1]
    /\ UNCHANGED <<attempt, timer, wrapped, emitted, pause, window, due>>

(* Semaphore.release: the slot goes to a waiter, if there is one; c moves  *)
(* on.                                                                     *)
GiveSlot(c, next) ==
    \/ /\ Waiting = {}
       /\ value' = value + 1
       /\ pc' = [pc EXCEPT ![c] = next]
    \/ \E d \in Waiting :
       /\ pc' = [pc EXCEPT ![c] = next, ![d] = "granted"]
       /\ UNCHANGED value

Release(c, next) == GiveSlot(c, next) /\ inFlight' = inFlight - 1

MoveOn(c, next) ==
    /\ pc' = [pc EXCEPT ![c] = next]
    /\ UNCHANGED <<value, inFlight>>

(* acquire() is given up: a slot granted meanwhile goes back.              *)
Withdraw(c, next) ==
    IF pc[c] = "granted" THEN GiveSlot(c, next) /\ UNCHANGED inFlight
                         ELSE MoveOn(c, next)

(* Mutant of Report: the latest Retry-After replaces the pause.             *)
ReportLatest(c, e) ==
    IF e.kind = "rate_limit"
    THEN pause' = e.after /\ due' = [due EXCEPT ![c] = e.after]
    ELSE UNCHANGED <<pause, due>>

(* report_rate_limit: a pause is extended, never cut short.                *)
Report(c, e) ==
    IF e.kind = "rate_limit"
    THEN /\ pause' = Larger(pause, e.after)
         /\ due' = [due EXCEPT ![c] = e.after]
    ELSE UNCHANGED <<pause, due>>

--------------------------------------------------------------------------
(* RetryChatModel.__call__ and _wrap_stream *)

(* Where an exception leads that leaves the wrapper: FallbackChatModel      *)
(* switches unless output has gone out.                                     *)
AfterRaise(c) ==
    IF c \in FallbackCalls /\ ~emitted[c] THEN "fallback" ELSE "failed"

(* Mutant of IsLast: one attempt too many.                                 *)
IsLastLate(c, e) == e.kind = "fatal" \/ attempt[c] > Attempts

IsLast(c, e) == e.kind = "fatal" \/ attempt[c] >= Attempts

Start(c) ==
    /\ pc[c] = "idle"
    /\ pc' = [pc EXCEPT ![c] = "ready"]
    /\ UNCHANGED <<attempt, timer, wrapped, emitted, limiterVars, history>>

(* Mutant of TimedOut: the timeout is retried, and not counted.             *)
TimedOutRetried(c) ==
    /\ pc[c] \in Acquiring
    /\ Withdraw(c, "ready")
    /\ timer' = [timer EXCEPT ![c] = 0]
    /\ UNCHANGED <<attempt, wrapped, emitted, pause, window, history>>

(* wait_for gives up on acquire(): a RuntimeError, which is not retried.   *)
TimedOut(c) ==
    /\ pc[c] \in Acquiring
    /\ Withdraw(c, AfterRaise(c))
    /\ timer' = [timer EXCEPT ![c] = 0]
    /\ UNCHANGED <<attempt, wrapped, emitted, pause, window, history>>

(* The request raises; a back-off follows with the slot still held.        *)
RequestFails(c, e) ==
    /\ pc[c] = "requesting"
    /\ Report(c, e)
    /\ IF IsLast(c, e)
       THEN Release(c, AfterRaise(c)) /\ UNCHANGED timer
       ELSE SleepFor(c, "holdoff", Backoff(attempt[c]))
            /\ UNCHANGED <<value, inFlight>>
    /\ UNCHANGED <<attempt, wrapped, emitted, window, requests>>

(* A whole answer: returned by __call__, yielded by the wrapper, which     *)
(* keeps the slot until its consumer comes back.                           *)
Answered(c) ==
    /\ pc[c] = "requesting"
    /\ IF wrapped[c]
       THEN MoveOn(c, "yielding") /\ emitted' = [emitted EXCEPT ![c] = TRUE]
       ELSE Release(c, "done") /\ UNCHANGED emitted
    /\ UNCHANGED <<attempt, timer, wrapped, pause, window, history>>

(* A stream: the slot passes to _consume_stream_with_slot.                 *)
StreamOpens(c) ==
    /\ pc[c] = "requesting"
    /\ MoveOn(c, "opening")
    /\ wrapped' = [wrapped EXCEPT ![c] = TRUE]
    /\ UNCHANGED <<attempt, timer, emitted, pause, window, history>>

FirstChunk(c) ==
    /\ pc[c] = "opening"
    /\ Release(c, "delivering")
    /\ emitted' = [emitted EXCEPT ![c] = TRUE]
    /\ UNCHANGED <<attempt, timer, wrapped, pause, window, history>>

(* Mutant of LeaveStream: the slot is given back without asking for         *)
(* first_chunk.                                                            *)
LeaveStreamAlways(c, next) ==
    pc[c] \in {"opening", "delivering"} /\ Release(c, next)

(* The finally of _consume_stream_with_slot: the slot is given back here   *)
(* only if no chunk came.                                                  *)
LeaveStream(c, next) ==
    \/ pc[c] = "opening" /\ Release(c, next)
    \/ pc[c] = "delivering" /\ MoveOn(c, next)

StreamEnds(c) ==
    /\ LeaveStream(c, "done")
    /\ UNCHANGED <<attempt, timer, wrapped, emitted, pause, window, history>>

StreamFails(c, e) ==
    /\ Report(c, e)
    /\ IF IsLast(c, e)
       THEN LeaveStream(c, AfterRaise(c)) /\ UNCHANGED timer
       ELSE /\ LeaveStream(c, "backoff")
            /\ timer' = [timer EXCEPT ![c] = Backoff(attempt[c])]
    /\ UNCHANGED <<attempt, wrapped, emitted, window, requests>>

(* The back-off is over: the finally frees a slot still held, and the next *)
(* attempt begins.                                                         *)
Retry(c) ==
    /\ timer[c] = 0
    /\ \/ pc[c] = "holdoff" /\ Release(c, "ready")
       \/ pc[c] = "backoff" /\ MoveOn(c, "ready")
    /\ attempt' = [attempt EXCEPT ![c] = @ + 1]
    /\ UNCHANGED <<timer, wrapped, emitted, pause, window, history>>

(* The consumer comes back for more after a whole answer.                  *)
ConsumerResumes(c) ==
    /\ pc[c] = "yielding"
    /\ Release(c, "done")
    /\ UNCHANGED <<attempt, timer, wrapped, emitted, pause, window, history>>

(* FallbackChatModel._call_fallback, outside the limiter.                  *)
FallbackAnswers(c) ==
    /\ pc[c] \in {"fallback", "fallback_stream"}
    /\ \E next \in {"done", "failed", "fallback_stream"} :
          pc[c] # next /\ MoveOn(c, next)
    /\ UNCHANGED <<attempt, timer, wrapped, emitted, pause, window, history>>

(* The task that runs the call is cancelled; every finally runs.           *)
Cancel(c) ==
    /\ pc[c] \notin Ended \cup {"idle"}
    /\ IF pc[c] \in Holding THEN Release(c, "cancelled")
                            ELSE Withdraw(c, "cancelled")
    /\ timer' = [timer EXCEPT ![c] = 0]
    /\ UNCHANGED <<attempt, wrapped, emitted, pause, window, history>>

--------------------------------------------------------------------------

(* The client answers or raises: its own timeouts see to it.               *)
Responds(c) ==
    \/ \E e \in Error : RequestFails(c, e)
    \/ Answered(c)
    \/ StreamOpens(c)
    \/ FirstChunk(c)
    \/ StreamEnds(c)
    \/ \E e \in Error : StreamFails(c, e)
    \/ FallbackAnswers(c)

Runs(c) ==
    \/ Acquire(c)
    \/ Recheck(c)
    \/ Resume(c)
    \/ Retry(c)
    \/ ConsumerResumes(c)

Next ==
    \/ Tick
    \/ \E c \in Calls :
        Start(c) \/ Runs(c) \/ Responds(c) \/ TimedOut(c) \/ Cancel(c)

Spec == Init /\ [][Next]_vars

(* Time passes, a task that can run runs, the provider responds, and a     *)
(* wait for the limiter reaches its deadline.                              *)
Fairness ==
    /\ WF_vars(Tick)
    /\ \A c \in Calls :
        WF_vars(Runs(c)) /\ WF_vars(Responds(c)) /\ WF_vars(TimedOut(c))
FairSpec == Spec /\ Fairness

--------------------------------------------------------------------------
(* A slot is free, granted or held, on every path a call can take: an      *)
(* answer, a stream that ends, fails or is retried, a back-off, a timeout, *)
(* a cancellation (rate_limiter.py:146, retry_chat_model.py:282 and 365).  *)
SlotsConserved ==
    /\ inFlight = Cardinality({c \in Calls : pc[c] \in Holding})
    /\ value + inFlight + Cardinality(Granted) = MaxConcurrent

(* A call that was answered 429 is not sent again before the Retry-After   *)
(* it was given has passed, whatever pauses other calls have reported      *)
(* since (rate_limiter.py:163-166, retry_chat_model.py:348).               *)
RetryAfterRespected ==
    \A c \in Calls : pc[c] = "requesting" => due[c] = 0

(* A call sends at most max_retries + 1 requests, counted across the       *)
(* hand-over to the stream wrapper (retry_chat_model.py:307 and 411).      *)
RequestsBounded == \A c \in Calls : requests[c] <= Attempts

(* Every call ends: none is left waiting for a slot, a pause, a window or  *)
(* a retry (rate_limiter.py:82, retry_chat_model.py:308).                  *)
CallsEnd == \A c \in Calls : pc[c] # "idle" ~> pc[c] \in Ended

--------------------------------------------------------------------------
(* The contract.                                                           *)

(* What a place in the code means for the call's user and the provider.    *)
Stage(p) ==
    CASE p \in {"ready", "cooling", "throttled"} -> "waiting"
      [] p \in Holding -> "holding"
      [] p = "delivering" -> "talking"
      [] p = "backoff" -> "resting"
      [] p \in {"fallback", "fallback_stream"} -> "fallback"
      [] p \in Ended -> "over"
      [] OTHER -> p

Stages == [c \in Calls |-> Stage(pc[c])]

Contract == INSTANCE CallQuota WITH
    Slots <- MaxConcurrent, stage <- Stages, free <- value, spoken <- emitted,
    sent <- requests

(* Whatever calls meet at the limiter, and however their requests and       *)
(* streams end, fail, time out or are cancelled: no slot is lost or given   *)
(* twice, none is free while a call queues for it (but in the moment before *)
(* one that was granted another passes it on), every request is sent        *)
(* with a slot, after its Retry-After and within the attempts, and the      *)
(* fallback never follows output (rate_limiter.py:108-150,                  *)
(* retry_chat_model.py:334-488, fallback_model.py:63-135).                  *)
ImplementsCallQuota == Contract!Spec
==============================================================================
