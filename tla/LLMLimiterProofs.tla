-------------------------- MODULE LLMLimiterProofs --------------------------
(***************************************************************************)
(* Proofs about LLMLimiter: for any number of calls, slots and attempts no  *)
(* slot is lost or given twice, a 429 is waited out by the call that got    *)
(* it, no call sends more requests than it may, and all of it implements    *)
(* CallQuota.                                                               *)
(***************************************************************************)
EXTENDS LLMLimiter, FiniteSetTheorems, SequenceTheorems, TLAPS

Holders == {c \in Calls : pc[c] \in Holding}

(* The calls that have passed the pause and not yet been answered.          *)
Admitted == {"throttled", "queued", "granted", "requesting"}

(* No call's own Retry-After outlives the pause, and none is left of it     *)
(* once the call has passed the pause.                                      *)
DueWithinPause ==
    \A c \in Calls : due[c] <= pause /\ (pc[c] \in Admitted => due[c] = 0)

(* A call sends at most one request per attempt; it has not sent this       *)
(* attempt's while it acquires, and it backs off before another only.       *)
RequestsCounted ==
    \A c \in Calls :
        /\ requests[c] <= attempt[c]
        /\ pc[c] \in {"idle"} \cup Acquiring => requests[c] < attempt[c]
        /\ pc[c] \in {"holdoff", "backoff"} => attempt[c] < Attempts

(* The inductive invariant.                                                 *)
IInv == TypeOK /\ SlotsConserved /\ DueWithinPause /\ RequestsCounted

USE CallsAssumption, LimitsAssumption, DelaysAssumption, BackoffAssumption

------------------------------------------------------------------------------
(* Slots *)

(* SlotsConserved in terms of Holders and Granted.                          *)
Conserved ==
    /\ inFlight = Cardinality(Holders)
    /\ value + inFlight + Cardinality(Granted) = MaxConcurrent

LEMMA ConservedIsSlotsConserved == SlotsConserved <=> Conserved
  BY DEF SlotsConserved, Conserved, Holders, Granted

(* Cardinalities of subsets of Calls are numbers that change by one.        *)
LEMMA OneMoreOrLess ==
  ASSUME NEW S \in SUBSET Calls, NEW c \in Calls
  PROVE  /\ IsFiniteSet(S) /\ Cardinality(S) \in Nat
         /\ Cardinality(S \ {c}) = Cardinality(S) - (IF c \in S THEN 1 ELSE 0)
         /\ Cardinality(S \cup {c}) = Cardinality(S) + (IF c \in S THEN 0 ELSE 1)
  <1>1. IsFiniteSet(S)
    BY FS_Subset
  <1>2. Cardinality(S) \in Nat
    BY <1>1, FS_CardinalityType
  <1>3. Cardinality(S \ {c}) = IF c \in S THEN Cardinality(S) - 1 ELSE Cardinality(S)
    BY <1>1, FS_RemoveElement
  <1>4. Cardinality(S \cup {c}) = IF c \in S THEN Cardinality(S) ELSE Cardinality(S) + 1
    BY <1>1, FS_AddElement
  <1> QED BY <1>1, <1>2, <1>3, <1>4

(* What holds of the rest when c moves: others stay, or are granted a slot. *)
OthersStay(c) ==
    \A d \in Calls \ {c} :
        pc'[d] = pc[d] \/ (pc[d] = "queued" /\ pc'[d] = "granted")

(* A slot given back is free or granted, whoever had it.                    *)
LEMMA GiveSlotKeeps ==
  ASSUME TypeOK, NEW c \in Calls, pc[c] # "queued",
         NEW next \in PC \ (Holding \cup {"granted"}), GiveSlot(c, next)
  PROVE  /\ pc' \in [Calls -> PC] /\ pc'[c] = next /\ OthersStay(c)
         /\ value' \in Nat
         /\ Holders' = Holders \ {c}
         /\ value' + Cardinality(Granted') = value + Cardinality(Granted \ {c}) + 1
  <1>0. "granted" \in PC
    BY DEF PC, Acquiring
  <1>1. pc' \in [Calls -> PC] /\ pc'[c] = next /\ OthersStay(c) /\ value' \in Nat
    <2>1. CASE pc' = [pc EXCEPT ![c] = next] /\ value' = value + 1
      BY <2>1 DEF TypeOK, OthersStay
    <2>2. ASSUME NEW d \in Waiting, value' = value,
                 pc' = [pc EXCEPT ![c] = next, ![d] = "granted"]
          PROVE  /\ pc' \in [Calls -> PC] /\ pc'[c] = next /\ OthersStay(c)
                 /\ value' \in Nat
      <3>1. d \in Calls /\ d # c /\ pc[d] = "queued"
        BY DEF Waiting
      <3> QED BY <1>0, <2>2, <3>1 DEF TypeOK, OthersStay
    <2> QED BY <2>1, <2>2 DEF GiveSlot
  <1>2. Holders' = Holders \ {c}
    BY <1>1 DEF Holders, OthersStay, Holding
  <1>3. CASE Waiting = {} /\ value' = value + 1 /\ pc' = [pc EXCEPT ![c] = next]
    <2>1. Granted' = Granted \ {c}
      BY <1>3 DEF TypeOK, Granted
    <2>2. Cardinality(Granted \ {c}) \in Nat
      BY OneMoreOrLess DEF Granted
    <2> QED BY <1>1, <1>2, <1>3, <2>1, <2>2 DEF TypeOK
  <1>4. ASSUME NEW d \in Waiting, value' = value,
               pc' = [pc EXCEPT ![c] = next, ![d] = "granted"]
        PROVE  value' + Cardinality(Granted') = value + Cardinality(Granted \ {c}) + 1
    <2>1. d \in Calls /\ d # c /\ d \notin Granted
      BY DEF Waiting, Granted
    <2>2. Granted' = (Granted \ {c}) \cup {d}
      BY <1>4, <2>1 DEF TypeOK, Granted
    <2>3. (Granted \ {c}) \in SUBSET Calls
      BY DEF Granted
    <2>4. /\ Cardinality(Granted \ {c}) \in Nat
          /\ Cardinality((Granted \ {c}) \cup {d}) = Cardinality(Granted \ {c}) + 1
      BY <2>1, <2>3, OneMoreOrLess
    <2> QED BY <1>4, <2>2, <2>4 DEF TypeOK
  <1> QED BY <1>1, <1>2, <1>3, <1>4 DEF GiveSlot

(* A holder that releases its slot.                                         *)
LEMMA ReleaseKeeps ==
  ASSUME TypeOK, SlotsConserved, NEW c \in Calls, pc[c] \in Holding,
         NEW next \in PC \ (Holding \cup {"granted"}), Release(c, next)
  PROVE  /\ SlotsConserved'
         /\ pc' \in [Calls -> PC] /\ pc'[c] = next /\ OthersStay(c)
         /\ value' \in Nat /\ inFlight' \in Int
  <1>1. pc[c] # "queued" /\ c \in Holders /\ c \notin Granted
    BY DEF Holding, Holders, Granted
  <1>2. Granted \ {c} = Granted
    BY <1>1
  <1>3. /\ Cardinality(Holders) \in Nat /\ Cardinality(Granted) \in Nat
        /\ Cardinality(Granted') \in Nat
        /\ Cardinality(Holders \ {c}) = Cardinality(Holders) - 1
    BY <1>1, OneMoreOrLess DEF Holders, Granted
  <1>4. GiveSlot(c, next) /\ inFlight' = inFlight - 1
    BY DEF Release
  <1>5. /\ pc' \in [Calls -> PC] /\ pc'[c] = next /\ OthersStay(c) /\ value' \in Nat
        /\ Holders' = Holders \ {c}
        /\ value' + Cardinality(Granted') = value + Cardinality(Granted) + 1
    BY <1>1, <1>2, <1>4, GiveSlotKeeps
  <1>6. inFlight \in Int /\ value \in Nat /\ MaxConcurrent \in Nat /\ Conserved
    BY ConservedIsSlotsConserved DEF TypeOK
  <1>7. Conserved' /\ inFlight' \in Int
    BY <1>3, <1>4, <1>5, <1>6 DEF Conserved
  <1> QED BY <1>5, <1>7, ConservedIsSlotsConserved, PTL

(* A call that moves between places of the same kind.                       *)
LEMMA MoveOnKeeps ==
  ASSUME TypeOK, SlotsConserved, NEW c \in Calls, NEW next \in PC, MoveOn(c, next),
         pc[c] \in Holding <=> next \in Holding,
         pc[c] # "granted" /\ next # "granted"
  PROVE  /\ SlotsConserved'
         /\ pc' \in [Calls -> PC] /\ pc'[c] = next /\ OthersStay(c)
         /\ value' \in Nat /\ inFlight' \in Int
  <1>1. Holders' = Holders /\ Granted' = Granted
    BY DEF MoveOn, TypeOK, Holders, Granted
  <1> QED BY <1>1 DEF MoveOn, TypeOK, SlotsConserved, Holders, Granted, OthersStay

(* A call that gives up the wait, with or without a slot granted to it.     *)
LEMMA WithdrawKeeps ==
  ASSUME TypeOK, SlotsConserved, NEW c \in Calls, pc[c] \notin Holding,
         NEW next \in PC \ (Holding \cup {"granted"}), Withdraw(c, next)
  PROVE  /\ SlotsConserved'
         /\ pc' \in [Calls -> PC] /\ pc'[c] = next /\ OthersStay(c)
         /\ value' \in Nat /\ inFlight' \in Int
  <1>1. CASE pc[c] = "granted"
    <2>1. GiveSlot(c, next) /\ inFlight' = inFlight
      BY <1>1 DEF Withdraw
    <2>2. c \notin Holders /\ c \in Granted
      BY <1>1 DEF Holders, Granted
    <2>3. /\ Cardinality(Holders) \in Nat /\ Cardinality(Granted) \in Nat
          /\ Cardinality(Granted') \in Nat
          /\ Cardinality(Granted \ {c}) = Cardinality(Granted) - 1
      BY <2>2, OneMoreOrLess DEF Holders, Granted
    <2>4. /\ pc' \in [Calls -> PC] /\ pc'[c] = next /\ OthersStay(c) /\ value' \in Nat
          /\ Holders' = Holders \ {c}
          /\ value' + Cardinality(Granted') = value + Cardinality(Granted \ {c}) + 1
      BY <1>1, <2>1, GiveSlotKeeps
    <2>5. inFlight \in Int /\ value \in Nat /\ MaxConcurrent \in Nat /\ Conserved
      BY ConservedIsSlotsConserved DEF TypeOK
    <2>6. Holders' = Holders
      BY <2>2, <2>4
    <2>7. inFlight' = Cardinality(Holders') /\ inFlight' \in Int
      BY <2>1, <2>5, <2>6 DEF Conserved
    <2>8. value' + inFlight' + Cardinality(Granted') = MaxConcurrent
      <3>1. value' + Cardinality(Granted') = value + Cardinality(Granted)
        BY <2>3, <2>4, <2>5
      <3> QED BY <3>1, <2>1, <2>3, <2>4, <2>5 DEF Conserved
    <2>9. Conserved'
      BY <2>7, <2>8 DEF Conserved
    <2> QED BY <2>4, <2>7, <2>9, ConservedIsSlotsConserved, PTL
  <1>2. CASE pc[c] # "granted"
    BY <1>2, MoveOnKeeps DEF Withdraw
  <1> QED BY <1>1, <1>2

(* The semaphore's acquire: a slot is taken, or the call queues.            *)
LEMMA TakeSlotKeeps ==
  ASSUME TypeOK, SlotsConserved, NEW c \in Calls, TakeSlot(c),
         pc[c] \notin Holding \cup {"granted"}
  PROVE  /\ SlotsConserved'
         /\ pc' \in [Calls -> PC] /\ OthersStay(c)
         /\ value' \in Nat /\ inFlight' \in Int
         /\ \/ pc'[c] = "requesting" /\ requests' = [requests EXCEPT ![c] = @ + 1]
            \/ pc'[c] = "queued" /\ requests' = requests
  <1>1. CASE value > 0 /\ Waiting = {} /\ Granted = {}
    <2>1. /\ pc' = [pc EXCEPT ![c] = "requesting"] /\ value' = value - 1
          /\ inFlight' = inFlight + 1 /\ requests' = [requests EXCEPT ![c] = @ + 1]
      BY <1>1 DEF TakeSlot
    <2>2. Holders' = Holders \cup {c} /\ Granted' = Granted /\ c \notin Holders
      BY <2>1 DEF TypeOK, Holders, Granted, Holding
    <2>3. /\ Cardinality(Holders) \in Nat /\ Cardinality(Granted) \in Nat
          /\ Cardinality(Holders \cup {c}) = Cardinality(Holders) + 1
      BY <2>2, OneMoreOrLess DEF Holders, Granted
    <2>4. inFlight \in Int /\ value \in Nat /\ MaxConcurrent \in Nat /\ Conserved
      BY ConservedIsSlotsConserved DEF TypeOK
    <2>5. Conserved'
      BY <2>1, <2>2, <2>3, <2>4 DEF Conserved
    <2>6. SlotsConserved'
      BY <2>5, ConservedIsSlotsConserved, PTL
    <2>7. "requesting" \in PC
      BY DEF PC, Holding
    <2> QED BY <1>1, <2>1, <2>6, <2>7 DEF TypeOK, OthersStay
  <1>2. CASE ~(value > 0 /\ Waiting = {} /\ Granted = {})
    <2>1. MoveOn(c, "queued") /\ requests' = requests
      BY <1>2 DEF TakeSlot, MoveOn
    <2> QED BY <2>1, MoveOnKeeps DEF PC, Acquiring, Holding
  <1> QED BY <1>1, <1>2

------------------------------------------------------------------------------
(* Steps *)

(* What is left of the window after the expired entries are gone.           *)
LEMMA KeptType ==
  ASSUME TypeOK
  PROVE  /\ Kept \in Seq(0..(Window + 1))
         /\ Len(Kept) > 0 => Kept[1] \in 0..(Window + 1)
  <1>0. Len(window) \in Nat /\ DOMAIN window = 1..Len(window)
    BY DEF TypeOK
  <1>1. IsFiniteSet(1..Len(window)) /\ Expired \in SUBSET (1..Len(window))
    BY <1>0, FS_Interval DEF Expired
  <1>2. Cardinality(Expired) \in Nat
    BY <1>1, FS_Subset, FS_CardinalityType
  <1>3. \A i \in (Cardinality(Expired) + 1)..Len(window) : window[i] \in 0..(Window + 1)
    BY <1>2 DEF TypeOK
  <1>4. Kept \in Seq(0..(Window + 1))
    BY <1>2, <1>3, SubSeqProperties DEF TypeOK, Kept
  <1> QED BY <1>4

(* What a step of call c does to what the rest of the invariant is about.   *)
Follows(c) ==
    /\ OthersStay(c)
    /\ pause' >= pause
    /\ \A d \in Calls \ {c} :
          due'[d] = due[d] /\ requests'[d] = requests[d] /\ attempt'[d] = attempt[d]
    /\ due'[c] <= pause'
    /\ pc'[c] \in Admitted => due'[c] = 0
    /\ requests'[c] <= attempt'[c]
    /\ pc'[c] \in {"idle"} \cup Acquiring => requests'[c] < attempt'[c]
    /\ pc'[c] \in {"holdoff", "backoff"} => attempt'[c] < Attempts

(* The rest of the invariant when one call moves and the others stay.       *)
LEMMA RestKeeps ==
  ASSUME IInv, NEW c \in Calls, TypeOK', Follows(c)
  PROVE  DueWithinPause' /\ RequestsCounted'
  <1>1. ASSUME NEW d \in Calls
        PROVE  due'[d] <= pause' /\ (pc'[d] \in Admitted => due'[d] = 0)
    <2>1. CASE d = c
      BY <2>1 DEF Follows
    <2>2. CASE d # c
      <3>1. due'[d] = due[d] /\ due[d] \in Nat /\ due[d] <= pause
        BY <2>2 DEF Follows, IInv, TypeOK, DueWithinPause
      <3>2. pause \in Nat /\ pause' \in Nat /\ pause <= pause'
        BY DEF Follows, IInv, TypeOK
      <3>3. pc'[d] \in Admitted => pc[d] \in Admitted
        BY <2>2 DEF Follows, OthersStay, Admitted
      <3> QED BY <3>1, <3>2, <3>3 DEF IInv, DueWithinPause
    <2> QED BY <2>1, <2>2
  <1>2. ASSUME NEW d \in Calls
        PROVE  /\ requests'[d] <= attempt'[d]
               /\ pc'[d] \in {"idle"} \cup Acquiring => requests'[d] < attempt'[d]
               /\ pc'[d] \in {"holdoff", "backoff"} => attempt'[d] < Attempts
    <2>1. CASE d = c
      BY <2>1 DEF Follows
    <2>2. CASE d # c
      BY <2>2 DEF Follows, IInv, TypeOK, RequestsCounted, OthersStay, Acquiring
    <2> QED BY <2>1, <2>2
  <1> QED BY <1>1, <1>2 DEF DueWithinPause, RequestsCounted

(* The window and the semaphore, once the pause is over for the call.       *)
LEMMA PassWindowKeeps ==
  ASSUME IInv, NEW c \in Calls, PassWindow(c), due[c] = 0,
         pc[c] \in {"ready", "cooling", "throttled"},
         UNCHANGED <<attempt, wrapped, emitted, pause, due>>
  PROVE  IInv'
  <1>1. CASE TakeSlot(c) /\ timer' = timer /\ window' \in Seq(0..(Window + 1))
    <2>1. /\ SlotsConserved'
          /\ pc' \in [Calls -> PC] /\ OthersStay(c)
          /\ value' \in Nat /\ inFlight' \in Int
          /\ \/ pc'[c] = "requesting" /\ requests' = [requests EXCEPT ![c] = @ + 1]
             \/ pc'[c] = "queued" /\ requests' = requests
      BY <1>1, TakeSlotKeeps DEF IInv, Holding
    <2>2. requests' \in [Calls -> Nat] /\ TypeOK'
      <3>1. requests' \in [Calls -> Nat]
        <4>1. requests \in [Calls -> Nat] /\ requests[c] + 1 \in Nat
          BY DEF IInv, TypeOK
        <4>2. \/ requests' = [requests EXCEPT ![c] = requests[c] + 1]
              \/ requests' = requests
          BY <2>1
        <4> QED BY ONLY <4>1, <4>2
      <3>2. /\ pc' \in [Calls -> PC] /\ value' \in Nat /\ inFlight' \in Int
            /\ UNCHANGED <<attempt, wrapped, emitted, pause, due, timer>>
            /\ window' \in Seq(0..(Window + 1))
        BY <1>1, <2>1
      <3> QED BY <3>1, <3>2 DEF IInv, TypeOK
    <2>3. requests[c] < attempt[c]
      BY DEF IInv, RequestsCounted, Acquiring
    <2>4. DueWithinPause' /\ RequestsCounted'
      <3>1. Follows(c)
        BY <2>1, <2>3 DEF Follows, IInv, TypeOK, DueWithinPause, Acquiring, Admitted
      <3> QED BY <2>2, <3>1, RestKeeps
    <2> QED BY <2>1, <2>2, <2>4 DEF IInv
  <1>2. CASE /\ SleepFor(c, "throttled", Window - Kept[1] + 1) /\ window' = Kept
             /\ Len(Kept) > 0 /\ UNCHANGED <<value, inFlight, requests>>
    <2>1. MoveOn(c, "throttled")
      BY <1>2 DEF SleepFor, MoveOn
    <2>2. /\ SlotsConserved'
          /\ pc' \in [Calls -> PC] /\ pc'[c] = "throttled" /\ OthersStay(c)
      BY <2>1, MoveOnKeeps DEF IInv, PC, Acquiring, Holding
    <2>3. Window - Kept[1] + 1 \in Nat
      BY <1>2, KeptType DEF IInv
    <2>4. TypeOK'
      BY <1>2, <2>2, <2>3, KeptType DEF IInv, TypeOK, SleepFor
    <2>5. requests[c] < attempt[c]
      BY DEF IInv, RequestsCounted, Acquiring
    <2>6. DueWithinPause' /\ RequestsCounted'
      <3>1. Follows(c)
        BY <1>2, <2>2, <2>5 DEF Follows, IInv, TypeOK, DueWithinPause, Acquiring, Admitted
      <3> QED BY <2>4, <3>1, RestKeeps
    <2> QED BY <2>2, <2>4, <2>6 DEF IInv
  <1>3. Append(Kept, 0) \in Seq(0..(Window + 1))
    BY KeptType, AppendProperties DEF IInv
  <1>4. window \in Seq(0..(Window + 1)) /\ Len(Kept) \in Nat
    BY KeptType DEF IInv, TypeOK
  <1>5. CASE MaxQpm = 0 \/ Len(Kept) < MaxQpm
    BY <1>1, <1>3, <1>4, <1>5 DEF PassWindow
  <1>6. CASE MaxQpm # 0 /\ ~(Len(Kept) < MaxQpm)
    <2>1. Len(Kept) > 0
      BY <1>4, <1>6
    <2> QED BY <1>2, <1>6, <2>1 DEF PassWindow
  <1> QED BY <1>5, <1>6

(* acquire(), first or after the pause was slept out.                       *)
LEMMA AcquireKeeps ==
  ASSUME IInv, NEW c \in Calls, Acquire(c)
  PROVE  IInv'
  <1>1. CASE pause > 0
    <2>1. PICK j \in Jitters : SleepFor(c, "cooling", pause + j)
      BY <1>1 DEF Acquire, PassPause
    <2>2. MoveOn(c, "cooling") /\ UNCHANGED <<window, requests>>
      BY <1>1, <2>1 DEF Acquire, PassPause, SleepFor, MoveOn
    <2>3. /\ SlotsConserved'
          /\ pc' \in [Calls -> PC] /\ pc'[c] = "cooling" /\ OthersStay(c)
      BY <2>2, MoveOnKeeps DEF Acquire, IInv, PC, Acquiring, Holding
    <2>4. TypeOK'
      BY <2>1, <2>2, <2>3 DEF IInv, TypeOK, SleepFor, MoveOn, Acquire
    <2>5. requests[c] < attempt[c]
      BY DEF IInv, RequestsCounted, Acquiring, Acquire
    <2>6. DueWithinPause' /\ RequestsCounted'
      <3>1. Follows(c)
        BY <2>2, <2>3, <2>5
        DEF Follows, IInv, TypeOK, DueWithinPause, Acquire, MoveOn, Acquiring, Admitted
      <3> QED BY <2>4, <3>1, RestKeeps
    <2> QED BY <2>3, <2>4, <2>6 DEF IInv
  <1>2. CASE ~(pause > 0)
    <2>1. due[c] = 0
      BY <1>2 DEF IInv, TypeOK, DueWithinPause
    <2> QED BY <1>2, <2>1, PassWindowKeeps DEF Acquire, PassPause
  <1> QED BY <1>1, <1>2

(* Back at the window after it was full.                                    *)
LEMMA RecheckKeeps ==
  ASSUME IInv, NEW c \in Calls, Recheck(c)
  PROVE  IInv'
  <1>1. due[c] = 0
    BY DEF IInv, DueWithinPause, Admitted, Recheck
  <1> QED BY <1>1, PassWindowKeeps DEF Recheck

(* A granted waiter resumes: the slot is held instead of granted, and one   *)
(* that is free is granted to the next.                                     *)
LEMMA ResumeKeeps ==
  ASSUME IInv, NEW c \in Calls, Resume(c)
  PROVE  IInv'
  <1>1. pc[c] = "granted" /\ {"requesting", "granted"} \subseteq PC
    BY DEF Resume, PC, Acquiring, Holding
  <1>2. /\ pc' \in [Calls -> PC] /\ pc'[c] = "requesting" /\ OthersStay(c)
        /\ value' \in Nat
        /\ value' + Cardinality(Granted') = value + Cardinality(Granted \ {c})
    <2>1. CASE pc' = [pc EXCEPT ![c] = "requesting"] /\ value' = value
      <3>1. Granted' = Granted \ {c}
        BY <2>1 DEF IInv, TypeOK, Granted
      <3> QED BY <1>1, <2>1, <3>1 DEF IInv, TypeOK, OthersStay
    <2>2. ASSUME NEW d \in Waiting, value > 0, value' = value - 1,
                 pc' = [pc EXCEPT ![c] = "requesting", ![d] = "granted"]
          PROVE  /\ pc' \in [Calls -> PC] /\ pc'[c] = "requesting" /\ OthersStay(c)
                 /\ value' \in Nat
                 /\ value' + Cardinality(Granted') = value + Cardinality(Granted \ {c})
      <3>1. d \in Calls /\ d # c /\ pc[d] = "queued" /\ d \notin Granted
        BY <1>1 DEF Waiting, Granted
      <3>2. Granted' = (Granted \ {c}) \cup {d}
        BY <2>2, <3>1 DEF IInv, TypeOK, Granted
      <3>3. (Granted \ {c}) \in SUBSET Calls
        BY DEF Granted
      <3>4. /\ Cardinality(Granted \ {c}) \in Nat
            /\ Cardinality((Granted \ {c}) \cup {d}) = Cardinality(Granted \ {c}) + 1
        BY <3>1, <3>3, OneMoreOrLess
      <3>5. value \in Nat
        BY DEF IInv, TypeOK
      <3>6. value' \in Nat
            /\ value' + Cardinality(Granted') = value + Cardinality(Granted \ {c})
        BY <2>2, <3>2, <3>4, <3>5
      <3> QED BY <1>1, <2>2, <3>1, <3>6 DEF IInv, TypeOK, OthersStay
    <2> QED BY <2>1, <2>2 DEF Resume
  <1>3. Holders' = Holders \cup {c} /\ c \notin Holders /\ c \in Granted
    BY <1>1, <1>2 DEF Holders, Granted, Holding, OthersStay
  <1>4. /\ Cardinality(Holders) \in Nat /\ Cardinality(Granted) \in Nat
        /\ Cardinality(Granted') \in Nat
        /\ Cardinality(Holders \cup {c}) = Cardinality(Holders) + 1
        /\ Cardinality(Granted \ {c}) = Cardinality(Granted) - 1
    BY <1>3, OneMoreOrLess DEF Holders, Granted
  <1>5. inFlight \in Int /\ value \in Nat /\ MaxConcurrent \in Nat /\ Conserved
    BY ConservedIsSlotsConserved DEF IInv, TypeOK
  <1>6. inFlight' = inFlight + 1
    BY DEF Resume
  <1>7. Conserved'
    <2>1. inFlight' = Cardinality(Holders')
      BY <1>3, <1>4, <1>5, <1>6 DEF Conserved
    <2>2. value' + inFlight' + Cardinality(Granted') = MaxConcurrent
      <3>1. value' + Cardinality(Granted') = value + (Cardinality(Granted) - 1)
        BY <1>2, <1>4
      <3> QED BY <1>2, <1>4, <1>5, <1>6, <3>1 DEF Conserved
    <2> QED BY <2>1, <2>2 DEF Conserved
  <1>8. SlotsConserved'
    BY <1>7, ConservedIsSlotsConserved, PTL
  <1>9. TypeOK'
    BY <1>2, <1>5, <1>6 DEF IInv, TypeOK, Resume
  <1>10. requests[c] < attempt[c] /\ due[c] = 0
    BY <1>1 DEF IInv, RequestsCounted, DueWithinPause, Acquiring, Admitted
  <1>11. DueWithinPause' /\ RequestsCounted'
    <2>1. Follows(c)
      BY <1>1, <1>2, <1>9, <1>10
      DEF Follows, IInv, TypeOK, DueWithinPause, Resume, Acquiring, Admitted
    <2> QED BY <1>9, <2>1, RestKeeps
  <1> QED BY <1>8, <1>9, <1>11 DEF IInv

(* A step of call c that keeps the slots and takes c to a place where it    *)
(* neither acquires nor backs off, with nothing else of note changed.       *)
LEMMA QuietStepKeeps ==
  ASSUME IInv, NEW c \in Calls, OthersStay(c), SlotsConserved',
         pc' \in [Calls -> PC], value' \in Nat, inFlight' \in Int,
         pc'[c] \notin {"idle", "holdoff", "backoff"} \cup Acquiring \cup Admitted,
         timer' \in [Calls -> Nat], emitted' \in [Calls -> BOOLEAN],
         wrapped' \in [Calls -> BOOLEAN],
         UNCHANGED <<attempt, pause, window, requests, due>>
  PROVE  IInv'
  <1>1. TypeOK'
    BY DEF IInv, TypeOK
  <1>2. DueWithinPause' /\ RequestsCounted'
    <2>1. Follows(c)
      BY DEF Follows, IInv, TypeOK, DueWithinPause, RequestsCounted
    <2> QED BY <1>1, <2>1, RestKeeps
  <1> QED BY <1>1, <1>2 DEF IInv

(* report_rate_limit lets the pause grow only, past the call's Retry-After. *)
LEMMA ReportKeeps ==
  ASSUME IInv, NEW c \in Calls, NEW e \in Error, Report(c, e)
  PROVE  /\ pause' \in Nat /\ pause' >= pause /\ due' \in [Calls -> Nat]
         /\ due'[c] <= pause' /\ \A d \in Calls \ {c} : due'[d] = due[d]
  <1>1. e.kind = "rate_limit" => e.after \in Nat
    BY DEF Error
  <1>2. CASE e.kind = "rate_limit"
    <2>1. pause' = Larger(pause, e.after) /\ due' = [due EXCEPT ![c] = e.after]
      BY <1>2 DEF Report
    <2>2. pause' \in Nat /\ pause' >= pause /\ pause' >= e.after
      BY <1>1, <1>2, <2>1 DEF Larger, IInv, TypeOK
    <2> QED BY <1>1, <1>2, <2>1, <2>2 DEF IInv, TypeOK
  <1>3. CASE e.kind # "rate_limit"
    BY <1>3 DEF Report, IInv, TypeOK, DueWithinPause
  <1> QED BY <1>2, <1>3

(* A call that raises ends, or goes on to the fallback.                     *)
LEMMA AfterRaisePlace ==
  ASSUME NEW c \in Calls
  PROVE  /\ AfterRaise(c) \in {"fallback", "failed"}
         /\ AfterRaise(c) \in PC \ (Holding \cup {"granted"})
  BY DEF AfterRaise, PC, Holding, Slotless, Ended

(* Leaving a stream, before or after its first chunk.                       *)
LEMMA LeaveStreamKeeps ==
  ASSUME TypeOK, SlotsConserved, NEW c \in Calls,
         NEW next \in PC \ (Holding \cup {"granted"}), LeaveStream(c, next)
  PROVE  /\ SlotsConserved'
         /\ pc' \in [Calls -> PC] /\ pc'[c] = next /\ OthersStay(c)
         /\ value' \in Nat /\ inFlight' \in Int
  <1>1. CASE pc[c] = "opening" /\ Release(c, next)
    BY <1>1, ReleaseKeeps DEF Holding
  <1>2. CASE pc[c] = "delivering" /\ MoveOn(c, next)
    BY <1>2, MoveOnKeeps DEF Holding
  <1> QED BY <1>1, <1>2 DEF LeaveStream

(* A request that fails: released if the call ends with it, else kept.      *)
LEMMA RequestFailsKeeps ==
  ASSUME IInv, NEW c \in Calls, NEW e \in Error, RequestFails(c, e)
  PROVE  IInv'
  <1>1. pc[c] = "requesting" /\ pc[c] \in Holding
    BY DEF RequestFails, Holding
  <1>2. pause' \in Nat /\ pause' >= pause /\ due' \in [Calls -> Nat] /\ due'[c] <= pause'
        /\ \A d \in Calls \ {c} : due'[d] = due[d]
    BY ReportKeeps DEF RequestFails, IInv
  <1>3. /\ SlotsConserved'
        /\ pc' \in [Calls -> PC] /\ OthersStay(c)
        /\ value' \in Nat /\ inFlight' \in Int /\ timer' \in [Calls -> Nat]
        /\ \/ pc'[c] \in {"fallback", "failed"}
           \/ pc'[c] = "holdoff" /\ attempt[c] < Attempts
    <2>1. CASE IsLast(c, e)
      <3>1. Release(c, AfterRaise(c)) /\ timer' = timer
        BY <2>1 DEF RequestFails
      <3> QED BY <1>1, <3>1, AfterRaisePlace, ReleaseKeeps DEF IInv, TypeOK
    <2>2. CASE ~IsLast(c, e)
      <3>1. SleepFor(c, "holdoff", Backoff(attempt[c])) /\ UNCHANGED <<value, inFlight>>
        BY <2>2 DEF RequestFails
      <3>2. MoveOn(c, "holdoff") /\ "holdoff" \in PC
        BY <3>1 DEF SleepFor, MoveOn, PC, Holding
      <3>3. /\ SlotsConserved'
            /\ pc' \in [Calls -> PC] /\ pc'[c] = "holdoff" /\ OthersStay(c)
            /\ value' \in Nat /\ inFlight' \in Int
        BY <1>1, <3>2, MoveOnKeeps DEF IInv, Holding
      <3>4. attempt[c] < Attempts /\ Backoff(attempt[c]) \in Nat
        BY <2>2 DEF IsLast, IInv, TypeOK
      <3> QED BY <3>1, <3>3, <3>4 DEF IInv, TypeOK, SleepFor
    <2> QED BY <2>1, <2>2
  <1>4. TypeOK'
    BY <1>2, <1>3 DEF IInv, TypeOK, RequestFails
  <1>5. Follows(c)
    BY <1>2, <1>3 DEF Follows, RequestFails, IInv, RequestsCounted, Acquiring, Admitted
  <1> QED BY <1>3, <1>4, <1>5, RestKeeps DEF IInv

(* A stream that fails: its slot went back at its first chunk, or goes now. *)
LEMMA StreamFailsKeeps ==
  ASSUME IInv, NEW c \in Calls, NEW e \in Error, StreamFails(c, e)
  PROVE  IInv'
  <1>1. pause' \in Nat /\ pause' >= pause /\ due' \in [Calls -> Nat] /\ due'[c] <= pause'
        /\ \A d \in Calls \ {c} : due'[d] = due[d]
    BY ReportKeeps DEF StreamFails, IInv
  <1>2. /\ SlotsConserved'
        /\ pc' \in [Calls -> PC] /\ OthersStay(c)
        /\ value' \in Nat /\ inFlight' \in Int /\ timer' \in [Calls -> Nat]
        /\ \/ pc'[c] \in {"fallback", "failed"}
           \/ pc'[c] = "backoff" /\ attempt[c] < Attempts
    <2>1. CASE IsLast(c, e)
      <3>1. LeaveStream(c, AfterRaise(c)) /\ timer' = timer
        BY <2>1 DEF StreamFails
      <3> QED BY <3>1, AfterRaisePlace, LeaveStreamKeeps DEF IInv, TypeOK
    <2>2. CASE ~IsLast(c, e)
      <3>1. /\ LeaveStream(c, "backoff")
            /\ timer' = [timer EXCEPT ![c] = Backoff(attempt[c])]
        BY <2>2 DEF StreamFails
      <3>2. "backoff" \in PC \ (Holding \cup {"granted"})
        BY DEF PC, Slotless, Holding
      <3>3. attempt[c] < Attempts /\ Backoff(attempt[c]) \in Nat
        BY <2>2 DEF IsLast, IInv, TypeOK
      <3> QED BY <3>1, <3>2, <3>3, LeaveStreamKeeps DEF IInv, TypeOK
    <2> QED BY <2>1, <2>2
  <1>3. TypeOK'
    BY <1>1, <1>2 DEF IInv, TypeOK, StreamFails
  <1>4. Follows(c)
    BY <1>1, <1>2 DEF Follows, StreamFails, IInv, RequestsCounted, Acquiring, Admitted
  <1> QED BY <1>2, <1>3, <1>4, RestKeeps DEF IInv

(* The next attempt begins: one more request may be sent.                   *)
LEMMA RetryKeeps ==
  ASSUME IInv, NEW c \in Calls, Retry(c)
  PROVE  IInv'
  <1>0. "ready" \in PC \ (Holding \cup {"granted"})
    BY DEF PC, Acquiring, Holding
  <1>1. /\ SlotsConserved'
        /\ pc' \in [Calls -> PC] /\ pc'[c] = "ready" /\ OthersStay(c)
        /\ value' \in Nat /\ inFlight' \in Int
    <2>1. CASE pc[c] = "holdoff" /\ Release(c, "ready")
      BY <1>0, <2>1, ReleaseKeeps DEF IInv, Holding
    <2>2. CASE pc[c] = "backoff" /\ MoveOn(c, "ready")
      BY <1>0, <2>2, MoveOnKeeps DEF IInv, Holding
    <2> QED BY <2>1, <2>2 DEF Retry
  <1>2. attempt[c] < Attempts /\ requests[c] <= attempt[c] /\ due[c] <= pause
    BY DEF IInv, RequestsCounted, DueWithinPause, Retry
  <1>3. attempt' \in [Calls -> 1..Attempts]
    BY <1>2 DEF IInv, TypeOK, Retry
  <1>4. TypeOK'
    BY <1>1, <1>3 DEF IInv, TypeOK, Retry, history
  <1>5. Follows(c)
    BY <1>1, <1>2 DEF Follows, IInv, TypeOK, Retry, Admitted, history
  <1> QED BY <1>1, <1>4, <1>5, RestKeeps DEF IInv

(* A call begins.                                                           *)
LEMMA StartKeeps ==
  ASSUME IInv, NEW c \in Calls, Start(c)
  PROVE  IInv'
  <1>1. MoveOn(c, "ready") /\ "ready" \in PC
    BY DEF Start, MoveOn, PC, Acquiring, limiterVars
  <1>2. /\ SlotsConserved'
        /\ pc' \in [Calls -> PC] /\ pc'[c] = "ready" /\ OthersStay(c)
    BY <1>1, MoveOnKeeps DEF Start, IInv, Holding
  <1>3. TypeOK'
    BY <1>2 DEF IInv, TypeOK, Start, limiterVars, history
  <1>4. Follows(c)
    BY <1>2 DEF Follows, IInv, TypeOK, Start, DueWithinPause, RequestsCounted, Admitted,
                limiterVars, history
  <1> QED BY <1>2, <1>3, <1>4, RestKeeps DEF IInv

(* The answers that end a request, and what its consumer does.              *)
LEMMA AnswerKeeps ==
  ASSUME IInv, NEW c \in Calls,
         \/ Answered(c) \/ StreamOpens(c) \/ FirstChunk(c) \/ StreamEnds(c)
         \/ ConsumerResumes(c) \/ FallbackAnswers(c)
  PROVE  IInv'
  <1> DEFINE P == PC \ (Holding \cup {"granted"})
  <1>0. /\ "done" \in P /\ "delivering" \in P /\ "failed" \in P /\ "fallback_stream" \in P
        /\ "yielding" \in PC /\ "opening" \in PC
    BY DEF PC, Holding, Slotless, Ended
  <1>1. CASE Answered(c)
    <2>1. /\ SlotsConserved'
          /\ pc' \in [Calls -> PC] /\ pc'[c] \in {"yielding", "done"} /\ OthersStay(c)
          /\ value' \in Nat /\ inFlight' \in Int
      BY <1>0, <1>1, MoveOnKeeps, ReleaseKeeps DEF Answered, IInv, Holding
    <2> QED BY <1>1, <2>1, QuietStepKeeps
        DEF Answered, IInv, TypeOK, Acquiring, Admitted, history
  <1>2. CASE StreamOpens(c)
    <2>1. /\ SlotsConserved'
          /\ pc' \in [Calls -> PC] /\ pc'[c] = "opening" /\ OthersStay(c)
          /\ value' \in Nat /\ inFlight' \in Int
      BY <1>0, <1>2, MoveOnKeeps DEF StreamOpens, IInv, Holding
    <2> QED BY <1>2, <2>1, QuietStepKeeps
        DEF StreamOpens, IInv, TypeOK, Acquiring, Admitted, history
  <1>3. CASE FirstChunk(c)
    <2>1. /\ SlotsConserved'
          /\ pc' \in [Calls -> PC] /\ pc'[c] = "delivering" /\ OthersStay(c)
          /\ value' \in Nat /\ inFlight' \in Int
      BY <1>0, <1>3, ReleaseKeeps DEF FirstChunk, IInv, Holding
    <2> QED BY <1>3, <2>1, QuietStepKeeps
        DEF FirstChunk, IInv, TypeOK, Acquiring, Admitted, history
  <1>4. CASE StreamEnds(c)
    <2>1. /\ SlotsConserved'
          /\ pc' \in [Calls -> PC] /\ pc'[c] = "done" /\ OthersStay(c)
          /\ value' \in Nat /\ inFlight' \in Int
      BY <1>0, <1>4, LeaveStreamKeeps DEF StreamEnds, IInv
    <2> QED BY <1>4, <2>1, QuietStepKeeps
        DEF StreamEnds, IInv, TypeOK, Acquiring, Admitted, history
  <1>5. CASE ConsumerResumes(c)
    <2>1. /\ SlotsConserved'
          /\ pc' \in [Calls -> PC] /\ pc'[c] = "done" /\ OthersStay(c)
          /\ value' \in Nat /\ inFlight' \in Int
      BY <1>0, <1>5, ReleaseKeeps DEF ConsumerResumes, IInv, Holding
    <2> QED BY <1>5, <2>1, QuietStepKeeps
        DEF ConsumerResumes, IInv, TypeOK, Acquiring, Admitted, history
  <1>6. CASE FallbackAnswers(c)
    <2>1. PICK next \in {"done", "failed", "fallback_stream"} : MoveOn(c, next)
      BY <1>6 DEF FallbackAnswers
    <2>2. /\ SlotsConserved'
          /\ pc' \in [Calls -> PC] /\ pc'[c] = next /\ OthersStay(c)
          /\ value' \in Nat /\ inFlight' \in Int
      BY <1>0, <1>6, <2>1, MoveOnKeeps DEF FallbackAnswers, IInv, Holding
    <2> QED BY <1>6, <2>2, QuietStepKeeps
        DEF FallbackAnswers, IInv, TypeOK, Acquiring, Admitted, history
  <1> QED BY <1>1, <1>2, <1>3, <1>4, <1>5, <1>6

(* The wait for the limiter times out.                                      *)
LEMMA TimedOutKeeps ==
  ASSUME IInv, NEW c \in Calls, TimedOut(c)
  PROVE  IInv'
  <1>1. /\ SlotsConserved'
        /\ pc' \in [Calls -> PC] /\ pc'[c] \in {"fallback", "failed"} /\ OthersStay(c)
        /\ value' \in Nat /\ inFlight' \in Int
    BY AfterRaisePlace, WithdrawKeeps DEF TimedOut, IInv, Acquiring, Holding
  <1> QED BY <1>1, QuietStepKeeps DEF TimedOut, IInv, TypeOK, Acquiring, Admitted, history

(* A cancellation, wherever it strikes.                                     *)
LEMMA CancelKeeps ==
  ASSUME IInv, NEW c \in Calls, Cancel(c)
  PROVE  IInv'
  <1>0. "cancelled" \in PC \ (Holding \cup {"granted"})
    BY DEF PC, Ended, Holding
  <1>1. /\ SlotsConserved'
        /\ pc' \in [Calls -> PC] /\ pc'[c] = "cancelled" /\ OthersStay(c)
        /\ value' \in Nat /\ inFlight' \in Int
    BY <1>0, ReleaseKeeps, WithdrawKeeps DEF Cancel, IInv
  <1> QED BY <1>1, QuietStepKeeps DEF Cancel, IInv, TypeOK, Acquiring, Admitted, history

(* Time passes: what is left of a Retry-After shrinks with the pause.       *)
LEMMA TickKeeps ==
  ASSUME IInv, Tick
  PROVE  IInv'
  <1>1. window' \in Seq(0..(Window + 1))
    <2> DEFINE w == [i \in DOMAIN window |->
                       IF window[i] <= Window THEN window[i] + 1 ELSE window[i]]
    <2>1. Len(window) \in Nat /\ DOMAIN window = 1..Len(window)
      BY DEF IInv, TypeOK
    <2>2. w \in [1..Len(window) -> 0..(Window + 1)]
      BY <2>1 DEF IInv, TypeOK
    <2>3. w \in Seq(0..(Window + 1))
      BY <2>1, <2>2, IsASeq
    <2> QED BY <2>3 DEF Tick
  <1>2. TypeOK'
    BY <1>1 DEF IInv, TypeOK, Tick, Less
  <1>3. SlotsConserved' /\ RequestsCounted'
    BY DEF IInv, SlotsConserved, Granted, RequestsCounted, Tick
  <1>4. DueWithinPause'
    BY DEF IInv, TypeOK, DueWithinPause, Tick, Less
  <1> QED BY <1>2, <1>3, <1>4 DEF IInv

------------------------------------------------------------------------------
(* The theorems *)

(* IInv holds in every state of every behaviour of the limiter.             *)
THEOREM Invariance == Spec => []IInv
  <1>1. Init => IInv
    <2> SUFFICES ASSUME Init PROVE IInv
      OBVIOUS
    <2>1. TypeOK
      BY DEF Init, TypeOK, PC
    <2>2. Holders = {} /\ Granted = {}
      BY DEF Init, Holders, Granted, Holding
    <2>3. Conserved
      BY <2>2, FS_EmptySet DEF Init, Conserved
    <2>4. SlotsConserved
      BY <2>3, ConservedIsSlotsConserved
    <2>5. DueWithinPause /\ RequestsCounted
      BY DEF Init, DueWithinPause, RequestsCounted, Admitted
    <2> QED BY <2>1, <2>4, <2>5 DEF IInv
  <1>2. IInv /\ [Next]_vars => IInv'
    <2> SUFFICES ASSUME IInv, [Next]_vars PROVE IInv'
      OBVIOUS
    <2>1. CASE Tick
      BY <2>1, TickKeeps
    <2>2. ASSUME NEW c \in Calls,
                 Start(c) \/ Runs(c) \/ Responds(c) \/ TimedOut(c) \/ Cancel(c)
          PROVE  IInv'
      BY <2>2, StartKeeps, AcquireKeeps, RecheckKeeps, ResumeKeeps, RetryKeeps,
         AnswerKeeps, RequestFailsKeeps, StreamFailsKeeps, TimedOutKeeps, CancelKeeps
      DEF Runs, Responds
    <2>3. CASE UNCHANGED vars
      BY <2>3 DEF vars, callVars, limiterVars, history, IInv, TypeOK, SlotsConserved,
                  Granted, DueWithinPause, RequestsCounted
    <2> QED BY <2>1, <2>2, <2>3 DEF Next
  <1> QED BY <1>1, <1>2, PTL DEF Spec

(* The types of the variables.                                              *)
THEOREM TypeCorrect == Spec => []TypeOK
  <1>1. IInv => TypeOK
    BY DEF IInv
  <1> QED BY <1>1, Invariance, PTL

(* No slot is lost or given twice, for any number of calls and slots.       *)
THEOREM SlotsAreConserved == Spec => []SlotsConserved
  <1>1. IInv => SlotsConserved
    BY DEF IInv
  <1> QED BY <1>1, Invariance, PTL

(* A call waits out the Retry-After it was given, for any pauses.           *)
THEOREM RetryAfterIsRespected == Spec => []RetryAfterRespected
  <1>1. IInv => RetryAfterRespected
    BY DEF IInv, DueWithinPause, RetryAfterRespected, Admitted
  <1> QED BY <1>1, Invariance, PTL

(* No call sends more requests than it has attempts, for any number of them. *)
THEOREM RequestsAreBounded == Spec => []RequestsBounded
  <1>1. IInv => RequestsBounded
    BY DEF IInv, TypeOK, RequestsCounted, RequestsBounded
  <1> QED BY <1>1, Invariance, PTL

------------------------------------------------------------------------------
(* The contract *)

(* No slot is free while a call queues for one, unless one that was granted *)
(* a slot has still to resume, and to look for others.                      *)
NoIdleSlot == Waiting # {} => value = 0 \/ Granted # {}

(* Where the places of the code are in the contract.                        *)
LEMMA StageValues ==
  ASSUME NEW p \in PC
  PROVE  /\ Stage(p) \in {"idle", "waiting", "queued", "granted", "holding", "talking",
                          "resting", "fallback", "over"}
         /\ Stage(p) = "idle" <=> p = "idle"
         /\ Stage(p) = "waiting" <=> p \in {"ready", "cooling", "throttled"}
         /\ Stage(p) = "queued" <=> p = "queued"
         /\ Stage(p) = "granted" <=> p = "granted"
         /\ Stage(p) = "holding" <=> p \in Holding
         /\ Stage(p) = "talking" <=> p = "delivering"
         /\ Stage(p) = "resting" <=> p = "backoff"
         /\ Stage(p) = "fallback" <=> p \in {"fallback", "fallback_stream"}
         /\ Stage(p) = "over" <=> p \in Ended
  BY DEF Stage, PC, Acquiring, Holding, Slotless, Ended

LEMMA StagesAre ==
  ASSUME TypeOK
  PROVE  /\ \A d \in Calls : Stages[d] = Stage(pc[d]) /\ pc[d] \in PC
         /\ Contract!Queued = Waiting /\ Contract!Granted = Granted
  <1>1. \A d \in Calls : Stages[d] = Stage(pc[d]) /\ pc[d] \in PC
    BY DEF TypeOK, Stages
  <1>2. \A d \in Calls : /\ Stages[d] = "queued" <=> pc[d] = "queued"
                         /\ Stages[d] = "granted" <=> pc[d] = "granted"
    BY <1>1, StageValues
  <1> QED BY <1>1, <1>2 DEF Contract!Queued, Contract!Granted, Waiting, Granted

(* A call that moves in the code moves in the contract.                     *)
LEMMA MoveMaps ==
  ASSUME TypeOK, NEW c \in Calls, NEW next, pc' = [pc EXCEPT ![c] = next]
  PROVE  Stages' = [Stages EXCEPT ![c] = Stage(next)]
  BY DEF TypeOK, Stages

LEMMA StayMaps ==
  ASSUME TypeOK, NEW c \in Calls, NEW next, pc' = [pc EXCEPT ![c] = next],
         Stage(next) = Stage(pc[c])
  PROVE  Stages' = Stages
  BY DEF TypeOK, Stages

(* A call that moves without a slot.                                        *)
LEMMA MoveOnMaps ==
  ASSUME TypeOK, NoIdleSlot, NEW c \in Calls, NEW next \in PC \ {"queued"},
         pc[c] # "granted", MoveOn(c, next)
  PROVE  Contract!Move(c, Stage(next)) /\ NoIdleSlot'
  <1>1. Waiting' \subseteq Waiting /\ Granted \subseteq Granted'
    BY DEF MoveOn, TypeOK, Waiting, Granted
  <1> QED BY <1>1, MoveMaps DEF MoveOn, NoIdleSlot, Contract!Move

(* A slot given back is free only if no call queues for it.                 *)
LEMMA GiveSlotMaps ==
  ASSUME TypeOK, NoIdleSlot, NEW c \in Calls, NEW next \in PC \ {"queued"},
         pc[c] # "queued", GiveSlot(c, next)
  PROVE  Contract!Free(c, Stage(next)) /\ NoIdleSlot'
  <1>1. CASE Waiting = {} /\ value' = value + 1 /\ pc' = [pc EXCEPT ![c] = next]
    <2>1. Waiting' = {}
      BY <1>1 DEF TypeOK, Waiting
    <2> QED BY <1>1, <2>1, MoveMaps, StagesAre DEF NoIdleSlot, Contract!Free
  <1>2. ASSUME NEW d \in Waiting, value' = value,
               pc' = [pc EXCEPT ![c] = next, ![d] = "granted"]
        PROVE  Contract!Free(c, Stage(next)) /\ NoIdleSlot'
    <2>1. d \in Calls /\ d # c
      BY DEF Waiting
    <2>2. Stages' = [Stages EXCEPT ![c] = Stage(next), ![d] = Stage("granted")]
      BY <1>2, <2>1 DEF TypeOK, Stages
    <2>3. Stage("granted") = "granted"
      BY StageValues DEF PC, Acquiring
    <2>4. d \in Contract!Queued
      BY StagesAre
    <2>5. d \in Granted'
      BY <1>2, <2>1 DEF TypeOK, Granted
    <2> QED BY <1>2, <2>2, <2>3, <2>4, <2>5 DEF NoIdleSlot, Contract!Free
  <1> QED BY <1>1, <1>2 DEF GiveSlot

(* A call leaves its place, with its slot if it has one.                    *)
LEMMA LeaveMaps ==
  ASSUME TypeOK, NoIdleSlot, NEW c \in Calls, NEW next \in PC \ {"queued"},
         \/ pc[c] \in Holding /\ Release(c, next)
         \/ pc[c] \notin Holding /\ Withdraw(c, next)
         \/ LeaveStream(c, next)
  PROVE  Contract!Leave(c, Stage(next)) /\ NoIdleSlot'
  <1>0. /\ Stages[c] \in {"granted", "holding"} <=> pc[c] \in Holding \cup {"granted"}
        /\ "opening" \in Holding /\ "delivering" \notin Holding \cup {"granted"}
        /\ "queued" \notin Holding
    BY StagesAre, StageValues DEF Holding
  <1>1. CASE pc[c] \in Holding /\ Release(c, next)
    BY <1>0, <1>1, GiveSlotMaps DEF Release, Contract!Leave
  <1>2. CASE pc[c] \notin Holding /\ Withdraw(c, next)
    <2>1. CASE pc[c] = "granted"
      BY <1>0, <1>2, <2>1, GiveSlotMaps DEF Withdraw, Contract!Leave
    <2>2. CASE pc[c] # "granted"
      BY <1>0, <1>2, <2>2, MoveOnMaps DEF Withdraw, Contract!Leave
    <2> QED BY <2>1, <2>2
  <1>3. CASE pc[c] = "opening" /\ Release(c, next)
    BY <1>0, <1>1, <1>3
  <1>4. CASE pc[c] = "delivering" /\ MoveOn(c, next)
    BY <1>0, <1>4, MoveOnMaps DEF Contract!Leave
  <1> QED BY <1>1, <1>2, <1>3, <1>4 DEF LeaveStream

(* The semaphore: a slot is taken, or there is none and the call queues.    *)
LEMMA TakeSlotMaps ==
  ASSUME IInv, NoIdleSlot, NEW c \in Calls, TakeSlot(c), due[c] = 0,
         pc[c] \in {"ready", "cooling", "throttled"}, UNCHANGED <<emitted, due>>
  PROVE  (Contract!Take(c) \/ Contract!Queue(c)) /\ NoIdleSlot'
  <1>0. /\ TypeOK /\ Stages[c] = "waiting" /\ requests[c] < Attempts
        /\ "requesting" \in PC /\ Stage("requesting") = "holding"
        /\ "queued" \in PC /\ Stage("queued") = "queued"
    <2>1. TypeOK
      BY DEF IInv
    <2>2. Stages[c] = "waiting"
      BY <2>1, StagesAre, StageValues
    <2>3. requests[c] < Attempts
      <3>1. requests[c] < attempt[c]
        BY DEF IInv, RequestsCounted, Acquiring
      <3> QED BY <2>1, <3>1 DEF TypeOK
    <2>4. "requesting" \in PC /\ "requesting" \in Holding /\ "queued" \in PC
      BY DEF PC, Acquiring, Holding
    <2>5. Stage("requesting") = "holding" /\ Stage("queued") = "queued"
      BY <2>4, StageValues
    <2> QED BY <2>1, <2>2, <2>3, <2>4, <2>5
  <1>1. CASE value > 0 /\ Waiting = {} /\ Granted = {}
    <2>1. /\ value' = value - 1 /\ requests' = [requests EXCEPT ![c] = @ + 1]
          /\ pc' = [pc EXCEPT ![c] = "requesting"]
      BY <1>1 DEF TakeSlot
    <2>2. Stages' = [Stages EXCEPT ![c] = "holding"]
      BY <1>0, <2>1, MoveMaps
    <2>3. Waiting' = {}
      BY <1>0, <1>1, <2>1 DEF TypeOK, Waiting
    <2> QED BY <1>0, <1>1, <2>1, <2>2, <2>3, StagesAre
        DEF NoIdleSlot, Contract!Take, Contract!Send
  <1>2. CASE ~(value > 0 /\ Waiting = {} /\ Granted = {})
    <2>1. pc' = [pc EXCEPT ![c] = "queued"] /\ UNCHANGED <<value, requests>>
      BY <1>2 DEF TakeSlot
    <2>2. value = 0 \/ Granted # {}
      BY <1>0, <1>2 DEF NoIdleSlot, TypeOK
    <2>3. Stages' = [Stages EXCEPT ![c] = "queued"]
      BY <1>0, <2>1, MoveMaps
    <2>4. Granted' = Granted
      BY <1>0, <2>1 DEF TypeOK, Granted
    <2> QED BY <1>0, <2>1, <2>2, <2>3, <2>4, StagesAre
        DEF NoIdleSlot, Contract!Queue, Contract!Move
  <1> QED BY <1>1, <1>2

(* Sleeping out a pause or a window is waiting still.                       *)
LEMMA SleepMaps ==
  ASSUME IInv, NoIdleSlot, NEW c \in Calls, NEW next \in {"cooling", "throttled"}, NEW t,
         pc[c] \in {"ready", "cooling", "throttled"}, SleepFor(c, next, t),
         UNCHANGED <<value, emitted, requests, due>>
  PROVE  UNCHANGED Contract!vars /\ NoIdleSlot'
  <1>1. pc' = [pc EXCEPT ![c] = next] /\ TypeOK
    BY DEF SleepFor, IInv
  <1>2. next \in PC /\ pc[c] \in PC /\ Stage(next) = "waiting" /\ Stage(pc[c]) = "waiting"
    BY StageValues DEF PC, Acquiring
  <1>3. Waiting' = Waiting /\ Granted' = Granted
    BY <1>1 DEF TypeOK, Waiting, Granted
  <1> QED BY <1>1, <1>2, <1>3, StayMaps DEF NoIdleSlot, Contract!vars

(* The gates of acquire().                                                  *)
LEMMA AcquireMaps ==
  ASSUME IInv, NoIdleSlot, NEW c \in Calls, Acquire(c) \/ Recheck(c)
  PROVE  [Contract!Next]_Contract!vars /\ NoIdleSlot'
  <1>0. pc[c] \in {"ready", "cooling", "throttled"} /\ UNCHANGED <<emitted, due>>
    BY DEF Acquire, Recheck
  <1>1. ASSUME PassWindow(c), due[c] = 0
        PROVE  [Contract!Next]_Contract!vars /\ NoIdleSlot'
    <2>1. CASE TakeSlot(c)
      BY <1>0, <1>1, <2>1, TakeSlotMaps DEF Contract!Next
    <2>2. CASE /\ SleepFor(c, "throttled", Window - Kept[1] + 1)
               /\ UNCHANGED <<value, inFlight, requests>>
      BY <1>0, <2>2, SleepMaps
    <2> QED BY <1>1, <2>1, <2>2 DEF PassWindow
  <1>2. CASE Recheck(c)
    BY <1>1, <1>2 DEF Recheck, IInv, DueWithinPause, Admitted
  <1>3. CASE Acquire(c) /\ pause > 0
    <2>1. PICK j \in Jitters : SleepFor(c, "cooling", pause + j)
      BY <1>3 DEF Acquire, PassPause
    <2> QED BY <1>0, <1>3, <2>1, SleepMaps DEF Acquire, PassPause
  <1>4. CASE Acquire(c) /\ ~(pause > 0)
    <2>1. due[c] = 0
      BY <1>4 DEF IInv, TypeOK, DueWithinPause
    <2> QED BY <1>1, <1>4, <2>1 DEF Acquire, PassPause
  <1> QED BY <1>2, <1>3, <1>4

(* A step to an end, to the fallback or, with attempts left, to another     *)
(* attempt; a failure may tell the call to wait.                            *)
LEMMA OnwardMaps ==
  ASSUME IInv, NEW c \in Calls, NEW next \in PC, pc[c] # "idle",
         Contract!Leave(c, Stage(next)), Contract!Told(c),
         UNCHANGED <<emitted, requests>>,
         \/ next \in Ended
         \/ next = "fallback" /\ next = AfterRaise(c)
            /\ pc[c] \notin Ended \cup {"fallback", "fallback_stream"}
         \/ next \in {"backoff", "ready"} /\ requests[c] < Attempts
            /\ pc[c] \in Holding \cup {"delivering", "backoff"}
  PROVE  Contract!Next
  <1>0. pc[c] \in PC /\ Stages[c] = Stage(pc[c])
    BY StagesAre DEF IInv
  <1>1. CASE next \in Ended
    <2>1. Stage(next) = "over" /\ Stages[c] # "idle"
      BY <1>0, <1>1, StageValues
    <2> QED BY <2>1 DEF Contract!Next, Contract!End
  <1>2. CASE next = "fallback" /\ next = AfterRaise(c)
             /\ pc[c] \notin Ended \cup {"fallback", "fallback_stream"}
    <2>1. Stage(next) = "fallback" /\ Stages[c] \notin {"idle", "over", "fallback"}
      BY <1>0, <1>2, StageValues
    <2>2. c \in FallbackCalls /\ ~emitted[c]
      BY <1>2 DEF AfterRaise
    <2> QED BY <2>1, <2>2 DEF Contract!Next, Contract!GoToFallback
  <1>3. CASE next \in {"backoff", "ready"} /\ requests[c] < Attempts
             /\ pc[c] \in Holding \cup {"delivering", "backoff"}
    <2>1. Stage(next) \in {"resting", "waiting"}
          /\ Stages[c] \in {"holding", "talking", "resting"}
      BY <1>0, <1>3, StageValues
    <2> QED BY <1>3, <2>1 DEF Contract!Next, Contract!Again
  <1> QED BY <1>1, <1>2, <1>3

(* A 429 tells the call that got it to wait.                                *)
LEMMA ReportMaps ==
  ASSUME TypeOK, NEW c \in Calls, NEW e \in Error, Report(c, e),
         pc[c] \in Holding \cup {"delivering"}
  PROVE  Contract!Told(c)
  <1>1. Stages[c] \in {"holding", "talking"}
    BY StagesAre, StageValues
  <1>2. e.kind = "rate_limit" => e.after \in Pauses
    BY DEF Error
  <1> QED BY <1>1, <1>2 DEF Report, Contract!Told

(* Failures of requests and of streams.                                     *)
LEMMA FailureMaps ==
  ASSUME IInv, NoIdleSlot, NEW c \in Calls, NEW e \in Error,
         RequestFails(c, e) \/ StreamFails(c, e)
  PROVE  [Contract!Next]_Contract!vars /\ NoIdleSlot'
  <1>0. /\ TypeOK /\ AfterRaise(c) \in PC \ (Holding \cup {"granted", "queued"})
        /\ AfterRaise(c) \in Ended \cup {"fallback"} /\ "backoff" \in PC
        /\ "requesting" \in Holding /\ "opening" \in Holding
    BY AfterRaisePlace DEF IInv, Ended, PC, Slotless, Holding
  <1>1. ~IsLast(c, e) => requests[c] < Attempts
    BY DEF IsLast, IInv, TypeOK, RequestsCounted
  <1>2. CASE RequestFails(c, e)
    <2>1. /\ pc[c] = "requesting" /\ Report(c, e) /\ UNCHANGED <<emitted, requests>>
          /\ pc[c] \notin Ended \cup {"fallback", "fallback_stream", "idle"}
      BY <1>2 DEF RequestFails, Ended
    <2>2. Contract!Told(c)
      BY <1>0, <2>1, ReportMaps
    <2>3. CASE IsLast(c, e)
      <3>1. Contract!Leave(c, Stage(AfterRaise(c))) /\ NoIdleSlot'
        BY <1>0, <1>2, <2>1, <2>3, LeaveMaps DEF RequestFails
      <3> QED BY <1>0, <2>1, <2>2, <3>1, OnwardMaps
    <2>4. CASE ~IsLast(c, e)
      <3>1. pc' = [pc EXCEPT ![c] = "holdoff"] /\ value' = value
        BY <1>2, <2>4 DEF RequestFails, SleepFor
      <3>2. "holdoff" \in PC /\ "holdoff" \in Holding
        BY DEF PC, Holding
      <3>3. Stages[c] = "holding" /\ Stage("holdoff") = Stage(pc[c])
        BY <1>0, <2>1, <3>2, StageValues, StagesAre
      <3>4. Stages' = Stages
        BY <1>0, <3>1, <3>3, StayMaps
      <3>5. NoIdleSlot'
        <4>1. Waiting' = Waiting /\ Granted' = Granted
          BY <1>0, <2>1, <3>1 DEF TypeOK, Waiting, Granted
        <4> QED BY <3>1, <4>1 DEF NoIdleSlot
      <3> QED BY <1>1, <2>1, <2>2, <2>4, <3>1, <3>3, <3>4, <3>5
          DEF Contract!Next, Contract!Again
    <2> QED BY <2>3, <2>4
  <1>3. CASE StreamFails(c, e)
    <2>1. /\ pc[c] \in {"opening", "delivering"} /\ Report(c, e)
          /\ UNCHANGED <<emitted, requests>>
          /\ pc[c] \notin Ended \cup {"fallback", "fallback_stream", "idle"}
      BY <1>3 DEF StreamFails, LeaveStream, Ended
    <2>2. Contract!Told(c)
      BY <1>0, <2>1, ReportMaps
    <2>3. CASE IsLast(c, e)
      <3>1. Contract!Leave(c, Stage(AfterRaise(c))) /\ NoIdleSlot'
        BY <1>0, <1>3, <2>3, LeaveMaps DEF StreamFails
      <3> QED BY <1>0, <2>1, <2>2, <3>1, OnwardMaps
    <2>4. CASE ~IsLast(c, e)
      <3>1. Contract!Leave(c, Stage("backoff")) /\ NoIdleSlot'
        BY <1>0, <1>3, <2>4, LeaveMaps DEF StreamFails
      <3> QED BY <1>0, <1>1, <2>1, <2>2, <2>4, <3>1, OnwardMaps
    <2> QED BY <2>3, <2>4
  <1> QED BY <1>2, <1>3

(* Answers, streams, and what their consumer does.                          *)
LEMMA AnswerMaps ==
  ASSUME IInv, NoIdleSlot, NEW c \in Calls,
         \/ Answered(c) \/ StreamOpens(c) \/ FirstChunk(c) \/ StreamEnds(c)
         \/ ConsumerResumes(c) \/ FallbackAnswers(c)
  PROVE  [Contract!Next]_Contract!vars /\ NoIdleSlot'
  <1>0. /\ TypeOK /\ "done" \in PC /\ "done" \in Ended /\ Contract!Told(c)
        /\ {"requesting", "opening", "yielding"} \subseteq Holding
        /\ {"requesting", "opening", "yielding", "delivering"} \subseteq PC
    BY DEF IInv, PC, Ended, Holding, Slotless, Contract!Told, history, Answered,
           StreamOpens, FirstChunk, StreamEnds, ConsumerResumes, FallbackAnswers
  <1>1. CASE Answered(c) /\ wrapped[c]
    <2>1. /\ pc[c] = "requesting" /\ MoveOn(c, "yielding")
          /\ emitted' = [emitted EXCEPT ![c] = TRUE] /\ UNCHANGED <<requests, due>>
      BY <1>1 DEF Answered, history
    <2>2. Stages[c] = "holding" /\ Stages' = Stages
      BY <1>0, <2>1, StageValues, StagesAre, StayMaps DEF MoveOn
    <2>3. NoIdleSlot'
      BY <1>0, <2>1, MoveOnMaps
    <2> QED BY <2>1, <2>2, <2>3 DEF MoveOn, Contract!Next, Contract!Speak
  <1>2. CASE Answered(c) /\ ~wrapped[c]
    <2>1. /\ pc[c] = "requesting" /\ Release(c, "done")
          /\ UNCHANGED <<emitted, requests, due>>
      BY <1>2 DEF Answered, history
    <2> QED BY <1>0, <2>1, LeaveMaps, OnwardMaps
  <1>3. CASE StreamOpens(c)
    <2>1. /\ pc[c] = "requesting" /\ MoveOn(c, "opening")
          /\ UNCHANGED <<emitted, requests, due>>
      BY <1>3 DEF StreamOpens, history
    <2>2. Stages' = Stages
      BY <1>0, <2>1, StageValues, StayMaps DEF MoveOn
    <2>3. NoIdleSlot'
      BY <1>0, <2>1, MoveOnMaps
    <2> QED BY <2>1, <2>2, <2>3 DEF MoveOn, Contract!vars
  <1>4. CASE FirstChunk(c)
    <2>1. /\ pc[c] = "opening" /\ Release(c, "delivering")
          /\ emitted' = [emitted EXCEPT ![c] = TRUE] /\ UNCHANGED <<requests, due>>
      BY <1>4 DEF FirstChunk, history
    <2>2. Stages[c] = "holding" /\ Stage("delivering") = "talking"
      BY <1>0, <2>1, StageValues, StagesAre
    <2>3. Contract!Free(c, "talking") /\ NoIdleSlot'
      BY <1>0, <2>1, <2>2, GiveSlotMaps DEF Release
    <2> QED BY <2>1, <2>2, <2>3 DEF Contract!Next, Contract!Speak
  <1>5. CASE StreamEnds(c)
    <2>1. /\ pc[c] \in {"opening", "delivering"} /\ LeaveStream(c, "done")
          /\ UNCHANGED <<emitted, requests, due>>
      BY <1>5 DEF StreamEnds, LeaveStream, history
    <2> QED BY <1>0, <2>1, LeaveMaps, OnwardMaps
  <1>6. CASE ConsumerResumes(c)
    <2>1. /\ pc[c] = "yielding" /\ Release(c, "done")
          /\ UNCHANGED <<emitted, requests, due>>
      BY <1>6 DEF ConsumerResumes, history
    <2> QED BY <1>0, <2>1, LeaveMaps, OnwardMaps
  <1>7. CASE FallbackAnswers(c)
    <2>1. PICK next \in {"done", "failed", "fallback_stream"} : MoveOn(c, next)
      BY <1>7 DEF FallbackAnswers
    <2>2. /\ pc[c] \in {"fallback", "fallback_stream"} /\ UNCHANGED <<emitted, requests, due>>
      BY <1>7 DEF FallbackAnswers, history
    <2>3. /\ next \in PC \ {"queued"} /\ pc[c] \in PC
          /\ next # "fallback_stream" => next \in Ended
      BY <2>2 DEF PC, Slotless, Ended
    <2>4. NoIdleSlot' /\ Contract!Move(c, Stage(next))
      BY <1>0, <2>1, <2>2, <2>3, MoveOnMaps
    <2>5. CASE next = "fallback_stream"
      <3>1. Stages' = Stages
        BY <1>0, <2>1, <2>2, <2>3, <2>5, StageValues, StayMaps DEF MoveOn
      <3> QED BY <2>1, <2>2, <2>4, <3>1 DEF MoveOn, Contract!vars
    <2>6. CASE next \in Ended
      <3>1. Stages[c] = "fallback"
        BY <1>0, <2>2, <2>3, StageValues, StagesAre
      <3>2. Contract!Leave(c, Stage(next))
        BY <2>4, <3>1 DEF Contract!Leave
      <3> QED BY <1>0, <2>2, <2>3, <2>4, <2>6, <3>2, OnwardMaps
    <2> QED BY <2>3, <2>5, <2>6
  <1> QED BY <1>1, <1>2, <1>3, <1>4, <1>5, <1>6, <1>7

(* Beginning, resuming with a granted slot, and the next attempt.           *)
LEMMA ProgressMaps ==
  ASSUME IInv, NoIdleSlot, NEW c \in Calls, Start(c) \/ Resume(c) \/ Retry(c)
  PROVE  [Contract!Next]_Contract!vars /\ NoIdleSlot'
  <1>0. TypeOK /\ {"ready", "requesting", "idle", "granted"} \subseteq PC
    BY DEF IInv, PC, Acquiring, Holding
  <1>1. CASE Start(c)
    <2>1. /\ pc[c] = "idle" /\ MoveOn(c, "ready") /\ UNCHANGED <<emitted, requests, due>>
      BY <1>1 DEF Start, MoveOn, limiterVars, history
    <2>2. Stages[c] = "idle" /\ Stage("ready") = "waiting"
      BY <1>0, <2>1, StageValues, StagesAre
    <2> QED BY <1>0, <2>1, <2>2, MoveOnMaps DEF Contract!Next, Contract!Begin
  <1>2. CASE Resume(c)
    <2>1. /\ pc[c] = "granted"
          /\ requests' = [requests EXCEPT ![c] = @ + 1] /\ UNCHANGED <<emitted, due>>
      BY <1>2 DEF Resume
    <2>2. /\ Stages[c] = "granted" /\ Stage("requesting") = "holding"
      BY <1>0, <2>1, StageValues, StagesAre DEF Holding
    <2>3. due[c] = 0 /\ requests[c] < Attempts
      BY <2>1 DEF IInv, TypeOK, DueWithinPause, RequestsCounted, Admitted, Acquiring
    <2>4. CASE value > 0 /\ Waiting # {}
      <3>1. PICK d \in Waiting : pc' = [pc EXCEPT ![c] = "requesting", ![d] = "granted"]
        BY <1>2, <2>4 DEF Resume
      <3>2. value' = value - 1
        BY <1>2, <2>4 DEF Resume
      <3>3. d \in Calls /\ d # c /\ Stage("granted") = "granted" /\ d \in Contract!Queued
        BY <1>0, <2>1, StageValues, StagesAre DEF Waiting
      <3>4. Stages' = [Stages EXCEPT ![c] = "holding", ![d] = "granted"]
        BY <1>0, <2>2, <3>1, <3>3 DEF TypeOK, Stages
      <3>5. d \in Granted'
        BY <1>0, <3>1, <3>3 DEF TypeOK, Granted
      <3> QED BY <2>1, <2>2, <2>3, <2>4, <3>2, <3>3, <3>4, <3>5
          DEF NoIdleSlot, Contract!Next, Contract!Use, Contract!Send
    <2>5. CASE ~(value > 0 /\ Waiting # {})
      <3>1. pc' = [pc EXCEPT ![c] = "requesting"] /\ value' = value
        BY <1>2, <2>5 DEF Resume
      <3>2. Stages' = [Stages EXCEPT ![c] = "holding"]
        BY <1>0, <2>2, <3>1, MoveMaps
      <3>3. value = 0 \/ (Contract!Queued = {} /\ Waiting = {})
        BY <1>0, <2>5, StagesAre DEF TypeOK
      <3>4. Waiting' \subseteq Waiting
        BY <1>0, <3>1 DEF TypeOK, Waiting
      <3> QED BY <2>1, <2>2, <2>3, <3>1, <3>2, <3>3, <3>4
          DEF NoIdleSlot, Contract!Next, Contract!Use, Contract!Move, Contract!Send
    <2> QED BY <2>4, <2>5
  <1>3. CASE Retry(c)
    <2>1. UNCHANGED <<emitted, requests, due>>
      BY <1>3 DEF Retry, history
    <2>2. \/ pc[c] = "holdoff" /\ Release(c, "ready")
          \/ pc[c] = "backoff" /\ MoveOn(c, "ready")
      BY <1>3 DEF Retry
    <2>3. pc[c] \in Holding \cup {"delivering", "backoff"} /\ pc[c] # "idle"
      BY <2>2 DEF Holding
    <2>4. requests[c] < Attempts
      BY <2>2 DEF IInv, TypeOK, RequestsCounted
    <2>5. Contract!Told(c)
      BY <2>1 DEF Contract!Told
    <2>6. Contract!Leave(c, Stage("ready")) /\ NoIdleSlot'
      BY <1>0, <2>2, LeaveMaps DEF Holding, Withdraw
    <2> QED BY <1>0, <2>1, <2>3, <2>4, <2>5, <2>6, OnwardMaps
  <1> QED BY <1>1, <1>2, <1>3

(* Giving up the wait, by the clock or by a cancellation.                   *)
LEMMA GiveUpMaps ==
  ASSUME IInv, NoIdleSlot, NEW c \in Calls, TimedOut(c) \/ Cancel(c)
  PROVE  [Contract!Next]_Contract!vars /\ NoIdleSlot'
  <1>0. /\ TypeOK /\ AfterRaise(c) \in PC \ {"queued"}
        /\ AfterRaise(c) \in Ended \cup {"fallback"}
        /\ "cancelled" \in PC \ {"queued"} /\ "cancelled" \in Ended
    BY AfterRaisePlace DEF IInv, Ended, PC, AfterRaise
  <1>1. UNCHANGED <<emitted, requests, due>> /\ Contract!Told(c)
    BY DEF TimedOut, Cancel, history, Contract!Told
  <1>2. CASE TimedOut(c)
    <2>1. pc[c] \in Acquiring /\ Withdraw(c, AfterRaise(c))
      BY <1>2 DEF TimedOut
    <2>2. pc[c] \notin Holding /\ pc[c] # "idle"
          /\ pc[c] \notin Ended \cup {"fallback", "fallback_stream"}
      BY <2>1 DEF Acquiring, Holding, Ended
    <2>3. Contract!Leave(c, Stage(AfterRaise(c))) /\ NoIdleSlot'
      BY <1>0, <2>1, <2>2, LeaveMaps
    <2> QED BY <1>0, <1>1, <2>2, <2>3, OnwardMaps
  <1>3. CASE Cancel(c)
    <2>1. Contract!Leave(c, Stage("cancelled")) /\ NoIdleSlot' /\ pc[c] # "idle"
      BY <1>0, <1>3, LeaveMaps DEF Cancel
    <2> QED BY <1>0, <1>1, <2>1, OnwardMaps
  <1> QED BY <1>2, <1>3

(* Every step is a step of the contract or a stutter.                       *)
LEMMA NextMaps ==
  ASSUME IInv, NoIdleSlot, [Next]_vars
  PROVE  [Contract!Next]_Contract!vars /\ NoIdleSlot'
  <1>1. CASE Tick
    <2>1. /\ Stages' = Stages /\ Waiting' = Waiting /\ Granted' = Granted
          /\ UNCHANGED <<value, emitted, requests>>
      BY <1>1 DEF Tick, Stages, Waiting, Granted
    <2>2. due' = [c \in Calls |-> IF due[c] > 0 THEN due[c] - 1 ELSE 0]
      BY <1>1 DEF Tick, Less
    <2> QED BY <2>1, <2>2 DEF NoIdleSlot, Contract!Next, Contract!Tick
  <1>2. ASSUME NEW c \in Calls,
               Start(c) \/ Runs(c) \/ Responds(c) \/ TimedOut(c) \/ Cancel(c)
        PROVE  [Contract!Next]_Contract!vars /\ NoIdleSlot'
    BY <1>2, AcquireMaps, FailureMaps, AnswerMaps, ProgressMaps, GiveUpMaps
    DEF Runs, Responds
  <1>3. CASE UNCHANGED vars
    BY <1>3 DEF vars, callVars, limiterVars, history, Contract!vars, Stages, NoIdleSlot,
                Waiting, Granted
  <1> QED BY <1>1, <1>2, <1>3 DEF Next

(* The limiter, the retries and the fallback keep the call quota, for any   *)
(* number of calls, slots and attempts, and any pauses.                     *)
THEOREM CallQuotaIsImplemented == Spec => ImplementsCallQuota
  <1>1. Init => Contract!Init /\ NoIdleSlot
    <2> SUFFICES ASSUME Init PROVE Contract!Init /\ NoIdleSlot
      OBVIOUS
    <2>1. Stage("idle") = "idle"
      BY StageValues DEF PC
    <2>2. Stages = [c \in Calls |-> "idle"]
      BY <2>1 DEF Init, Stages
    <2>3. Waiting = {}
      BY DEF Init, Waiting
    <2> QED BY <2>2, <2>3 DEF Init, NoIdleSlot, Contract!Init
  <1> QED BY <1>1, NextMaps, Invariance, PTL DEF Spec, ImplementsCallQuota, Contract!Spec
==============================================================================
