------------------------- MODULE ToolApprovalsProofs -------------------------
(***************************************************************************)
(* Proofs about ToolApprovals: for any sessions, turns and calls, a flagged *)
(* call runs at most as often as it was approved, the user is asked about a *)
(* call once at a time, and the service and the guard keep the ledger that  *)
(* both follow from.                                                        *)
(***************************************************************************)
EXTENDS ToolApprovals, FiniteSetTheorems, SequenceTheorems, TLAPS

(* The approvals in the service that a call with this signature may use.    *)
Available(s, g) ==
    {r \in DOMAIN requests :
        /\ requests[r].status = "approved"
        /\ requests[r].session = s
        /\ Signature(requests[r].call) = g}

(* What is still available is within what was given and not used.           *)
BalanceCovers ==
    \A s \in Sessions, g \in Signatures : Cardinality(Available(s, g)) <= balance[<<s, g>>]

(* The inductive invariant.                                                 *)
IInv == TypeOK /\ BalanceCovers /\ AskedOnce

------------------------------------------------------------------------------
(* Lemmas about the requests *)

(* Requests may be closed, and are otherwise as they were.                  *)
Keeps(q) ==
    /\ q \in Seq(Request) /\ Len(q) = Len(requests)
    /\ \A r \in 1..Len(requests) :
        /\ q[r].session = requests[r].session
        /\ q[r].call = requests[r].call
        /\ q[r].queue = requests[r].queue
        /\ q[r].status = requests[r].status \/ q[r].status = "closed"

(* Closing requests leaves requests, those closed are closed.               *)
LEMMA ClosedKeeps ==
  ASSUME TypeOK, NEW R
  PROVE  /\ Keeps(Closed(R))
         /\ \A r \in R \cap (1..Len(requests)) : Closed(R)[r].status = "closed"
  <1>1. requests \in Seq(Request) /\ DOMAIN requests = 1..Len(requests)
    BY DEF TypeOK
  <1>2. \A r \in 1..Len(requests) : Closed(R)[r] \in Request
    <2> SUFFICES ASSUME NEW r \in 1..Len(requests) PROVE Closed(R)[r] \in Request
      OBVIOUS
    <2>1. requests[r] \in Request
      BY <1>1
    <2> QED BY <1>1, <2>1 DEF Closed, Request
  <1>3. Closed(R) \in Seq(Request) /\ Len(Closed(R)) = Len(requests)
    BY <1>1, <1>2 DEF Closed
  <1> QED BY <1>1, <1>3 DEF Closed, Keeps, Request

(* Approvals do not grow by closing requests.                               *)
LEMMA KeepsAvailable ==
  ASSUME TypeOK, Keeps(requests'), NEW s \in Sessions, NEW g \in Signatures
  PROVE  Available(s, g)' \subseteq Available(s, g)
  <1>1. DOMAIN requests' = 1..Len(requests) /\ DOMAIN requests = 1..Len(requests)
    BY DEF TypeOK, Keeps
  <1>2. \A r \in 1..Len(requests) :
            /\ requests'[r].session = requests[r].session
            /\ requests'[r].call = requests[r].call
            /\ requests'[r].status = "approved" => requests[r].status = "approved"
    BY DEF Keeps
  <1> QED BY <1>1, <1>2 DEF Available, Signature

(* Nor does closing them make the user be asked twice.                      *)
LEMMA KeepsAskedOnce ==
  ASSUME TypeOK, AskedOnce, Keeps(requests') PROVE AskedOnce'
  <1>1. DOMAIN requests' = 1..Len(requests) /\ DOMAIN requests = 1..Len(requests)
    BY DEF TypeOK, Keeps
  <1>2. \A r \in 1..Len(requests) :
            /\ requests'[r].session = requests[r].session
            /\ requests'[r].call = requests[r].call
            /\ requests'[r].status = "pending" => requests[r].status = "pending"
    BY DEF Keeps
  <1> QED BY <1>1, <1>2 DEF AskedOnce, HasStatus

(* Approvals are finitely many.                                             *)
LEMMA AvailableFinite ==
  ASSUME TypeOK, NEW s, NEW g, NEW S, S \subseteq Available(s, g)
  PROVE  /\ IsFiniteSet(S) /\ Cardinality(S) \in Nat
         /\ Cardinality(S) <= Cardinality(Available(s, g))
  <1>1. Available(s, g) \subseteq 1..Len(requests) /\ Len(requests) \in Nat
    BY DEF TypeOK, Available
  <1>0. IsFiniteSet(1..Len(requests))
    BY <1>1, FS_Interval
  <1>2. IsFiniteSet(Available(s, g))
    BY <1>0, <1>1, FS_Subset
  <1> QED BY <1>2, FS_Subset, FS_CardinalityType

(* Fewer approvals are covered by the same balance.                         *)
LEMMA BalanceKept ==
  ASSUME TypeOK, BalanceCovers, UNCHANGED balance,
         \A s \in Sessions, g \in Signatures : Available(s, g)' \subseteq Available(s, g)
  PROVE  BalanceCovers'
  <1> SUFFICES ASSUME NEW s \in Sessions, NEW g \in Signatures
               PROVE  Cardinality(Available(s, g)') <= balance[<<s, g>>]
    BY DEF BalanceCovers
  <1>1. /\ Cardinality(Available(s, g)') \in Nat
        /\ Cardinality(Available(s, g)') <= Cardinality(Available(s, g))
        /\ Cardinality(Available(s, g)) \in Nat
    BY AvailableFinite
  <1>2. balance[<<s, g>>] \in Int /\ Cardinality(Available(s, g)) <= balance[<<s, g>>]
    BY DEF TypeOK, BalanceCovers
  <1> QED BY <1>1, <1>2

(* What a step has to show of the requests.                                 *)
RequestsKept == Keeps(requests') /\ UNCHANGED balance

LEMMA RequestsKeptSafe ==
  ASSUME IInv, RequestsKept PROVE BalanceCovers' /\ AskedOnce'
  BY KeepsAvailable, BalanceKept, KeepsAskedOnce DEF IInv, RequestsKept

(* A step that leaves the service alone.                                    *)
LEMMA UnchangedKept ==
  ASSUME IInv, UNCHANGED serviceVars PROVE BalanceCovers' /\ AskedOnce'
  <1>1. Keeps(requests)
    BY DEF IInv, TypeOK, Keeps
  <1>2. RequestsKept
    BY <1>1 DEF serviceVars, RequestsKept
  <1> QED BY <1>2, RequestsKeptSafe

------------------------------------------------------------------------------
(* Requests of the user *)

(* Resolving a request changes its status; others may be closed.            *)
LEMMA ResolveResult ==
  ASSUME TypeOK, NEW r \in 1..Len(requests), NEW st \in {"approved", "closed"},
         Resolve(r, st)
  PROVE  /\ requests' \in Seq(Request) /\ Len(requests') = Len(requests)
         /\ \A q \in 1..Len(requests) :
              /\ requests'[q].session = requests[q].session
              /\ requests'[q].call = requests[q].call
              /\ requests'[q].queue = requests[q].queue
              /\ requests'[q].status \in {requests[q].status, "closed"} \/ q = r
         /\ requests'[r].status = st
  <1>1. PICK lost : requests' = [Closed(lost) EXCEPT ![r].status = st]
    BY DEF Resolve
  <1>2. /\ Closed(lost) \in Seq(Request) /\ Len(Closed(lost)) = Len(requests)
        /\ \A q \in 1..Len(requests) :
              /\ Closed(lost)[q].session = requests[q].session
              /\ Closed(lost)[q].call = requests[q].call
              /\ Closed(lost)[q].queue = requests[q].queue
              /\ Closed(lost)[q].status \in {requests[q].status, "closed"}
    BY ClosedKeeps DEF Keeps
  <1>3. [Closed(lost)[r] EXCEPT !.status = st] \in Request
    <2>1. Closed(lost)[r] \in Request
      BY <1>2
    <2> QED BY <2>1 DEF Request
  <1>4. requests' \in Seq(Request) /\ Len(requests') = Len(requests)
    BY <1>1, <1>2, <1>3
  <1>5. \A q \in 1..Len(requests) :
            requests'[q] = IF q = r THEN [Closed(lost)[r] EXCEPT !.status = st]
                                    ELSE Closed(lost)[q]
    BY <1>1, <1>2
  <1>6. Closed(lost)[r] \in Request
    BY <1>2
  <1> QED BY <1>2, <1>4, <1>5, <1>6 DEF Request

(* The oldest requests of a session are pending requests of it.             *)
LEMMA OldestPending ==
  ASSUME TypeOK, NEW s, NEW r \in Oldest(Pending(s))
  PROVE  /\ r \in 1..Len(requests) /\ requests[r] \in Request
         /\ requests[r].session = s /\ requests[r].status = "pending"
  <1>1. r \in Pending(s) /\ requests \in Seq(Request)
    BY DEF Oldest, TypeOK
  <1> QED BY <1>1 DEF Pending, HasStatus

(* An answer gives one approval, or closes the request.                     *)
LEMMA AnswerSafe ==
  ASSUME IInv, NEW t \in Turns, NEW r \in 1..Len(requests), Answer(t, r)
  PROVE  /\ BalanceCovers' /\ AskedOnce'
         /\ requests' \in Seq(Request)
         /\ balance' \in [Sessions \X Signatures -> Int]
         /\ forced' \in [Turns -> Seq(Calls)]
  <1>0. /\ TypeOK /\ requests \in Seq(Request) /\ requests[r] \in Request
        /\ balance \in [Sessions \X Signatures -> Int]
        /\ forced \in [Turns -> Seq(Calls)]
    BY DEF IInv, TypeOK
  <1>1. CASE Resolve(r, "closed") /\ UNCHANGED <<balance, forced>>
    <2>1. Keeps(requests')
      BY <1>0, <1>1, ResolveResult DEF Keeps
    <2>2. RequestsKept
      BY <1>1, <2>1 DEF RequestsKept
    <2> QED BY <1>0, <1>1, <2>1, <2>2, RequestsKeptSafe DEF Keeps
  <1>2. CASE /\ Resolve(r, "approved")
             /\ balance' = [balance EXCEPT
                   ![<<requests[r].session, Signature(requests[r].call)>>] = @ + 1]
             /\ forced' = [forced EXCEPT ![t] = <<requests[r].call>> \o requests[r].queue]
    <2> DEFINE s0 == requests[r].session
               g0 == Signature(requests[r].call)
    <2>1. /\ requests' \in Seq(Request) /\ Len(requests') = Len(requests)
          /\ \A q \in 1..Len(requests) :
              /\ requests'[q].session = requests[q].session
              /\ requests'[q].call = requests[q].call
              /\ requests'[q].status \in {requests[q].status, "closed"} \/ q = r
          /\ requests'[r].status = "approved"
      BY <1>0, <1>2, ResolveResult
    <2>2. s0 \in Sessions /\ g0 \in Signatures
      BY <1>0 DEF Request, Signatures
    <2>3. forced' \in [Turns -> Seq(Calls)]
      <3>1. <<requests[r].call>> \o requests[r].queue \in Seq(Calls)
        BY <1>0 DEF Request
      <3> QED BY <1>0, <1>2, <3>1
    <2>4. AskedOnce'
      <3>1. \A q \in 1..Len(requests) : requests'[q].status = "pending" =>
                requests[q].status = "pending" /\ q # r
        BY <2>1
      <3>2. DOMAIN requests' = 1..Len(requests) /\ DOMAIN requests = 1..Len(requests)
        BY <1>0, <2>1
      <3> QED BY <2>1, <3>1, <3>2 DEF IInv, AskedOnce, HasStatus
    <2>5. balance' \in [Sessions \X Signatures -> Int]
      BY <1>0, <1>2, <2>2
    <2>6. BalanceCovers'
      <3> SUFFICES ASSUME NEW s \in Sessions, NEW g \in Signatures
                   PROVE  Cardinality(Available(s, g)') <= balance'[<<s, g>>]
        BY DEF BalanceCovers
      <3>1. /\ IsFiniteSet(Available(s, g)) /\ Cardinality(Available(s, g)) \in Nat
            /\ Cardinality(Available(s, g)) <= balance[<<s, g>>]
            /\ balance[<<s, g>>] \in Int
        BY <1>0, AvailableFinite DEF IInv, BalanceCovers
      <3>2. CASE s = s0 /\ g = g0
        <4>1. Available(s, g)' \subseteq Available(s, g) \cup {r}
          <5>1. DOMAIN requests' = 1..Len(requests) /\ DOMAIN requests = 1..Len(requests)
            BY <1>0, <2>1
          <5>2. \A q \in 1..Len(requests) : q # r /\ requests'[q].status = "approved" =>
                    requests[q].status = "approved"
            BY <2>1
          <5> QED BY <2>1, <5>1, <5>2 DEF Available, Signature
        <4>2. /\ IsFiniteSet(Available(s, g) \cup {r})
              /\ Cardinality(Available(s, g) \cup {r}) <= Cardinality(Available(s, g)) + 1
              /\ Cardinality(Available(s, g) \cup {r}) \in Nat
          <5> DEFINE A == Available(s, g)
          <5>1. IsFiniteSet(A) /\ Cardinality(A) \in Nat
            BY <3>1
          <5> HIDE DEF A
          <5>2. /\ IsFiniteSet(A \cup {r})
                /\ Cardinality(A \cup {r}) = IF r \in A THEN Cardinality(A)
                                                       ELSE Cardinality(A) + 1
            BY <5>1, FS_AddElement
          <5>3. Cardinality(A \cup {r}) <= Cardinality(A) + 1 /\ Cardinality(A \cup {r}) \in Nat
            BY <5>1, <5>2
          <5> QED BY <5>2, <5>3 DEF A
        <4>3. /\ Cardinality(Available(s, g)') \in Nat
              /\ Cardinality(Available(s, g)') <= Cardinality(Available(s, g) \cup {r})
          BY <4>1, <4>2, FS_Subset, FS_CardinalityType
        <4>4. balance'[<<s, g>>] = balance[<<s, g>>] + 1
          BY <1>0, <1>2, <2>2, <3>2
        <4> QED BY <3>1, <4>2, <4>3, <4>4
      <3>3. CASE ~(s = s0 /\ g = g0)
        <4>1. Available(s, g)' \subseteq Available(s, g)
          <5>1. DOMAIN requests' = 1..Len(requests) /\ DOMAIN requests = 1..Len(requests)
            BY <1>0, <2>1
          <5>2. \A q \in 1..Len(requests) : q # r /\ requests'[q].status = "approved" =>
                    requests[q].status = "approved"
            BY <2>1
          <5> QED BY <2>1, <3>3, <5>1, <5>2 DEF Available, Signature
        <4>2. /\ Cardinality(Available(s, g)') \in Nat
              /\ Cardinality(Available(s, g)') <= Cardinality(Available(s, g))
          BY <3>1, <4>1, FS_Subset, FS_CardinalityType
        <4>3. balance'[<<s, g>>] = balance[<<s, g>>]
          BY <1>0, <1>2, <2>2, <3>3
        <4> QED BY <3>1, <4>2, <4>3
      <3> QED BY <3>2, <3>3
    <2> QED BY <2>1, <2>3, <2>4, <2>5, <2>6
  <1> QED BY <1>1, <1>2 DEF Answer

------------------------------------------------------------------------------
(* The guard *)

(* What the oldest usable approval is.                                      *)
LEMMA ConsumedIs ==
  ASSUME TypeOK, NEW t, NEW c, NEW r \in Consumed(t, c)
  PROVE  /\ r \in 1..Len(requests) /\ requests[r] \in Request
         /\ requests[r].session = session[t] /\ requests[r].status = "approved"
         /\ Tool[requests[r].call] = Tool[c]
  <1>1. r \in Usable(t, c) /\ requests \in Seq(Request)
    BY DEF Consumed, Oldest, TypeOK
  <1> QED BY <1>1 DEF Usable, HasStatus

(* A run spends the approval it is charged for.                             *)
LEMMA RunSafe ==
  ASSUME IInv, NEW t \in Turns, NEW c \in Calls, session[t] \in Sessions, Run(t, c)
  PROVE  /\ BalanceCovers' /\ AskedOnce'
         /\ requests' \in Seq(Request)
         /\ balance' \in [Sessions \X Signatures -> Int]
  <1>0. /\ TypeOK /\ balance \in [Sessions \X Signatures -> Int]
        /\ requests' = Closed(Used(t, c)) /\ Charge(t, c)
        /\ Signature(c) \in Signatures
    BY DEF IInv, TypeOK, Run, Signatures
  <1>1. /\ Keeps(requests')
        /\ \A r \in Used(t, c) \cap (1..Len(requests)) : requests'[r].status = "closed"
    BY <1>0, ClosedKeeps
  <1>2. AskedOnce' /\ requests' \in Seq(Request)
    BY <1>0, <1>1, KeepsAskedOnce DEF IInv, Keeps
  <1>3. balance' \in [Sessions \X Signatures -> Int]
    BY <1>0 DEF Charge
  <1>4. CASE c \notin Flagged
    <2>1. RequestsKept
      BY <1>0, <1>1, <1>4 DEF Charge, RequestsKept
    <2> QED BY <1>2, <1>3, <2>1, RequestsKeptSafe
  <1>5. CASE c \in Flagged
    <2>1. PICK r \in Consumed(t, c) : Input[requests[r].call] = Input[c]
      BY <1>5 DEF Run, Approved
    <2>2. /\ r \in 1..Len(requests) /\ requests[r].session = session[t]
          /\ requests[r].status = "approved" /\ Signature(requests[r].call) = Signature(c)
      BY <1>0, <2>1, ConsumedIs DEF Signature
    <2>3. requests'[r].status = "closed"
      BY <1>1, <2>1, <2>2 DEF Used
    <2> SUFFICES ASSUME NEW s \in Sessions, NEW g \in Signatures
                 PROVE  Cardinality(Available(s, g)') <= balance'[<<s, g>>]
      BY <1>2, <1>3 DEF BalanceCovers
    <2>4. /\ IsFiniteSet(Available(s, g)) /\ Cardinality(Available(s, g)) \in Nat
          /\ Cardinality(Available(s, g)) <= balance[<<s, g>>]
          /\ balance[<<s, g>>] \in Int
      BY <1>0, AvailableFinite DEF IInv, BalanceCovers
    <2>5. Available(s, g)' \subseteq Available(s, g)
      BY <1>0, <1>1, KeepsAvailable
    <2>6. CASE s = session[t] /\ g = Signature(c)
      <3>1. r \in Available(s, g)
        BY <1>0, <2>2, <2>6 DEF Available, TypeOK
      <3>2. r \notin Available(s, g)'
        BY <2>3 DEF Available
      <3> DEFINE A == Available(s, g)
                 B == Available(s, g)'
      <3>3. IsFiniteSet(A) /\ Cardinality(A) \in Nat /\ r \in A /\ B \subseteq A \ {r}
        BY <2>4, <2>5, <3>1, <3>2
      <3> HIDE DEF A, B
      <3>4. IsFiniteSet(A \ {r}) /\ Cardinality(A \ {r}) = Cardinality(A) - 1
        BY <3>3, FS_RemoveElement
      <3>5. Cardinality(B) \in Nat /\ Cardinality(B) <= Cardinality(A \ {r})
        BY <3>3, <3>4, FS_Subset, FS_CardinalityType
      <3>6. Cardinality(Available(s, g)') \in Nat
            /\ Cardinality(Available(s, g)') <= Cardinality(Available(s, g)) - 1
        BY <3>4, <3>5 DEF A, B
      <3>7. balance'[<<s, g>>] = balance[<<s, g>>] - 1
        BY <1>0, <1>5, <2>6 DEF Charge
      <3> QED BY <2>4, <3>6, <3>7
    <2>7. CASE ~(s = session[t] /\ g = Signature(c))
      <3>1. /\ Cardinality(Available(s, g)') \in Nat
            /\ Cardinality(Available(s, g)') <= Cardinality(Available(s, g))
        BY <2>4, <2>5, FS_Subset, FS_CardinalityType
      <3>2. balance'[<<s, g>>] = balance[<<s, g>>]
        BY <1>0, <1>5, <2>7 DEF Charge
      <3> QED BY <2>4, <3>1, <3>2
    <2> QED BY <2>6, <2>7
  <1> QED BY <1>4, <1>5

(* A blocked call is asked about once: what was asked before is superseded. *)
LEMMA BlockSafe ==
  ASSUME IInv, NEW t \in Turns, NEW c \in Calls, session[t] \in Sessions, Block(t, c)
  PROVE  BalanceCovers' /\ AskedOnce' /\ requests' \in Seq(Request)
  <1> DEFINE rest == IF queue[t] = NoQueue THEN Tail(todo[t]) ELSE queue[t]
             new == [session |-> session[t], call |-> c, status |-> "pending",
                     queue |-> rest]
  <1>1. PICK gone : requests' = Append(Closed(Consumed(t, c) \cup Stale(t, c) \cup gone), new)
    BY DEF Block
  <1> DEFINE R == Consumed(t, c) \cup Stale(t, c) \cup gone
             kept == Closed(R)
  <1>2. TypeOK /\ requests \in Seq(Request) /\ UNCHANGED balance
    BY DEF IInv, TypeOK, Block
  <1>3. Keeps(kept) /\ \A r \in R \cap (1..Len(requests)) : kept[r].status = "closed"
    BY <1>2, ClosedKeeps
  <1>4. new \in Request
    <2>1. /\ queue[t] \in Seq(Calls) \cup {NoQueue} /\ todo[t] \in Seq(Calls)
          /\ pc[t] = "acting" /\ todo[t] # <<>>
      BY <1>2 DEF TypeOK, Queue, Block, Acting
    <2>2. rest \in Seq(Calls)
      BY <2>1
    <2> QED BY <2>2 DEF Request
  <1>5. kept \in Seq(Request) /\ Len(kept) = Len(requests) /\ Len(requests) \in Nat
    BY <1>2, <1>3 DEF Keeps
  <1>6. /\ \A r \in 1..Len(requests) :
              /\ kept[r].session = requests[r].session
              /\ kept[r].call = requests[r].call
              /\ kept[r].status \in {requests[r].status, "closed"}
    BY <1>3 DEF Keeps
  <1>append. requests' = Append(kept, new)
    BY <1>1
  <1>fields. new.session = session[t] /\ new.call = c /\ new.status = "pending"
    OBVIOUS
  <1> HIDE DEF R, kept, rest, new
  <1>7. /\ requests' \in Seq(Request)
        /\ Len(requests') = Len(requests) + 1
        /\ \A r \in 1..Len(requests) : requests'[r] = kept[r]
        /\ requests'[Len(requests) + 1] = new
    BY <1>append, <1>4, <1>5
  <1>8. /\ DOMAIN requests' = 1..(Len(requests) + 1)
        /\ DOMAIN requests = 1..Len(requests)
        /\ 1..(Len(requests) + 1) = (1..Len(requests)) \cup {Len(requests) + 1}
        /\ Len(requests) + 1 \notin 1..Len(requests)
    BY <1>2, <1>5, <1>7
  <1>9. BalanceCovers'
    <2>1. \A s \in Sessions, g \in Signatures : Available(s, g)' \subseteq Available(s, g)
      <3> SUFFICES ASSUME NEW s \in Sessions, NEW g \in Signatures,
                          NEW r \in Available(s, g)'
                   PROVE  r \in Available(s, g)
        OBVIOUS
      <3>1. r \in DOMAIN requests' /\ requests'[r].status = "approved"
        BY DEF Available
      <3>2. r \in 1..Len(requests)
        BY <1>7, <1>8, <1>fields, <3>1
      <3> QED BY <1>6, <1>7, <1>8, <3>1, <3>2 DEF Available, Signature
    <2> QED BY <1>2, <2>1, BalanceKept DEF IInv
  <1>10. AskedOnce'
    <2>1. \A r \in 1..Len(requests) : requests'[r].status = "pending" =>
             /\ requests[r].status = "pending"
             /\ ~(requests[r].session = session[t] /\ requests[r].call = c)
      <3> SUFFICES ASSUME NEW r \in 1..Len(requests), requests'[r].status = "pending"
                   PROVE  /\ requests[r].status = "pending"
                          /\ ~(requests[r].session = session[t] /\ requests[r].call = c)
        OBVIOUS
      <3>1. requests[r].status = "pending" /\ r \notin R
        BY <1>3, <1>6, <1>7 DEF kept
      <3>2. r \notin Stale(t, c)
        BY <3>1 DEF R
      <3> QED BY <1>8, <3>1, <3>2 DEF Stale, Pending, HasStatus
    <2> SUFFICES ASSUME NEW q \in HasStatus("pending")', NEW r \in HasStatus("pending")',
                        requests'[q].session = requests'[r].session,
                        requests'[q].call = requests'[r].call
                 PROVE  q = r
      BY DEF AskedOnce
    <2>2. /\ q \in DOMAIN requests' /\ requests'[q].status = "pending"
          /\ r \in DOMAIN requests' /\ requests'[r].status = "pending"
      BY DEF HasStatus
    <2>3. CASE q \in 1..Len(requests) /\ r \in 1..Len(requests)
      BY <1>6, <1>7, <1>8, <2>1, <2>2, <2>3 DEF IInv, AskedOnce, HasStatus
    <2>4. CASE q \in 1..Len(requests) /\ r = Len(requests) + 1
      BY <1>6, <1>7, <1>fields, <2>1, <2>2, <2>4
    <2>5. CASE r \in 1..Len(requests) /\ q = Len(requests) + 1
      BY <1>6, <1>7, <1>fields, <2>1, <2>2, <2>5
    <2> QED BY <1>8, <2>2, <2>3, <2>4, <2>5
  <1> QED BY <1>7, <1>9, <1>10

------------------------------------------------------------------------------
(* One lemma per action *)

(* The invariant, without what the lemmas about the service establish.      *)
LEMMA FromType ==
  ASSUME IInv, UNCHANGED serviceVars, TypeOK' PROVE IInv'
  BY UnchangedKept DEF IInv

(* Receive: a message answers the oldest request or starts a turn.          *)
LEMMA ReceiveInv ==
  ASSUME IInv, NEW t \in Turns, NEW s \in Sessions, Receive(t, s) PROVE IInv'
  <1>1. TypeOK
    BY DEF IInv
  <1>2. CASE \E r \in Oldest(Pending(s)) : Answer(t, r)
    <2>1. PICK r \in Oldest(Pending(s)) : Answer(t, r)
      BY <1>2
    <2>2. r \in 1..Len(requests) /\ requests[r] \in Request
      BY <1>1, <2>1, OldestPending
    <2>3. /\ BalanceCovers' /\ AskedOnce'
          /\ requests' \in Seq(Request)
          /\ balance' \in [Sessions \X Signatures -> Int]
      BY <2>1, <2>2, AnswerSafe
    <2>4. <<requests[r].call>> \o requests[r].queue \in Seq(Calls)
      BY <2>2 DEF Request
    <2> DEFINE calls == <<requests[r].call>> \o requests[r].queue
    <2>either. /\ forced' \in {forced, [forced EXCEPT ![t] = calls]}
          /\ pc' \in {[pc EXCEPT ![t] = "starting"], [pc EXCEPT ![t] = "denied"]}
      BY <2>1 DEF Answer
    <2>calls. calls \in Seq(Calls)
      BY <2>4
    <2> HIDE DEF calls
    <2>5. forced' \in [Turns -> Seq(Calls)] /\ pc' \in [Turns -> PC]
      BY <1>1, <2>either, <2>calls DEF TypeOK, PC
    <2>6. \A u \in Turns : /\ pc'[u] \in {"acting", "executing"} => pc'[u] = pc[u]
                           /\ u # t => pc'[u] = pc[u]
      BY <1>1, <2>1 DEF Answer, TypeOK
    <2>7. TypeOK'
      BY <1>1, <2>3, <2>5, <2>6 DEF Receive, TypeOK, guardVars, memoryVars
    <2> QED BY <2>3, <2>7 DEF IInv
  <1>3. CASE /\ Pending(s) = {}
             /\ pc' = [pc EXCEPT ![t] = "starting"]
             /\ UNCHANGED <<requests, balance, forced>>
    <2>1. TypeOK'
      BY <1>1, <1>3 DEF Receive, TypeOK, PC, guardVars, memoryVars
    <2> QED BY <1>3, <2>1, FromType DEF serviceVars
  <1> QED BY <1>2, <1>3 DEF Receive

(* CleanDenied: only the session file changes.                              *)
LEMMA CleanDeniedInv ==
  ASSUME IInv, NEW t \in Turns, CleanDenied(t) PROVE IInv'
  <1>1. TypeOK /\ session[t] \in Sessions
    BY DEF IInv, TypeOK, CleanDenied
  <1>2. saved[session[t]] \in Memory
    BY <1>1 DEF TypeOK
  <1>3. saved' \in [Sessions -> Memory]
    BY <1>1, <1>2 DEF TypeOK, CleanDenied, Memory
  <1>4. TypeOK'
    BY <1>1, <1>3 DEF CleanDenied, TypeOK, PC, serviceVars, guardVars, memoryVars
  <1> QED BY <1>4, FromType DEF CleanDenied

(* Begin: the pooled agent or a new one, and the session's memory.          *)
LEMMA BeginInv ==
  ASSUME IInv, NEW t \in Turns, Begin(t) PROVE IInv'
  <1>1. TypeOK /\ session[t] \in Sessions
    BY DEF IInv, TypeOK, Begin
  <1>2. saved[session[t]].results \in SUBSET Calls /\ saved[session[t]].marked \in SUBSET Calls
    BY <1>1 DEF TypeOK, Memory
  <1>3. PICK agent \in {NewAgent, pool} \ {NoAgent} :
          /\ queue' = [queue EXCEPT ![t] = agent.queue]
          /\ active' = [active EXCEPT ![t] = agent.active]
          /\ done' = [done EXCEPT ![t] = agent.done]
    BY DEF Begin
  <1>4. agent.queue \in Queue /\ agent.active \in BOOLEAN /\ agent.done \in Seq(Calls)
    <2>1. CASE agent = NewAgent
      BY <2>1 DEF NewAgent, Queue
    <2>2. CASE agent \in Guard
      BY <2>2 DEF Guard
    <2> QED BY <1>1, <1>3, <2>1, <2>2 DEF TypeOK
  <1>5. queue' \in [Turns -> Queue] /\ active' \in [Turns -> BOOLEAN]
        /\ done' \in [Turns -> Seq(Calls)]
    BY <1>1, <1>3, <1>4 DEF TypeOK
  <1>6. TypeOK'
    BY <1>1, <1>2, <1>5 DEF Begin, TypeOK, PC, serviceVars
  <1> QED BY <1>6, FromType DEF Begin

(* What is left of a replayed queue is a queue.                             *)
LEMMA LeftType ==
  ASSUME TypeOK, NEW t \in Turns, NEW left \in Left(t) PROVE left \in Seq(Calls)
  <1>1. done[t] \in Seq(Calls)
    BY DEF TypeOK
  <1>2. PICK n \in 0..Len(done[t]) : \E f \in [1..n -> DOMAIN done[t]] :
           left = [i \in DOMAIN f |-> done[t][f[i]]]
    <2> DEFINE waiting == {i \in DOMAIN done[t] : done[t][i] \notin results[t]}
    <2>1. PICK f \in UNION {[1..n -> waiting] : n \in 0..Len(done[t])} :
             left = [i \in DOMAIN f |-> done[t][f[i]]]
      BY DEF Left
    <2>2. PICK n \in 0..Len(done[t]) : f \in [1..n -> waiting]
      BY <2>1
    <2>3. f \in [1..n -> DOMAIN done[t]]
      BY <2>2
    <2> QED BY <2>1, <2>2, <2>3
  <1>pick. PICK f \in [1..n -> DOMAIN done[t]] : left = [i \in DOMAIN f |-> done[t][f[i]]]
    BY <1>2
  <1>3. n \in Nat /\ DOMAIN f = 1..n
    BY <1>1, <1>2
  <1>4. \A i \in 1..n : done[t][f[i]] \in Calls
    BY <1>1, <1>2
  <1> QED BY <1>pick, <1>3, <1>4

(* A replay puts one call before the agent.                                 *)
LEMMA ReplayType ==
  ASSUME TypeOK, NEW t \in Turns, NEW q \in Seq(Calls), q # <<>>, Replay(t, Head(q), Tail(q))
  PROVE  /\ todo' \in [Turns -> Seq(Calls)] /\ todo'[t] # <<>>
         /\ \A u \in Turns : u # t => todo'[u] = todo[u]
         /\ queue' \in [Turns -> Queue] /\ active' \in [Turns -> BOOLEAN]
         /\ pc' = [pc EXCEPT ![t] = "acting"]
  <1>1. Head(q) \in Calls /\ Tail(q) \in Seq(Calls)
    OBVIOUS
  <1>2. <<Head(q)>> \in Seq(Calls) /\ <<Head(q)>> # <<>>
    BY <1>1
  <1> HIDE <1>2
  <1> QED BY <1>1, <1>2 DEF TypeOK, Replay, Queue

(* Reason: a replayed call, a message of new calls, or an answer.           *)
LEMMA ReasonInv ==
  ASSUME IInv, NEW t \in Turns, Reason(t) PROVE IInv'
  <1>1. TypeOK /\ session[t] \in Sessions
    BY DEF IInv, TypeOK, Reason
  <1>2. /\ done' \in [Turns -> Seq(Calls)]
        /\ UNCHANGED <<serviceVars, pool, saved, session, memoryVars>>
    BY <1>1 DEF Reason, TypeOK
  <1>3. CASE /\ \E left \in Left(t) : left # <<>> /\ Replay(t, Head(left), Tail(left))
             /\ UNCHANGED <<forced, origin>>
    <2>1. PICK left \in Left(t) : left # <<>> /\ Replay(t, Head(left), Tail(left))
      BY <1>3
    <2>2. left \in Seq(Calls)
      BY <1>1, LeftType
    <2>3. TypeOK'
      BY <1>1, <1>2, <1>3, <2>1, <2>2, ReplayType DEF TypeOK, PC, serviceVars, memoryVars
    <2> QED BY <1>2, <2>3, FromType
  <1>4. CASE /\ forced[t] # <<>> /\ Replay(t, Head(forced[t]), Tail(forced[t]))
             /\ forced' = [forced EXCEPT ![t] = <<>>]
             /\ UNCHANGED origin
    <2>1. forced[t] \in Seq(Calls) /\ forced' \in [Turns -> Seq(Calls)]
      BY <1>1, <1>4 DEF TypeOK
    <2>2. TypeOK'
      BY <1>1, <1>2, <1>4, <2>1, ReplayType DEF TypeOK, PC, serviceVars, memoryVars
    <2> QED BY <1>2, <2>2, FromType
  <1>5. CASE Consult(t) /\ UNCHANGED <<queue, active, forced>>
    <2>1. CASE pc' = [pc EXCEPT ![t] = "ending"] /\ UNCHANGED <<todo, origin>>
      <3>1. TypeOK'
        BY <1>1, <1>2, <1>5, <2>1 DEF TypeOK, PC, serviceVars, memoryVars
      <3> QED BY <1>2, <3>1, FromType
    <2>2. CASE \E n \in 1..MaxBatch : \E batch \in [1..n -> Calls] :
                  /\ todo' = [todo EXCEPT ![t] = batch]
                  /\ origin' = [c \in Calls |-> IF \E i \in 1..n : batch[i] = c
                                                THEN session[t] ELSE origin[c]]
                  /\ pc' = [pc EXCEPT ![t] = "acting"]
      <3> DEFINE Takes(n, batch) ==
                  /\ todo' = [todo EXCEPT ![t] = batch]
                  /\ origin' = [c \in Calls |-> IF \E i \in 1..n : batch[i] = c
                                                THEN session[t] ELSE origin[c]]
                  /\ pc' = [pc EXCEPT ![t] = "acting"]
      <3>pick. PICK n \in 1..MaxBatch : \E batch \in [1..n -> Calls] : Takes(n, batch)
        BY <2>2
      <3>1. PICK batch \in [1..n -> Calls] : Takes(n, batch)
        BY <3>pick
      <3>2. n \in Nat /\ n >= 1
        BY <3>1, BoundsAssumption
      <3>3. batch \in Seq(Calls) /\ Len(batch) = n
        BY <3>2
      <3>4. batch # <<>>
        BY <3>2, <3>3
      <3>5. origin' \in [Calls -> Sessions \cup {NoSession}]
        BY <1>1, <3>1 DEF TypeOK
      <3>6. TypeOK'
        BY <1>1, <1>2, <1>5, <3>1, <3>3, <3>4, <3>5 DEF TypeOK, PC, serviceVars, memoryVars
      <3> QED BY <1>2, <3>6, FromType
    <2> QED BY <1>5, <2>1, <2>2 DEF Consult
  <1> QED BY <1>3, <1>4, <1>5 DEF Reason

(* Going on to the next call leaves the message a sequence of calls.        *)
LEMMA ProceedType ==
  ASSUME TypeOK, NEW t \in Turns, pc[t] \in {"acting", "executing"}, Proceed(t)
  PROVE  /\ todo' \in [Turns -> Seq(Calls)] /\ pc' \in [Turns -> PC]
         /\ pc'[t] \in {"reasoning", "acting"} /\ (pc'[t] = "acting" => todo'[t] # <<>>)
         /\ \A u \in Turns : u # t => todo'[u] = todo[u] /\ pc'[u] = pc[u]
         /\ \A u \in Turns : pc'[u] \in {"acting", "executing"} => todo'[u] # <<>>
  <1>1. todo[t] \in Seq(Calls) /\ todo[t] # <<>>
    BY DEF TypeOK
  <1>2. Tail(todo[t]) \in Seq(Calls)
    BY <1>1
  <1> DEFINE rest == Tail(todo[t])
             next == IF rest = <<>> THEN "reasoning" ELSE "acting"
  <1>3. rest \in Seq(Calls) /\ next \in {"reasoning", "acting"}
        /\ (next = "acting" => rest # <<>>)
    BY <1>2
  <1>4. todo' = [todo EXCEPT ![t] = rest] /\ pc' = [pc EXCEPT ![t] = next]
    BY DEF Proceed
  <1> HIDE DEF rest, next
  <1> QED BY <1>3, <1>4 DEF TypeOK, PC

(* AutoDeny: a denied call has its result at once.                          *)
LEMMA AutoDenyInv ==
  ASSUME IInv, NEW t \in Turns, NEW c \in Calls, AutoDeny(t, c) PROVE IInv'
  <1>1. TypeOK /\ pc[t] = "acting"
    BY DEF IInv, AutoDeny, Acting
  <1>2. session[t] \in Sessions
    BY <1>1 DEF TypeOK
  <1>3. TypeOK'
    BY <1>1, <1>2, ProceedType DEF AutoDeny, TypeOK, serviceVars, guardVars
  <1> QED BY <1>3, FromType DEF AutoDeny

(* Run: an approval is used up or none was needed.                          *)
LEMMA RunInv ==
  ASSUME IInv, NEW t \in Turns, NEW c \in Calls, Run(t, c) PROVE IInv'
  <1>1. TypeOK /\ pc[t] = "acting"
    BY DEF IInv, Run, Acting
  <1>2. session[t] \in Sessions
    BY <1>1 DEF TypeOK
  <1>3. /\ BalanceCovers' /\ AskedOnce'
        /\ requests' \in Seq(Request)
        /\ balance' \in [Sessions \X Signatures -> Int]
    BY <1>2, RunSafe
  <1>4. marked' \in [Turns -> SUBSET Calls]
    BY <1>1 DEF Run, TypeOK
  <1>5. TypeOK'
    BY <1>1, <1>2, <1>3, <1>4 DEF Run, TypeOK, PC, guardVars
  <1> QED BY <1>3, <1>5 DEF IInv

(* Block: a request is created and the message goes on without the call.    *)
LEMMA BlockInv ==
  ASSUME IInv, NEW t \in Turns, NEW c \in Calls, Block(t, c) PROVE IInv'
  <1>1. TypeOK /\ pc[t] = "acting"
    BY DEF IInv, Block, Acting
  <1>2. session[t] \in Sessions
    BY <1>1 DEF TypeOK
  <1>3. BalanceCovers' /\ AskedOnce' /\ requests' \in Seq(Request)
    BY <1>2, BlockSafe
  <1>4. /\ queue' \in [Turns -> Queue]
        /\ marked' \in [Turns -> SUBSET Calls]
        /\ blocked' \in [Turns -> BOOLEAN]
    BY <1>1 DEF Block, TypeOK, Queue
  <1>5. Proceed(t) /\ UNCHANGED <<balance, pool, saved, session, forced, active, done,
                                 results, origin>>
    BY DEF Block
  <1>6. TypeOK'
    BY <1>1, <1>2, <1>3, <1>4, <1>5, ProceedType DEF TypeOK
  <1> QED BY <1>3, <1>6 DEF IInv

(* Finish: a replayed call leaves its queue to the next reasoning.          *)
LEMMA FinishInv ==
  ASSUME IInv, NEW t \in Turns, Finish(t) PROVE IInv'
  <1>1. TypeOK /\ pc[t] = "executing" /\ session[t] \in Sessions
    BY DEF IInv, Finish, TypeOK
  <1>2. todo[t] \in Seq(Calls) /\ todo[t] # <<>> /\ queue[t] \in Queue
    BY <1>1 DEF TypeOK
  <1>3. Head(todo[t]) \in Calls
    BY <1>2
  <1>4. done' \in [Turns -> Seq(Calls)]
    <2> DEFINE rest == IF queue[t] = NoQueue THEN <<>> ELSE queue[t]
    <2>1. rest \in Seq(Calls)
      BY <1>2 DEF Queue
    <2>2. done' \in {done, [done EXCEPT ![t] = rest]}
      BY DEF Finish
    <2> HIDE DEF rest
    <2> QED BY <1>1, <2>1, <2>2 DEF TypeOK
  <1>5. /\ results' \in [Turns -> SUBSET Calls]
        /\ blocked' \in [Turns -> BOOLEAN]
        /\ active' \in [Turns -> BOOLEAN]
    BY <1>1, <1>3 DEF Finish, TypeOK
  <1>6. Proceed(t) /\ UNCHANGED <<serviceVars, pool, saved, session, forced, queue,
                                 marked, origin>>
    BY DEF Finish
  <1>7. TypeOK'
    BY <1>1, <1>4, <1>5, <1>6, ProceedType DEF TypeOK, serviceVars
  <1> QED BY <1>6, <1>7, FromType

(* Interrupt: an interrupted tool may leave a result.                       *)
LEMMA InterruptInv ==
  ASSUME IInv, NEW t \in Turns, Interrupt(t) PROVE IInv'
  <1>1. TypeOK /\ session[t] \in Sessions
    BY DEF IInv, Interrupt, TypeOK
  <1>2. pc[t] = "executing" => Head(todo[t]) \in Calls
    <2>1. pc[t] = "executing" => todo[t] \in Seq(Calls) /\ todo[t] # <<>>
      BY <1>1 DEF TypeOK
    <2> QED BY <2>1
  <1>3. results' \in [Turns -> SUBSET Calls]
    <2> DEFINE result == {Head(todo[t])}
    <2>1. \/ UNCHANGED results
          \/ pc[t] = "executing" /\ results' = [results EXCEPT ![t] = @ \cup result]
      BY DEF Interrupt
    <2>2. pc[t] = "executing" => result \in SUBSET Calls
      BY <1>2
    <2> HIDE DEF result
    <2> QED BY <1>1, <2>1, <2>2 DEF TypeOK
  <1>4. TypeOK'
    BY <1>1, <1>3 DEF Interrupt, TypeOK, PC, serviceVars, guardVars
  <1> QED BY <1>4, FromType DEF Interrupt

(* Abandon: a turn without an agent leaves nothing behind.                  *)
LEMMA AbandonInv ==
  ASSUME IInv, NEW t \in Turns, Abandon(t) PROVE IInv'
  <1>1. TypeOK'
    BY DEF IInv, Abandon, TypeOK, PC, serviceVars, guardVars, memoryVars
  <1> QED BY <1>1, FromType DEF Abandon

(* End: the memory goes to the session file, the agent to the pool.         *)
LEMMA EndInv ==
  ASSUME IInv, NEW t \in Turns, End(t) PROVE IInv'
  <1>1. TypeOK /\ session[t] \in Sessions
    BY DEF IInv, End, TypeOK
  <1>2. pool' \in Guard \cup {NoAgent}
    BY <1>1 DEF End, TypeOK, Guard
  <1>3. saved' \in [Sessions -> Memory]
    BY <1>1 DEF End, TypeOK, Memory
  <1>4. TypeOK'
    BY <1>1, <1>2, <1>3 DEF End, TypeOK, PC, Queue, serviceVars
  <1> QED BY <1>4, FromType DEF End

------------------------------------------------------------------------------
(* The theorems *)

(* Every step keeps the invariant.                                          *)
LEMMA Invariance == ASSUME IInv, [Next]_vars PROVE IInv'
  <1>1. CASE UNCHANGED vars
    <2>1. TypeOK'
      BY <1>1 DEF vars, serviceVars, guardVars, memoryVars, IInv, TypeOK
    <2> QED BY <1>1, <2>1, FromType DEF vars
  <1>2. CASE Next
    <2>1. PICK t \in Turns :
             \/ \E s \in Sessions : Receive(t, s)
             \/ CleanDenied(t)
             \/ Begin(t)
             \/ Reason(t)
             \/ Act(t)
             \/ Finish(t)
             \/ Interrupt(t)
             \/ Abandon(t)
             \/ End(t)
      BY <1>2 DEF Next
    <2>2. CASE Act(t)
      BY <2>2, AutoDenyInv, RunInv, BlockInv DEF Act
    <2> QED
      BY <2>1, <2>2, ReceiveInv, CleanDeniedInv, BeginInv, ReasonInv, FinishInv,
         InterruptInv, AbandonInv, EndInv
  <1> QED BY <1>1, <1>2

(* Nothing is approved or asked at first.                                   *)
LEMMA InitInv == ASSUME Init PROVE IInv
  <1>1. <<>> \in Seq(Request) /\ <<>> \in Seq(Calls) /\ DOMAIN <<>> = {}
    OBVIOUS
  <1>2. TypeOK
    BY <1>1 DEF Init, TypeOK, PC, Queue, Memory
  <1>3. BalanceCovers
    <2> SUFFICES ASSUME NEW s \in Sessions, NEW g \in Signatures
                 PROVE  Cardinality(Available(s, g)) <= balance[<<s, g>>]
      BY DEF BalanceCovers
    <2>1. Available(s, g) = {}
      BY <1>1 DEF Init, Available
    <2>2. balance[<<s, g>>] = 0
      BY DEF Init
    <2> QED BY <2>1, <2>2, FS_EmptySet
  <1>4. AskedOnce
    BY <1>1 DEF Init, AskedOnce, HasStatus
  <1> QED BY <1>2, <1>3, <1>4 DEF IInv

(* The invariant holds throughout.                                          *)
LEMMA Inductive == Spec => []IInv
  BY InitInv, Invariance, PTL DEF Spec

(* Type correctness, for any sessions, turns and calls.                     *)
THEOREM TypeCorrect == Spec => []TypeOK
  <1>1. IInv => TypeOK
    BY DEF IInv
  <1> QED BY <1>1, Inductive, PTL

(* A flagged call runs no more often than the user has approved it.         *)
THEOREM RunsAreApproved == Spec => []RunsApproved
  <1>1. IInv => RunsApproved
    <2> SUFFICES ASSUME IInv, NEW s \in Sessions, NEW g \in Signatures
                 PROVE  balance[<<s, g>>] >= 0
      BY DEF RunsApproved
    <2>1. Cardinality(Available(s, g)) \in Nat
      BY AvailableFinite DEF IInv
    <2>2. balance[<<s, g>>] \in Int /\ Cardinality(Available(s, g)) <= balance[<<s, g>>]
      BY DEF IInv, TypeOK, BalanceCovers
    <2> QED BY <2>1, <2>2
  <1> QED BY <1>1, Inductive, PTL

(* The user is asked about a call once at a time.                           *)
THEOREM AskedOneAtATime == Spec => []AskedOnce
  <1>1. IInv => AskedOnce
    BY DEF IInv
  <1> QED BY <1>1, Inductive, PTL

------------------------------------------------------------------------------
(* The ledger *)

(* What the user is asked about, by the requests that wait.                 *)
LEMMA AskingIs ==
  ASSUME TypeOK, NEW s, NEW c
  PROVE  <<s, c>> \in Asking <=>
            \E r \in 1..Len(requests) : /\ requests[r].status = "pending"
                                        /\ requests[r].session = s /\ requests[r].call = c
  <1>1. DOMAIN requests = 1..Len(requests)
    BY DEF TypeOK
  <1> QED BY <1>1 DEF Asking, HasStatus

(* What closing requests that do not wait leaves of the questions.          *)
LEMMA SameAsking ==
  ASSUME TypeOK, requests' \in Seq(Request), Len(requests') = Len(requests),
         \A r \in 1..Len(requests) :
            /\ requests'[r].session = requests[r].session
            /\ requests'[r].call = requests[r].call
            /\ requests'[r].status = "pending" <=> requests[r].status = "pending"
  PROVE  Asking' = Asking
  <1>1. HasStatus("pending")' = HasStatus("pending")
    BY DEF HasStatus, TypeOK
  <1>2. HasStatus("pending") \subseteq 1..Len(requests)
    BY DEF HasStatus, TypeOK
  <1> QED BY <1>1, <1>2 DEF Asking

(* A request is answered for itself; those that were waiting wait on.       *)
LEMMA ResolvePending ==
  ASSUME TypeOK, NEW r \in 1..Len(requests), NEW st \in {"approved", "closed"}, Resolve(r, st)
  PROVE  \A q \in 1..Len(requests) :
            requests'[q].status = "pending" <=> requests[q].status = "pending" /\ q # r
  <1>1. PICK lost \in SUBSET HasStatus("approved") :
           requests' = [Closed(lost) EXCEPT ![r].status = st]
    BY DEF Resolve
  <1>2. Len(Closed(lost)) = Len(requests) /\ Closed(lost) \in Seq(Request)
    BY ClosedKeeps DEF Keeps
  <1>3. ASSUME NEW q \in 1..Len(requests), q # r
        PROVE  requests'[q].status = "pending" <=> requests[q].status = "pending"
    <2>1. requests'[q] = Closed(lost)[q]
      BY <1>1, <1>2, <1>3
    <2>2. CASE q \in lost
      <3>1. requests[q].status = "approved"
        BY <1>1, <2>2 DEF HasStatus
      <3>2. Closed(lost)[q].status = "closed"
        BY <2>2, ClosedKeeps
      <3> QED BY <2>1, <3>1, <3>2
    <2>3. CASE q \notin lost
      <3>1. Closed(lost)[q] = requests[q]
        BY <2>3 DEF Closed, TypeOK
      <3> QED BY <2>1, <3>1
    <2> QED BY <2>2, <2>3
  <1>4. requests'[r].status = st
    BY ResolveResult
  <1> QED BY <1>3, <1>4

(* An answer settles the question it was asked.                             *)
LEMMA AnswerRefines ==
  ASSUME IInv, NEW t \in Turns, NEW r \in 1..Len(requests), requests[r].status = "pending",
         Answer(t, r)
  PROVE  \E s \in Sessions, c \in Calls : Ledger!Approve(s, c) \/ Ledger!Refuse(s, c)
  <1> DEFINE s == requests[r].session
             c == requests[r].call
  <1>0. TypeOK /\ s \in Sessions /\ c \in Calls
    <2>1. requests[r] \in Request
      BY DEF IInv, TypeOK
    <2> QED BY <2>1 DEF IInv, Request
  <1>1. ASSUME NEW st \in {"approved", "closed"}, Resolve(r, st)
        PROVE  Ledger!Answer(s, c)
    <2>1. /\ requests' \in Seq(Request) /\ Len(requests') = Len(requests)
          /\ \A q \in 1..Len(requests) :
               /\ requests'[q].session = requests[q].session
               /\ requests'[q].call = requests[q].call
               /\ requests'[q].status = "pending" <=> requests[q].status = "pending" /\ q # r
      BY <1>0, <1>1, ResolveResult, ResolvePending
    <2>2. DOMAIN requests = 1..Len(requests) /\ DOMAIN requests' = 1..Len(requests)
      BY <1>0, <2>1 DEF TypeOK
    <2>3. HasStatus("pending")' = HasStatus("pending") \ {r}
      BY <2>1, <2>2 DEF HasStatus
    <2>4. \A q \in HasStatus("pending") :
             <<requests[q].session, requests[q].call>> = <<s, c>> <=> q = r
      <3>1. r \in HasStatus("pending")
        BY <2>2 DEF HasStatus
      <3> QED BY <3>1 DEF IInv, AskedOnce
    <2>5. \A q \in HasStatus("pending") : q \in 1..Len(requests)
      BY <2>2 DEF HasStatus
    <2>6. Asking' = Asking \ {<<s, c>>}
      BY <2>1, <2>3, <2>4, <2>5 DEF Asking
    <2>7. <<s, c>> \in Asking
      BY <1>0, AskingIs
    <2> QED BY <2>6, <2>7 DEF Ledger!Answer
  <1>2. CASE Resolve(r, "closed") /\ UNCHANGED <<balance, forced>>
    <2>1. Ledger!Refuse(s, c)
      BY <1>1, <1>2 DEF Ledger!Refuse
    <2> QED BY <1>0, <2>1
  <1>3. CASE /\ Resolve(r, "approved")
             /\ balance' = [balance EXCEPT ![<<s, Signature(c)>>] = @ + 1]
    <2>1. Ledger!Approve(s, c)
      BY <1>1, <1>3 DEF Ledger!Approve
    <2> QED BY <1>0, <2>1
  <1> QED BY <1>2, <1>3 DEF Answer

(* A flagged call takes a credit, another one none; no question is touched. *)
LEMMA RunRefines ==
  ASSUME IInv, NEW t \in Turns, NEW c \in Calls, session[t] \in Sessions, Run(t, c)
  PROVE  Ledger!Run(session[t], c) \/ UNCHANGED Ledger!vars
  <1>0. TypeOK /\ requests' = Closed(Used(t, c)) /\ Charge(t, c)
    BY DEF IInv, Run
  <1>1. Asking' = Asking
    <2>1. Keeps(requests')
      BY <1>0, ClosedKeeps
    <2>2. ASSUME NEW q \in 1..Len(requests)
          PROVE  requests'[q].status = "pending" <=> requests[q].status = "pending"
      <3>1. CASE q \in Used(t, c)
        <4>1. requests[q].status = "approved" /\ requests'[q].status = "closed"
          BY <1>0, <3>1, ConsumedIs, ClosedKeeps DEF Used
        <4> QED BY <4>1
      <3>2. CASE q \notin Used(t, c)
        <4>1. requests'[q] = requests[q]
          BY <1>0, <3>2 DEF Closed, TypeOK
        <4> QED BY <4>1
      <3> QED BY <3>1, <3>2
    <2> QED BY <1>0, <2>1, <2>2, SameAsking DEF Keeps
  <1>2. CASE c \notin Flagged
    BY <1>0, <1>1, <1>2 DEF Charge, Ledger!vars
  <1>3. CASE c \in Flagged
    <2> DEFINE s == session[t]
               g == Signature(c)
    <2>1. PICK r \in Consumed(t, c) : Input[requests[r].call] = Input[c]
      BY <1>3 DEF Run, Approved
    <2>2. r \in Available(s, g)
      BY <1>0, <2>1, ConsumedIs DEF Available, Signature, TypeOK
    <2>3. Cardinality(Available(s, g)) >= 1
      <3> DEFINE A == Available(s, g)
      <3>1. IsFiniteSet(A) /\ Cardinality(A) \in Nat /\ r \in A
        BY <1>0, <2>2, AvailableFinite
      <3> HIDE DEF A
      <3>2. Cardinality(A) # 0
        BY <3>1, FS_EmptySet
      <3>3. Cardinality(A) >= 1
        BY <3>1, <3>2
      <3> QED BY <3>3 DEF A
    <2>4. /\ Cardinality(Available(s, g)) \in Nat
          /\ balance[<<s, g>>] \in Int /\ Cardinality(Available(s, g)) <= balance[<<s, g>>]
      <3>1. g \in Signatures
        BY DEF Signatures
      <3> QED BY <1>0, <3>1, AvailableFinite DEF IInv, TypeOK, BalanceCovers
    <2>5. balance[<<s, g>>] > 0
      BY <2>3, <2>4
    <2>6. balance' = [balance EXCEPT ![<<s, g>>] = @ - 1]
      BY <1>0, <1>3 DEF Charge
    <2> QED BY <1>1, <2>5, <2>6 DEF Ledger!Run
  <1> QED BY <1>2, <1>3

(* A blocked call is asked about, and it was flagged.                       *)
LEMMA BlockRefines ==
  ASSUME IInv, NEW t \in Turns, NEW c \in Calls, session[t] \in Sessions, Block(t, c)
  PROVE  Ledger!Ask(session[t], c)
  <1>1. TypeOK /\ c \in Flagged /\ UNCHANGED balance /\ requests \in Seq(Request)
    BY DEF IInv, TypeOK, Block
  <1>2. PICK R : \E q : requests' = Append(Closed(R), [session |-> session[t], call |-> c,
                                                       status |-> "pending", queue |-> q])
    BY DEF Block
  <1>3. PICK q : requests' = Append(Closed(R), [session |-> session[t], call |-> c,
                                                status |-> "pending", queue |-> q])
    BY <1>2
  <1> DEFINE n == Len(requests)
             kept == Closed(R)
             new == [session |-> session[t], call |-> c, status |-> "pending", queue |-> q]
  <1>4. /\ kept \in Seq(Request) /\ Len(kept) = n /\ n \in Nat
        /\ \A r \in 1..n : /\ kept[r].session = requests[r].session
                           /\ kept[r].call = requests[r].call
                           /\ kept[r].status = "pending" => requests[r].status = "pending"
    BY <1>1, ClosedKeeps DEF Keeps
  <1> HIDE DEF kept
  <1>5. /\ DOMAIN requests' = 1..(n + 1) /\ requests'[n + 1] = new
        /\ \A r \in 1..n : requests'[r] = kept[r]
    <2>1. requests' = Append(kept, new)
      BY <1>3 DEF kept
    <2> HIDE DEF new
    <2> QED BY <1>4, <2>1
  <1>6. DOMAIN requests = 1..n
    BY <1>1
  <1>7. n + 1 \in HasStatus("pending")'
    BY <1>4, <1>5 DEF HasStatus
  <1>8. <<session[t], c>> \in Asking'
    BY <1>5, <1>7 DEF Asking
  <1>9. Asking' \subseteq Asking \cup {<<session[t], c>>}
    <2> SUFFICES ASSUME NEW r \in HasStatus("pending")'
                 PROVE  <<requests'[r].session, requests'[r].call>>
                           \in Asking \cup {<<session[t], c>>}
      BY DEF Asking
    <2>1. CASE r = n + 1
      BY <1>5, <2>1
    <2>2. CASE r # n + 1
      <3>1. r \in 1..n
        BY <1>4, <1>5, <2>2 DEF HasStatus
      <3>2. r \in HasStatus("pending")
        BY <1>4, <1>5, <1>6, <3>1 DEF HasStatus
      <3> QED BY <1>4, <1>5, <3>1, <3>2 DEF Asking
    <2> QED BY <2>1, <2>2
  <1> QED BY <1>1, <1>8, <1>9 DEF Ledger!Ask

(* Every step writes one entry of the ledger, or none.                      *)
LEMMA NextRefines ==
  ASSUME IInv, [Next]_vars
  PROVE  Ledger!Next \/ UNCHANGED Ledger!vars
  <1>1. ASSUME UNCHANGED serviceVars PROVE UNCHANGED Ledger!vars
    BY <1>1 DEF serviceVars, Ledger!vars, Asking, HasStatus
  <1>2. CASE UNCHANGED vars
    BY <1>1, <1>2 DEF vars
  <1>3. ASSUME NEW t \in Turns, NEW s \in Sessions, Receive(t, s)
        PROVE  Ledger!Next \/ UNCHANGED Ledger!vars
    <2>1. ASSUME NEW r \in Oldest(Pending(s)), Answer(t, r)
          PROVE  Ledger!Next
      <3>1. r \in 1..Len(requests) /\ requests[r].status = "pending"
        BY OldestPending DEF IInv
      <3> QED BY <2>1, <3>1, AnswerRefines DEF Ledger!Next
    <2>2. CASE UNCHANGED <<requests, balance>>
      BY <1>1, <2>2 DEF serviceVars
    <2> QED BY <1>3, <2>1, <2>2 DEF Receive
  <1>4. ASSUME NEW t \in Turns, NEW c \in Calls, AutoDeny(t, c) \/ Run(t, c) \/ Block(t, c)
        PROVE  Ledger!Next \/ UNCHANGED Ledger!vars
    <2>1. session[t] \in Sessions
      BY <1>4 DEF AutoDeny, Run, Block, Acting, IInv, TypeOK
    <2>2. CASE AutoDeny(t, c)
      BY <1>1, <2>2 DEF AutoDeny
    <2>3. CASE Run(t, c)
      BY <2>1, <2>3, RunRefines DEF Ledger!Next
    <2>4. CASE Block(t, c)
      BY <2>1, <2>4, BlockRefines DEF Ledger!Next
    <2> QED BY <1>4, <2>2, <2>3, <2>4
  <1>5. ASSUME NEW t \in Turns,
               \/ CleanDenied(t) \/ Begin(t) \/ Reason(t) \/ Finish(t)
               \/ Interrupt(t) \/ Abandon(t) \/ End(t)
        PROVE  UNCHANGED serviceVars
    BY <1>5 DEF CleanDenied, Begin, Reason, Finish, Interrupt, Abandon, End
  <1> QED BY <1>1, <1>2, <1>3, <1>4, <1>5 DEF Next, Act

(* The ledger is empty at first.                                            *)
LEMMA InitRefines == Init => Ledger!Init
  <1> SUFFICES ASSUME Init PROVE Ledger!Init
    OBVIOUS
  <1>1. DOMAIN requests = {}
    BY DEF Init
  <1>2. Asking = {}
    BY <1>1 DEF Asking, HasStatus
  <1> QED BY <1>2 DEF Init, Ledger!Init, Ledger!Signatures, Signatures

(* The service and the guard keep the ledger, for any sessions, turns,      *)
(* calls and tools: each question once, each answer for its question, each  *)
(* flagged run for one approval of its session, tool and input.             *)
THEOREM LedgerIsKept == Spec => ImplementsLedger
  <1>1. IInv /\ [Next]_vars => [Ledger!Next]_(Ledger!vars)
    BY NextRefines
  <1> QED BY <1>1, InitRefines, Inductive, PTL DEF Spec, ImplementsLedger, Ledger!Spec
==============================================================================
