--------------------------- MODULE Admission_proof ---------------------------
(***************************************************************************)
(* Proofs about Admission, for any callers, requests, weights and costs.   *)
(*                                                                         *)
(* The queue holds a request at most once, so its order is a total one     *)
(* (Distinct); with the type invariant that is inductive.  PlaceKept then  *)
(* is a count: an admission takes one slot, and either the request that    *)
(* got it was one of those before the waiter, or the waiter and all those  *)
(* before it were before that request, which had a slot to spare for each. *)
(*                                                                         *)
(* The rest is about sums.  A step moves at most one request with a caller *)
(* (KnownSteps), so a sum over the requests changes by one term.  A caller *)
(* is Paid when its counter covers the sum of what it owes.  It is Near a  *)
(* waiter's caller when it stays in reach of it though its running         *)
(* requests be charged the rest of their budgets, and the other's give     *)
(* back all they were charged (Stake): that is what an inductive NoRunaway *)
(* has to say, since a charge is settled long after the admission.         *)
(***************************************************************************)
EXTENDS Admission, NatFacts

Distinct == IsInjective(fair)

IInv == TypeOK /\ Distinct

-----------------------------------------------------------------------------
(* Sequences without repetition. *)

Position(s, x) == CHOOSE i \in DOMAIN s : s[i] = x

\* Where an element of such a sequence is.
LEMMA PositionOf ==
  ASSUME NEW S, NEW s \in Seq(S), NEW x \in Range(s)
  PROVE  Position(s, x) \in 1 .. Len(s) /\ s[Position(s, x)] = x
BY DEF Position, Range

\* What RemoveAt leaves.
LEMMA Removed ==
  ASSUME NEW S, NEW s \in Seq(S), NEW i \in 1 .. Len(s)
  PROVE  /\ RemoveAt(s, i) \in Seq(S)
         /\ Len(RemoveAt(s, i)) = Len(s) - 1
         /\ \A j \in 1 .. Len(s) - 1 : RemoveAt(s, i)[j] = IF j < i THEN s[j] ELSE s[j + 1]
BY Spliced DEF RemoveAt

\* Removing one element leaves the others, in their order.
LEMMA RemovedOrder ==
  ASSUME NEW S, NEW s \in Seq(S), IsInjective(s), NEW x \in Range(s)
  PROVE  LET t == RemoveAt(s, Position(s, x))
         IN  /\ t \in Seq(S) /\ IsInjective(t)
             /\ Range(t) = Range(s) \ {x}
             /\ \A v, w \in Range(t) :
                  Position(t, v) < Position(t, w) => Position(s, v) < Position(s, w)
<1>. DEFINE i == Position(s, x)
            t == RemoveAt(s, i)
            Shift(j) == IF j < i THEN j ELSE j + 1
<1>1. i \in 1 .. Len(s) /\ s[i] = x
  BY PositionOf
<1>2. /\ t \in Seq(S) /\ Len(t) = Len(s) - 1
      /\ \A j \in 1 .. Len(s) - 1 : t[j] = IF j < i THEN s[j] ELSE s[j + 1]
  BY <1>1, Removed
<1>. HIDE DEF i, t
<1>3. \A j \in 1 .. Len(t) : Shift(j) \in 1 .. Len(s) /\ Shift(j) # i /\ t[j] = s[Shift(j)]
  BY <1>1, <1>2
<1>4. \A j, k \in 1 .. Len(t) : (j < k <=> Shift(j) < Shift(k)) /\ (Shift(j) = Shift(k) => j = k)
  BY <1>1
<1>5. DOMAIN t = 1 .. Len(t) /\ DOMAIN s = 1 .. Len(s) /\ Len(s) \in Nat
  BY <1>2
<1>6. \A j, k \in 1 .. Len(s) : s[j] = s[k] => j = k
  BY <1>5 DEF IsInjective
<1>7. \A j \in 1 .. Len(s) : j # i => \E k \in 1 .. Len(t) : Shift(k) = j
  <2>. SUFFICES ASSUME NEW j \in 1 .. Len(s), j # i
                PROVE  \E k \in 1 .. Len(t) : Shift(k) = j
    OBVIOUS
  <2>1. CASE j < i
    BY <2>1, <1>1, <1>2
  <2>2. CASE j > i
    <3>1. j - 1 \in 1 .. Len(t) /\ Shift(j - 1) = j
      BY <2>2, <1>1, <1>2
    <3>. QED
      BY <3>1
  <2>. QED
    BY <2>1, <2>2, <1>1
<1>. HIDE DEF Shift
<1>8. IsInjective(t)
  <2>. SUFFICES ASSUME NEW j \in 1 .. Len(t), NEW k \in 1 .. Len(t), t[j] = t[k]
                PROVE  j = k
    BY <1>5 DEF IsInjective
  <2>1. s[Shift(j)] = s[Shift(k)]
    BY <1>3
  <2>. QED
    BY <2>1, <1>3, <1>4, <1>6
<1>9. Range(t) = Range(s) \ {x}
  <2>1. ASSUME NEW y \in Range(t) PROVE y \in Range(s) \ {x}
    <3>1. PICK j \in 1 .. Len(t) : t[j] = y
      BY <1>5 DEF Range
    <3>2. y = s[Shift(j)] /\ Shift(j) \in 1 .. Len(s) /\ Shift(j) # i
      BY <3>1, <1>3
    <3>. QED
      BY <3>2, <1>1, <1>5, <1>6 DEF Range
  <2>2. ASSUME NEW y \in Range(s) \ {x} PROVE y \in Range(t)
    <3>1. PICK j \in 1 .. Len(s) : s[j] = y
      BY <1>5 DEF Range
    <3>2. PICK k \in 1 .. Len(t) : Shift(k) = j
      BY <3>1, <1>1, <1>7
    <3>3. t[k] = y
      BY <3>1, <3>2, <1>3
    <3>. QED
      BY <3>3, <1>5 DEF Range
  <2>. QED
    BY <2>1, <2>2
<1>10. ASSUME NEW v \in Range(t), NEW w \in Range(t), Position(t, v) < Position(t, w)
       PROVE  Position(s, v) < Position(s, w)
  <2>1. \A u \in Range(t) : Position(t, u) \in 1 .. Len(t) /\ t[Position(t, u)] = u
    BY <1>2, PositionOf
  <2>2. \A u \in Range(t) : Position(s, u) \in 1 .. Len(s) /\ s[Position(s, u)] = u
    BY <1>9, PositionOf
  <2>3. \A u \in Range(t) : Position(s, u) = Shift(Position(t, u))
    <3>. SUFFICES ASSUME NEW u \in Range(t) PROVE Position(s, u) = Shift(Position(t, u))
      OBVIOUS
    <3>1. s[Shift(Position(t, u))] = u /\ Shift(Position(t, u)) \in 1 .. Len(s)
      BY <2>1, <1>3
    <3>. QED
      BY <3>1, <2>2, <1>6
  <2>4. Shift(Position(t, v)) < Shift(Position(t, w))
    BY <2>1, <1>4, <1>10
  <2>. QED
    BY <2>3, <2>4
<1>. QED
  BY <1>2, <1>8, <1>9, <1>10 DEF t, i

\* Appending a new element.
LEMMA Appended ==
  ASSUME NEW S, NEW s \in Seq(S), IsInjective(s), NEW x \in S, x \notin Range(s)
  PROVE  /\ Append(s, x) \in Seq(S) /\ IsInjective(Append(s, x))
         /\ Range(Append(s, x)) = Range(s) \cup {x}
<1>. DEFINE t == Append(s, x)
<1>1. /\ t \in Seq(S) /\ Len(t) = Len(s) + 1 /\ t[Len(s) + 1] = x
      /\ \A j \in 1 .. Len(s) : t[j] = s[j]
  OBVIOUS
<1>. HIDE DEF t
<1>2. DOMAIN t = 1 .. Len(s) + 1 /\ DOMAIN s = 1 .. Len(s) /\ Len(s) \in Nat
  BY <1>1
<1>3. \A j \in 1 .. Len(s) : s[j] # x
  BY <1>2 DEF Range
<1>4. \A j, k \in 1 .. Len(s) : s[j] = s[k] => j = k
  BY <1>2 DEF IsInjective
<1>5. \A j \in 1 .. Len(s) + 1 : j = Len(s) + 1 \/ j \in 1 .. Len(s)
  BY <1>2
<1>6. IsInjective(t)
  BY <1>1, <1>2, <1>3, <1>4, <1>5 DEF IsInjective
<1>7. Range(t) = Range(s) \cup {x}
  <2>1. Len(s) + 1 \in DOMAIN t /\ \A j \in 1 .. Len(s) : j \in DOMAIN t
    BY <1>2
  <2>. QED
    BY <1>1, <1>2, <1>5, <2>1 DEF Range
<1>. QED
  BY <1>1, <1>6, <1>7 DEF t
-----------------------------------------------------------------------------
(* The arithmetic. *)

LEMMA UnitsNat ==
  ASSUME NEW tokens \in Nat, NEW per_token \in Nat, NEW weight \in Nat \ {0}
  PROVE  Units(tokens, per_token, weight) \in Nat
<1>1. tokens * per_token \in Nat
  OBVIOUS
<1>2. Scale \in Nat
  BY CostAssumption
<1>. DEFINE n == tokens * per_token
<1>3. n * Scale \in Nat
  <2>. HIDE DEF n
  <2>1. n \in Nat
    BY <1>1 DEF n
  <2>. QED
    BY <2>1, <1>2
<1>. DEFINE m == n * Scale
<1>. HIDE DEF m
<1>4. m \in Nat
  BY <1>3 DEF m
<1>5. m \div weight \in Nat
  BY <1>4
<1>. QED
  BY <1>5 DEF Units, m

LEMMA ChargeNat ==
  ASSUME NEW r \in Requests
  PROVE  InputCharge(r) \in Nat /\ \A n \in Nat : OutputCharge(r, n) \in Nat
<1>1. WeightOf(r) \in Nat \ {0} /\ Prompt[r] \in Nat
  BY RequestsAssumption, WeightAssumption DEF WeightOf
<1>2. InputCost \in Nat /\ OutputCost \in Nat
  BY CostAssumption
<1>. QED
  BY <1>1, <1>2, UnitsNat DEF InputCharge, OutputCharge

LEMMA ExpectedNat ==
  ASSUME NEW r \in Requests, NEW n \in ExpectedOutputs(r)
  PROVE  n \in Nat
<1>1. Budget[r] \in Nat /\ MinOutput \in Nat
  BY RequestsAssumption, CostAssumption
<1>. QED
  BY <1>1 DEF ExpectedOutputs, Smaller

LEMMA FloorNat ==
  ASSUME TypeOK
  PROVE  Floor \in Nat
<1>. DEFINE A == Active(fair, running)
            N == {counters[c] : c \in A}
<1>1. A \subseteq Clients
  <2>1. Range(fair) \subseteq Requests /\ running \subseteq Requests
    BY DEF TypeOK, Waiters, Known
  <2>. QED
    BY <2>1, RequestsAssumption DEF Active
<1>2. N \subseteq Nat
  BY <1>1 DEF TypeOK
<1>3. CASE A = {}
  BY <1>3 DEF TypeOK, Floor
<1>4. CASE A # {}
  <2>1. N # {} /\ N \in SUBSET Nat
    BY <1>4, <1>2
  <2>2. \E n \in N : \A k \in N : n <= k
    <3>. HIDE DEF N
    <3>. QED
      BY <2>1, LeastNat
  <2>3. ActiveMin(A, counters) \in Nat
    <3>1. \E n \in N : \A c \in A : n <= counters[c]
      BY <2>2
    <3>2. ActiveMin(A, counters) \in N
      BY <3>1 DEF ActiveMin
    <3>. QED
      BY <3>2, <1>2
  <2>. QED
    BY <2>3, <1>4 DEF Floor
<1>. QED
  BY <1>3, <1>4

LEMMA AnonymousFinite == IsFiniteSet(Anonymous)
BY RequestsAssumption, FiniteAssumption, FS_Subset

\* The queued among the anonymous, before and after one of them changes.
LEMMA QueuedCount ==
  ASSUME TypeOK, NEW r \in Anonymous, NEW to, to # "queued",
         phase' = [phase EXCEPT ![r] = to]
  PROVE  Dequeued(r) = Cardinality({x \in Anonymous : phase'[x] = "queued"})
<1>. DEFINE Q == {x \in Anonymous : phase[x] = "queued"}
            P == {x \in Anonymous : phase'[x] = "queued"}
<1>1. r \in Requests /\ Anonymous \subseteq Requests
  BY RequestsAssumption
<1>2. \A x \in Anonymous : phase'[x] = IF x = r THEN to ELSE phase[x]
  BY <1>1 DEF TypeOK
<1>3. P = Q \ {r}
  BY <1>2
<1>4. IsFiniteSet(Q)
  BY AnonymousFinite, FS_Subset
<1>5. Cardinality(Q) \in Nat /\ waiting = Cardinality(Q)
  BY <1>4, FS_CardinalityType DEF TypeOK
<1>6. r \in Q <=> phase[r] = "queued"
  OBVIOUS
<1>. HIDE DEF P, Q
<1>7. Cardinality(P) = IF r \in Q THEN Cardinality(Q) - 1 ELSE Cardinality(Q)
  BY <1>3, <1>4, FS_RemoveElement
<1>8. Cardinality(P) \in Nat
  BY <1>3, <1>4, FS_RemoveElement, FS_CardinalityType
<1>9. Dequeued(r) = Cardinality(P)
  BY <1>5, <1>6, <1>7, <1>8 DEF Dequeued, Less
<1>. QED
  BY <1>9 DEF P
-----------------------------------------------------------------------------
(* The invariant. *)

LEMMA InitIInv == Init => IInv
<1>. SUFFICES ASSUME Init PROVE IInv
  OBVIOUS
<1>1. {r \in Anonymous : phase[r] = "queued"} = {}
  BY RequestsAssumption DEF Init
<1>2. waiting = Cardinality({r \in Anonymous : phase[r] = "queued"})
  BY <1>1, FS_EmptySet DEF Init
<1>3. Waiters = {} /\ {r \in Known : phase[r] = "waiting"} = {} /\ fair \in Seq(Known)
  BY DEF Init, Waiters, Range, Known
<1>4. running = {r \in Requests : phase[r] = "running"}
  BY DEF Init
<1>5. Distinct
  BY DEF Init, Distinct, IsInjective
<1>6. /\ slots \in SlotCounts
      /\ charged \in [Requests -> Nat] /\ produced \in [Requests -> Nat]
      /\ counters \in [Clients -> Nat] /\ last_departed \in Nat
      /\ phase \in [Requests -> {"new", "waiting", "queued", "running", "gone", "finished"}]
      /\ passed \in [Requests -> SUBSET Clients]
  BY DEF Init
<1>. QED
  BY <1>2, <1>3, <1>4, <1>5, <1>6 DEF IInv, TypeOK

\* A known request taken from the queue.
LEMMA Dequeue ==
  ASSUME TypeOK, Distinct, NEW r \in Waiters,
         fair' = RemoveAt(fair, Joined(r))
  PROVE  /\ fair' \in Seq(Known) /\ Distinct' /\ Waiters' = Waiters \ {r}
         /\ \A v, w \in Waiters' : Joined(v)' < Joined(w)' => Joined(v) < Joined(w)
<1>1. fair \in Seq(Known) /\ r \in Range(fair) /\ Joined(r) = Position(fair, r)
  BY DEF TypeOK, Waiters, Joined, Position
<1>2. /\ fair' \in Seq(Known) /\ IsInjective(fair') /\ Range(fair') = Range(fair) \ {r}
      /\ \A v, w \in Range(fair') :
           Position(fair', v) < Position(fair', w) => Position(fair, v) < Position(fair, w)
  BY <1>1, RemovedOrder DEF Distinct
<1>3. \A v : Joined(v) = Position(fair, v) /\ Joined(v)' = Position(fair', v)
  BY DEF Joined, Position
<1>. QED
  BY <1>2, <1>3 DEF Waiters, Distinct

\* The output charged and the counters after a request settles.
LEMMA SettleType ==
  ASSUME TypeOK, NEW r \in Requests, NEW counts,
         r \in Known => counts \in [Clients -> Nat], Settle(r, counts)
  PROVE  /\ charged' \in [Requests -> Nat] /\ counters' \in [Clients -> Nat]
         /\ last_departed' \in Nat
<1>1. charged' \in [Requests -> Nat]
  BY DEF TypeOK, Settle
<1>2. CASE r \in Known
  <2>1. ClientOf[r] \in Clients /\ counts[ClientOf[r]] \in Nat
    BY <1>2, RequestsAssumption
  <2>. QED
    BY <1>1, <1>2, <2>1 DEF TypeOK, Settle, NoteDeparture
<1>3. CASE r \notin Known
  BY <1>1, <1>3 DEF TypeOK, Settle
<1>. QED
  BY <1>2, <1>3

LEMMA LessNat ==
  ASSUME NEW a \in Nat, NEW b \in Nat
  PROVE  Less(a, b) \in Nat
BY DEF Less

LEMMA RefundedType ==
  ASSUME TypeOK, NEW r \in Requests
  PROVE  Refunded(r) \in [Clients -> Nat]
<1>1. ClientOf[r] \in Clients /\ charged[r] \in Nat
  BY RequestsAssumption DEF TypeOK
<1>2. InputCharge(r) + OutputCharge(r, charged[r]) \in Nat
  BY <1>1, ChargeNat
<1>3. Less(counters[ClientOf[r]], InputCharge(r) + OutputCharge(r, charged[r])) \in Nat
  BY <1>1, <1>2, LessNat DEF TypeOK
<1>. QED
  BY <1>1, <1>3 DEF Refunded, TypeOK

LEMMA ReconciledType ==
  ASSUME TypeOK, NEW r \in Requests, NEW generated \in Nat
  PROVE  Reconciled(r, generated) \in [Clients -> Nat]
<1>1. ClientOf[r] \in Clients /\ charged[r] \in Nat /\ counters[ClientOf[r]] \in Nat
  BY RequestsAssumption DEF TypeOK
<1>2. CASE generated >= charged[r]
  <2>1. OutputCharge(r, generated - charged[r]) \in Nat
    BY <1>1, <1>2, ChargeNat
  <2>. QED
    BY <1>1, <1>2, <2>1 DEF Reconciled, TypeOK
<1>3. CASE ~(generated >= charged[r])
  <2>1. charged[r] - generated \in Nat
    BY <1>1, <1>3
  <2>2. OutputCharge(r, charged[r] - generated) \in Nat
    BY <2>1, ChargeNat
  <2>3. Less(counters[ClientOf[r]], OutputCharge(r, charged[r] - generated)) \in Nat
    BY <1>1, <2>2, LessNat
  <2>. QED
    BY <1>1, <1>3, <2>3 DEF Reconciled, TypeOK
<1>. QED
  BY <1>2, <1>3

\* What a change of phase does to the sets told by phases.
LEMMA PhaseChange ==
  ASSUME TypeOK, NEW r \in Requests,
         NEW to \in {"new", "waiting", "queued", "running", "gone", "finished"},
         phase' = [phase EXCEPT ![r] = to]
  PROVE  /\ phase' \in [Requests -> {"new", "waiting", "queued", "running", "gone", "finished"}]
         /\ {x \in Requests : phase'[x] = "running"}
              = IF to = "running" THEN running \cup {r} ELSE running \ {r}
         /\ {x \in Known : phase'[x] = "waiting"}
              = IF to = "waiting" /\ r \in Known THEN Waiters \cup {r} ELSE Waiters \ {r}
         /\ r \in Known =>
              waiting = Cardinality({x \in Anonymous : phase'[x] = "queued"})
<1>1. \A x \in Requests : phase'[x] = IF x = r THEN to ELSE phase[x]
  BY DEF TypeOK
<1>2. Known \subseteq Requests /\ Anonymous \subseteq Requests
  BY RequestsAssumption DEF Known
<1>3. r \in Known =>
        {x \in Anonymous : phase'[x] = "queued"} = {x \in Anonymous : phase[x] = "queued"}
  BY <1>1, <1>2 DEF Known
<1>4. phase' \in [Requests -> {"new", "waiting", "queued", "running", "gone", "finished"}]
  BY DEF TypeOK
<1>5. {x \in Requests : phase'[x] = "running"}
        = IF to = "running" THEN running \cup {r} ELSE running \ {r}
  BY <1>1 DEF TypeOK
<1>6. {x \in Known : phase'[x] = "waiting"}
        = IF to = "waiting" /\ r \in Known THEN Waiters \cup {r} ELSE Waiters \ {r}
  <2>1. Waiters = {x \in Known : phase[x] = "waiting"}
    BY DEF TypeOK
  <2>. HIDE DEF Waiters
  <2>. QED
    BY <1>1, <1>2, <2>1
<1>7. r \in Known => waiting = Cardinality({x \in Anonymous : phase'[x] = "queued"})
  BY <1>3 DEF TypeOK
<1>. QED
  BY <1>4, <1>5, <1>6, <1>7

LEMMA QueueUnchanged ==
  ASSUME TypeOK, Distinct, fair' = fair
  PROVE  fair' \in Seq(Known) /\ Distinct' /\ Waiters' = Waiters
BY DEF TypeOK, Distinct, Waiters

LEMMA StepIInv == IInv /\ [Next]_vars => IInv'
<1>. SUFFICES ASSUME IInv, [Next]_vars PROVE IInv'
  OBVIOUS
<1>. USE DEF IInv
<1>0. Known \subseteq Requests /\ Anonymous \subseteq Requests /\ Known \cap Anonymous = {}
  BY RequestsAssumption DEF Known
<1>1. ASSUME NEW r \in Requests, Join(r) PROVE IInv'
  <2>1. r \in Known /\ r \notin Waiters /\ r \notin running
    BY <1>1 DEF Join, TypeOK
  <2>2. fair' \in Seq(Known) /\ Distinct' /\ Waiters' = Waiters \cup {r}
    BY <1>1, <2>1, Appended DEF Join, TypeOK, Distinct, Waiters
  <2>3. counters' \in [Clients -> Nat]
    <3>1. Larger(counters[ClientOf[r]], Floor) \in Nat
      BY FloorNat, RequestsAssumption DEF TypeOK, Larger
    <3>. QED
      BY <1>1, <3>1 DEF Join, Lifted, TypeOK
  <2>4. phase' = [phase EXCEPT ![r] = "waiting"]
    BY <1>1 DEF Join
  <2>. QED
    BY <1>1, <2>1, <2>2, <2>3, <2>4, PhaseChange DEF Join, TypeOK
<1>2. ASSUME NEW r \in Requests, NEW why, Leave(r, why) PROVE IInv'
  <2>1. r \in Waiters /\ r \in Known /\ r \notin running
    BY <1>2 DEF Leave, TypeOK
  <2>2. fair' \in Seq(Known) /\ Distinct' /\ Waiters' = Waiters \ {r}
    BY <1>2, <2>1, Dequeue DEF Leave
  <2>3. phase' = [phase EXCEPT ![r] = "gone"]
    BY <1>2 DEF Leave
  <2>4. passed' \in [Requests -> SUBSET Clients]
    BY <1>2 DEF Leave, TypeOK
  <2>. QED
    BY <1>2, <2>1, <2>2, <2>3, <2>4, PhaseChange DEF Leave, TypeOK
<1>3. ASSUME NEW r \in Requests, NEW n \in ExpectedOutputs(r), Admit(r, n) PROVE IInv'
  <2>1. r \in Waiters /\ r \in Known /\ ClientOf[r] \in Clients
    BY <1>3, RequestsAssumption DEF Admit, TypeOK
  <2>2. fair' \in Seq(Known) /\ Distinct' /\ Waiters' = Waiters \ {r}
    BY <1>3, <2>1, Dequeue DEF Admit
  <2>3. phase' = [phase EXCEPT ![r] = "running"] /\ running' = running \cup {r}
    BY <1>3 DEF Admit, StartFor
  <2>4. charged' \in [Requests -> Nat]
    BY <1>3, ExpectedNat DEF Admit, StartFor, TypeOK
  <2>5. counters' \in [Clients -> Nat]
    <3>1. n \in Nat /\ InputCharge(r) \in Nat /\ OutputCharge(r, n) \in Nat
      BY ExpectedNat, ChargeNat
    <3>2. counters[ClientOf[r]] + InputCharge(r) + OutputCharge(r, n) \in Nat
      BY <3>1, <2>1 DEF TypeOK
    <3>. QED
      BY <1>3, <3>2 DEF Admit, StartFor, TypeOK
  <2>6. passed' \in [Requests -> SUBSET Clients]
    BY <1>3, <2>1 DEF Admit, Passing, TypeOK
  <2>. QED
    BY <1>3, <2>1, <2>2, <2>3, <2>4, <2>5, <2>6, PhaseChange DEF Admit, TypeOK
<1>4. ASSUME NEW r \in Requests, Enqueue(r) PROVE IInv'
  <2>1. r \in Anonymous /\ r \notin Known /\ r \notin Waiters /\ r \notin running
    BY <1>4, <1>0 DEF Enqueue, TypeOK
  <2>2. fair' \in Seq(Known) /\ Distinct' /\ Waiters' = Waiters
    BY <1>4, QueueUnchanged DEF Enqueue
  <2>3. waiting' = Cardinality({x \in Anonymous : phase'[x] = "queued"})
    <3>. DEFINE Q == {x \in Anonymous : phase[x] = "queued"}
    <3>1. IsFiniteSet(Q) /\ r \notin Q /\ waiting = Cardinality(Q)
      BY <1>4, AnonymousFinite, FS_Subset DEF Enqueue, TypeOK
    <3>2. {x \in Anonymous : phase'[x] = "queued"} = Q \cup {r}
      BY <1>4, <1>0, <2>1 DEF Enqueue, TypeOK
    <3>. HIDE DEF Q
    <3>3. Cardinality(Q \cup {r}) = Cardinality(Q) + 1
      BY <3>1, FS_AddElement
    <3>. QED
      BY <1>4, <3>1, <3>2, <3>3 DEF Enqueue
  <2>4. phase' = [phase EXCEPT ![r] = "queued"]
    BY <1>4 DEF Enqueue
  <2>. QED
    BY <1>4, <2>1, <2>2, <2>3, <2>4, PhaseChange DEF Enqueue, TypeOK
<1>5. ASSUME NEW r \in Requests, Start(r) PROVE IInv'
  <2>1. r \in Anonymous /\ r \notin Known /\ r \notin Waiters
    BY <1>5, <1>0 DEF Start, TypeOK
  <2>2. fair' \in Seq(Known) /\ Distinct' /\ Waiters' = Waiters
    BY <1>5, QueueUnchanged DEF Start
  <2>3. phase' = [phase EXCEPT ![r] = "running"]
    BY <1>5 DEF Start
  <2>4. waiting' = Cardinality({x \in Anonymous : phase'[x] = "queued"})
    BY <1>5, <2>1, <2>3, QueuedCount DEF Start
  <2>. QED
    BY <1>5, <2>1, <2>2, <2>3, <2>4, PhaseChange DEF Start, TypeOK
<1>6. ASSUME NEW r \in Requests, NEW why, TurnAway(r, why) PROVE IInv'
  <2>1. r \in Anonymous /\ r \notin Known /\ r \notin Waiters /\ r \notin running
    BY <1>6, <1>0 DEF TurnAway, TypeOK
  <2>2. fair' \in Seq(Known) /\ Distinct' /\ Waiters' = Waiters
    BY <1>6, QueueUnchanged DEF TurnAway
  <2>3. phase' = [phase EXCEPT ![r] = "gone"]
    BY <1>6 DEF TurnAway
  <2>4. waiting' = Cardinality({x \in Anonymous : phase'[x] = "queued"})
    BY <1>6, <2>1, <2>3, QueuedCount DEF TurnAway
  <2>. QED
    BY <1>6, <2>1, <2>2, <2>3, <2>4, PhaseChange DEF TurnAway, TypeOK
<1>7. ASSUME NEW r \in Requests, NEW to \in {"gone", "finished"}, NEW counts,
             r \in running, r \in Known => counts \in [Clients -> Nat], Settle(r, counts),
             phase' = [phase EXCEPT ![r] = to],
             produced' \in [Requests -> Nat],
             UNCHANGED << slots, fair, waiting, passed >>
      PROVE  IInv'
  <2>1. fair' \in Seq(Known) /\ Distinct' /\ Waiters' = Waiters
    BY <1>7, QueueUnchanged
  <2>2. phase[r] = "running" /\ r \notin Waiters
    BY <1>7 DEF TypeOK
  <2>3. waiting' = Cardinality({x \in Anonymous : phase'[x] = "queued"})
    <3>1. {x \in Anonymous : phase'[x] = "queued"} = {x \in Anonymous : phase[x] = "queued"}
      BY <1>7, <2>2, <1>0 DEF TypeOK
    <3>. QED
      BY <3>1, <1>7 DEF TypeOK
  <2>4. running' = running \ {r}
    BY <1>7 DEF Settle
  <2>5. charged' \in [Requests -> Nat] /\ counters' \in [Clients -> Nat] /\ last_departed' \in Nat
    BY <1>7, SettleType
  <2>. QED
    BY <1>7, <2>1, <2>2, <2>3, <2>4, <2>5, PhaseChange DEF TypeOK
<1>8. ASSUME NEW r \in Requests, Abort(r) PROVE IInv'
  <2>1. produced' \in [Requests -> Nat]
    BY <1>8 DEF Abort, TypeOK
  <2>. QED
    BY <1>7, <1>8, <2>1, RefundedType DEF Abort
<1>9. ASSUME NEW r \in Requests, NEW n \in 0 .. Budget[r], Finish(r, n) PROVE IInv'
  <2>1. n \in Nat
    BY RequestsAssumption
  <2>2. produced' \in [Requests -> Nat]
    BY <1>9, <2>1 DEF Finish, TypeOK
  <2>. QED
    BY <1>7, <1>9, <2>1, <2>2, ReconciledType DEF Finish
<1>10. ASSUME NEW n \in SlotCounts, SetSlots(n) PROVE IInv'
  BY <1>10 DEF SetSlots, TypeOK, Distinct, Waiters
<1>11. CASE UNCHANGED vars
  BY <1>11 DEF vars, TypeOK, Distinct, Waiters
<1>. QED
  BY <1>1, <1>2, <1>3, <1>4, <1>5, <1>6, <1>8, <1>9, <1>10, <1>11 DEF Next

\* Types, and what each request's phase says of it: it is in the queue, counted
\* as queued, or running exactly when its host has put it there.
THEOREM TypeCorrect == Spec => []TypeOK
<1>1. IInv => TypeOK
  BY DEF IInv
<1>. QED
  BY InitIInv, StepIInv, <1>1, PTL DEF Spec
-----------------------------------------------------------------------------
(* A place that is due is kept. *)

Ahead(w) == {v \in Waiters : Before(v, w)}

\* Before is a strict total order on the queue.
LEMMA BeforeOrder ==
  ASSUME TypeOK, Distinct
  PROVE  /\ \A v \in Waiters : ~Before(v, v)
         /\ \A v, w \in Waiters : v # w => Before(v, w) \/ Before(w, v)
         /\ \A u, v, w \in Waiters : Before(u, v) /\ Before(v, w) => Before(u, w)
<1>1. \A v \in Waiters : Joined(v) \in 1 .. Len(fair) /\ fair[Joined(v)] = v
  <2>1. fair \in Seq(Known) /\ \A v : Joined(v) = Position(fair, v)
    BY DEF TypeOK, Joined, Position
  <2>2. \A v \in Range(fair) :
          Position(fair, v) \in 1 .. Len(fair) /\ fair[Position(fair, v)] = v
    BY <2>1, PositionOf
  <2>. QED
    BY <2>1, <2>2 DEF Waiters
<1>2. \A v \in Waiters : counters[ClientOf[v]] \in Nat /\ ClassRank(v) \in Nat
  <2>1. Waiters \subseteq Requests
    BY DEF TypeOK, Known
  <2>. QED
    BY <2>1, RequestsAssumption DEF TypeOK, ClassRank
<1>3. \A v \in Waiters : Joined(v) \in Int
  BY <1>1
<1>4. \A v, w \in Waiters : v # w => Joined(v) # Joined(w)
  BY <1>1
<1>5. ASSUME NEW v \in Waiters PROVE ~Before(v, v)
  BY <1>2, <1>3 DEF Before
<1>6. ASSUME NEW v \in Waiters, NEW w \in Waiters, v # w PROVE Before(v, w) \/ Before(w, v)
  BY <1>2, <1>3, <1>4, <1>6 DEF Before
<1>7. ASSUME NEW u \in Waiters, NEW v \in Waiters, NEW w \in Waiters,
             Before(u, v), Before(v, w)
      PROVE  Before(u, w)
  BY <1>2, <1>3, <1>7 DEF Before
<1>. QED
  BY <1>5, <1>6, <1>7

\* Whoever is before the waiter after an admission of another caller was before
\* it already: no counter went down, and its own stayed.
LEMMA AheadShrinks ==
  ASSUME TypeOK, Distinct, NEW r \in Requests, NEW n \in ExpectedOutputs(r), Admit(r, n),
         NEW w \in Waiters, r # w, ClientOf[r] # ClientOf[w]
  PROVE  {v \in Waiters : Before(v, w)}' \subseteq Ahead(w) \ {r}
<1>1. /\ r \in Waiters /\ Waiters' = Waiters \ {r} /\ w \in Waiters'
      /\ \A u, v \in Waiters' : Joined(u)' < Joined(v)' => Joined(u) < Joined(v)
  BY Dequeue DEF Admit
<1>2. Waiters \subseteq Requests
  BY DEF TypeOK, Known
<1>3. InputCharge(r) \in Nat /\ OutputCharge(r, n) \in Nat
  BY ExpectedNat, ChargeNat
<1>4. counters' = [counters EXCEPT ![ClientOf[r]] = @ + InputCharge(r) + OutputCharge(r, n)]
  BY DEF Admit, StartFor
<1>5. \A c \in Clients : /\ counters[c] \in Nat /\ counters'[c] \in Nat
                          /\ counters'[c] >= counters[c]
  BY <1>3, <1>4, RequestsAssumption DEF TypeOK
<1>6. ClientOf[w] \in Clients /\ counters'[ClientOf[w]] = counters[ClientOf[w]]
  BY <1>2, <1>4, RequestsAssumption DEF TypeOK
<1>7. ASSUME NEW v \in Waiters', Before(v, w)'
      PROVE  Before(v, w)
  <2>1. ClientOf[v] \in Clients /\ v \in Waiters
    BY <1>1, <1>2, RequestsAssumption
  <2>2. Joined(v)' < Joined(w)' => Joined(v) < Joined(w)
    BY <1>1
  <2>3. ClassRank(v) \in Nat /\ ClassRank(w) \in Nat
    BY DEF ClassRank
  <2>4. \/ ClassRank(v) < ClassRank(w)
        \/ /\ ClassRank(v) = ClassRank(w)
           /\ \/ counters'[ClientOf[v]] < counters'[ClientOf[w]]
              \/ /\ counters'[ClientOf[v]] = counters'[ClientOf[w]]
                 /\ Joined(v)' < Joined(w)'
    BY <1>7 DEF Before, ClassRank
  <2>. QED
    BY <1>5, <1>6, <2>1, <2>2, <2>3, <2>4 DEF Before
<1>. QED
  BY <1>1, <1>7 DEF Ahead

LEMMA AheadFinite ==
  ASSUME TypeOK, NEW w
  PROVE  IsFiniteSet(Ahead(w)) /\ Cardinality(Ahead(w)) \in Nat
<1>1. Ahead(w) \subseteq Requests
  BY DEF TypeOK, Known, Ahead
<1>. QED
  BY <1>1, FiniteAssumption, FS_Subset, FS_CardinalityType

LEMMA DueKept ==
  ASSUME TypeOK, Distinct, TypeOK', NEW r \in Requests, NEW n \in ExpectedOutputs(r), Admit(r, n),
         NEW w \in Waiters, r # w, ClientOf[r] # ClientOf[w], Due(w)
  PROVE  Due(w)'
<1>. DEFINE B == Ahead(w)
            R == Ahead(r)
            A == {v \in Waiters : Before(v, w)}'
<1>1. r \in Waiters /\ Due(r)
  BY DEF Admit, DecideWaiter
<1>2. /\ IsFiniteSet(B) /\ Cardinality(B) \in Nat
      /\ IsFiniteSet(R) /\ Cardinality(R) \in Nat
  BY AheadFinite
<1>3. A \subseteq B \ {r}
  BY AheadShrinks
<1>4. Rank(w) = Cardinality(B) /\ Rank(r) = Cardinality(R) /\ Rank(w)' = Cardinality(A)
  BY DEF Rank, Ahead
<1>5. slots \in Nat /\ slots' = slots
  BY SlotsAssumption DEF TypeOK, Admit
<1>6. /\ IsFiniteSet(running) /\ Cardinality(running) \in Nat
      /\ Cardinality(running') = Cardinality(running) + 1
  <2>1. running \subseteq Requests /\ r \notin running
    BY <1>1 DEF TypeOK
  <2>2. IsFiniteSet(running)
    BY <2>1, FiniteAssumption, FS_Subset
  <2>3. running' = running \cup {r}
    BY DEF Admit, StartFor
  <2>. QED
    BY <2>1, <2>2, <2>3, FS_CardinalityType, FS_AddElement
<1>7. Cardinality(B) < Free /\ Cardinality(R) < Free
  BY <1>1, <1>4 DEF Due
<1>8. Free \in Nat /\ Free' = Free - 1
  BY <1>2, <1>5, <1>6, <1>7 DEF Free, Less
<1>. HIDE DEF A
<1>9. CASE r \in B
  <2>1. IsFiniteSet(B \ {r}) /\ Cardinality(B \ {r}) = Cardinality(B) - 1
    BY <1>2, <1>9, FS_RemoveElement
  <2>2. Cardinality(A) <= Cardinality(B) - 1 /\ Cardinality(A) \in Nat
    BY <1>3, <2>1, FS_Subset, FS_CardinalityType
  <2>. QED
    BY <1>2, <1>4, <1>7, <1>8, <2>2 DEF Due
<1>10. CASE r \notin B
  <2>1. w \in R
    BY <1>1, <1>10, BeforeOrder DEF Ahead
  <2>2. w \notin B
    BY BeforeOrder DEF Ahead
  <2>3. B \cup {w} \subseteq R
    <3>1. ASSUME NEW v \in B PROVE v \in R
      BY <2>1, <1>1, BeforeOrder DEF Ahead
    <3>. QED
      BY <3>1, <2>1
  <2>. HIDE DEF B, R
  <2>4. Cardinality(B \cup {w}) = Cardinality(B) + 1
    BY <1>2, <2>2, FS_AddElement
  <2>5. Cardinality(B) + 1 <= Cardinality(R)
    BY <1>2, <2>3, <2>4, FS_Subset
  <2>6. Cardinality(A) <= Cardinality(B) /\ Cardinality(A) \in Nat
    <3>1. A \subseteq B
      BY <1>3
    <3>. QED
      BY <1>2, <3>1, FS_Subset, FS_CardinalityType
  <2>. QED
    BY <1>2, <1>4, <1>7, <1>8, <2>5, <2>6 DEF Due
<1>. QED
  BY <1>9, <1>10

\* An admission of another caller leaves the slot that is due to a waiter.
THEOREM PlaceIsKept == Spec => PlaceKept
<1>1. IInv /\ IInv' /\ [Next]_vars =>
        \A r \in Known, w \in Known :
          r \in running' \ running /\ r # w /\ ClientOf[r] # ClientOf[w]
            /\ w \in Waiters /\ Due(w)
          => Due(w)'
  <2>. SUFFICES ASSUME IInv, IInv', [Next]_vars, NEW r \in Known, NEW w \in Known,
                       r \in running' \ running, r # w, ClientOf[r] # ClientOf[w],
                       w \in Waiters, Due(w)
                PROVE  Due(w)'
    OBVIOUS
  <2>1. \A x \in Requests : x \in Anonymous => x # r
    BY DEF Known
  <2>2. PICK x \in Requests : \E n \in ExpectedOutputs(x) : Admit(x, n) /\ x = r
    <3>1. ASSUME NEW x \in Requests, Join(x) \/ Enqueue(x) PROVE FALSE
      BY <3>1 DEF Join, Enqueue
    <3>2. ASSUME NEW x \in Requests, Start(x) PROVE FALSE
      BY <3>2, <2>1 DEF Start
    <3>3. ASSUME NEW x \in Requests, NEW why, Leave(x, why) \/ TurnAway(x, why) PROVE FALSE
      BY <3>3 DEF Leave, TurnAway
    <3>4. ASSUME NEW x \in Requests, NEW n, Abort(x) \/ Finish(x, n) PROVE FALSE
      BY <3>4 DEF Abort, Finish, Settle
    <3>5. ASSUME NEW n \in SlotCounts, SetSlots(n) \/ UNCHANGED vars PROVE FALSE
      BY <3>5 DEF SetSlots, vars
    <3>6. ~UNCHANGED vars
      BY DEF vars
    <3>7. PICK x \in Requests : \E n \in ExpectedOutputs(x) : Admit(x, n)
      BY <3>1, <3>2, <3>3, <3>4, <3>5, <3>6 DEF Next
    <3>. QED
      BY <3>7 DEF Admit, StartFor
  <2>. QED
    BY <2>2, DueKept DEF IInv
<1>. QED
  BY InitIInv, StepIInv, <1>1, PTL DEF Spec, PlaceKept
-----------------------------------------------------------------------------
(* Charges of parts and of the whole. *)

\* Charging a sum at once costs no less than charging its parts, and at most a
\* unit more.
LEMMA UnitsSum ==
  ASSUME NEW a \in Nat, NEW b \in Nat, NEW per_token \in Nat, NEW weight \in Nat \ {0}
  PROVE  /\ Units(a, per_token, weight) + Units(b, per_token, weight) <= Units(a + b, per_token, weight)
         /\ Units(a + b, per_token, weight)
              <= Units(a, per_token, weight) + Units(b, per_token, weight) + 1
<1>1. PICK s \in Nat : s = Scale
  BY CostAssumption
<1>2. PICK x \in Nat : x = (a * per_token) * s
  OBVIOUS
<1>3. PICK y \in Nat : y = (b * per_token) * s
  OBVIOUS
<1>4. ((a + b) * per_token) * s = x + y
  <2>1. PICK p \in Nat : p = a * per_token
    OBVIOUS
  <2>2. PICK q \in Nat : q = b * per_token
    OBVIOUS
  <2>3. (a + b) * per_token = p + q
    BY <2>1, <2>2
  <2>4. (p + q) * s = p * s + q * s
    OBVIOUS
  <2>. QED
    BY <1>2, <1>3, <2>1, <2>2, <2>3, <2>4
<1>5. /\ Units(a, per_token, weight) = x \div weight
      /\ Units(b, per_token, weight) = y \div weight
      /\ Units(a + b, per_token, weight) = (x + y) \div weight
  BY <1>1, <1>2, <1>3, <1>4 DEF Units
<1>. QED
  BY <1>5, DivSum

LEMMA OutputSum ==
  ASSUME NEW r \in Requests, NEW a \in Nat, NEW b \in Nat
  PROVE  /\ OutputCharge(r, a) \in Nat /\ OutputCharge(r, b) \in Nat /\ OutputCharge(r, a + b) \in Nat
         /\ OutputCharge(r, a) + OutputCharge(r, b) <= OutputCharge(r, a + b)
         /\ OutputCharge(r, a + b) <= OutputCharge(r, a) + OutputCharge(r, b) + 1
<1>1. WeightOf(r) \in Nat \ {0} /\ OutputCost \in Nat
  BY RequestsAssumption, WeightAssumption, CostAssumption DEF WeightOf
<1>2. OutputCharge(r, a) \in Nat /\ OutputCharge(r, b) \in Nat /\ OutputCharge(r, a + b) \in Nat
  BY ChargeNat
<1>. QED
  BY <1>1, <1>2, UnitsSum DEF OutputCharge

LEMMA OutputMono ==
  ASSUME NEW r \in Requests, NEW a \in Nat, NEW b \in Nat, a <= b
  PROVE  /\ OutputCharge(r, a) \in Nat /\ OutputCharge(r, b) \in Nat /\ OutputCharge(r, b - a) \in Nat
         /\ OutputCharge(r, a) + OutputCharge(r, b - a) <= OutputCharge(r, b)
         /\ OutputCharge(r, b) <= OutputCharge(r, a) + OutputCharge(r, b - a) + 1
<1>1. PICK d \in Nat : d = b - a
  OBVIOUS
<1>2. b = a + d
  BY <1>1
<1>. QED
  BY <1>1, <1>2, OutputSum

-----------------------------------------------------------------------------
(* What a step does to the requests that have a caller: nothing, or one of *)
(* them moves, and with it only its caller's counter.                      *)

Count(r) == counters[ClientOf[r]]

ActiveNow == Active(fair, running)

Same ==
  /\ \A x \in Known : phase'[x] = phase[x] /\ charged'[x] = charged[x] /\ produced'[x] = produced[x]
  /\ UNCHANGED << counters, passed, last_departed >>

Alone(r) ==
  /\ \A x \in Known : x # r => /\ phase'[x] = phase[x] /\ charged'[x] = charged[x]
                               /\ produced'[x] = produced[x]
  /\ \A c \in Clients : c # ClientOf[r] => counters'[c] = counters[c]

Joins(r) ==
  /\ phase[r] = "new" /\ phase'[r] = "waiting" /\ UNCHANGED << passed, last_departed >>
  /\ Count(r)' = IF ClientOf[r] \in ActiveNow THEN Count(r) ELSE Larger(Count(r), Floor)

Leaves(r) ==
  /\ phase[r] = "waiting" /\ phase'[r] = "gone" /\ passed' = [passed EXCEPT ![r] = {}]
  /\ Count(r)' = Count(r) /\ last_departed' = last_departed

Admits(r, n) ==
  /\ phase[r] = "waiting" /\ phase'[r] = "running" /\ passed' = Passing(r)
  /\ Due(r) /\ charged'[r] = n /\ last_departed' = last_departed
  /\ Count(r)' = Count(r) + InputCharge(r) + OutputCharge(r, n)

Aborts(r) ==
  /\ phase[r] = "running" /\ phase'[r] = "gone" /\ passed' = passed
  /\ Count(r)' = Less(Count(r), InputCharge(r) + OutputCharge(r, charged[r]))
  /\ ActiveNow' = {} => last_departed' = Count(r)'

Finishes(r, g) ==
  /\ phase[r] = "running" /\ phase'[r] = "finished" /\ passed' = passed
  /\ produced'[r] = IF g = 0 THEN charged[r] ELSE g
  /\ Count(r)' = IF g = 0 THEN Count(r)
                 ELSE IF g >= charged[r] THEN Count(r) + OutputCharge(r, g - charged[r])
                 ELSE Less(Count(r), OutputCharge(r, charged[r] - g))
  /\ ActiveNow' = {} => last_departed' = Count(r)'

Moves(r) ==
  \/ Joins(r) \/ Leaves(r) \/ Aborts(r)
  \/ \E n \in ExpectedOutputs(r) : Admits(r, n)
  \/ \E g \in 0 .. Budget[r] : Finishes(r, g)

\* Every step is one of these.
LEMMA KnownSteps ==
  ASSUME TypeOK, [Next]_vars
  PROVE  Same \/ \E r \in Known : Alone(r) /\ Moves(r)
<1>0. /\ Known \subseteq Requests /\ Anonymous \subseteq Requests /\ Known \cap Anonymous = {}
      /\ \A r \in Requests : r \in Known \/ r \in Anonymous
      /\ \A r \in Known : ClientOf[r] \in Clients
  BY RequestsAssumption DEF Known
<1>1. ASSUME NEW r \in Requests, Join(r) PROVE r \in Known /\ Alone(r) /\ Joins(r)
  <2>1. r \in Known /\ phase[r] = "new" /\ phase' = [phase EXCEPT ![r] = "waiting"]
        /\ UNCHANGED << charged, produced, passed, last_departed >> /\ counters' = Lifted(ClientOf[r])
    BY <1>1 DEF Join
  <2>2. Alone(r)
    BY <2>1, <1>0 DEF Alone, Lifted, TypeOK
  <2>3. Joins(r)
    BY <2>1, <1>0, <1>1 DEF Join, Joins, Lifted, TypeOK, Count, ActiveNow
  <2>. QED
    BY <2>1, <2>2, <2>3
<1>2. ASSUME NEW r \in Requests, NEW why, Leave(r, why) PROVE r \in Known /\ Alone(r) /\ Leaves(r)
  <2>1. r \in Known /\ phase[r] = "waiting"
    BY <1>2 DEF Leave, TypeOK
  <2>. QED
    BY <1>0, <1>2, <2>1 DEF Leave, TypeOK, Alone, Leaves, Count
<1>3. ASSUME NEW r \in Requests, NEW n \in ExpectedOutputs(r), Admit(r, n)
      PROVE  r \in Known /\ Alone(r) /\ Admits(r, n)
  <2>1. r \in Known /\ phase[r] = "waiting"
    BY <1>3 DEF Admit, TypeOK
  <2>2. Due(r)
    BY <1>3 DEF Admit, DecideWaiter
  <2>3. /\ phase' = [phase EXCEPT ![r] = "running"] /\ passed' = Passing(r) /\ UNCHANGED << produced, last_departed >>
        /\ charged' = [charged EXCEPT ![r] = n]
        /\ counters' = [counters EXCEPT ![ClientOf[r]] = @ + InputCharge(r) + OutputCharge(r, n)]
    BY <1>3 DEF Admit, StartFor
  <2>4. Alone(r)
    BY <2>1, <2>3, <1>0 DEF Alone, TypeOK
  <2>. QED
    BY <1>0, <2>1, <2>2, <2>3, <2>4 DEF TypeOK, Admits, Count
<1>4. ASSUME NEW r \in Requests, Enqueue(r) \/ Start(r) \/ (\E why : TurnAway(r, why)) PROVE Same
  <2>1. r \notin Known /\ (\E to : phase' = [phase EXCEPT ![r] = to])
        /\ UNCHANGED << charged, produced, passed, counters, last_departed >>
    BY <1>0, <1>4 DEF Enqueue, Start, TurnAway
  <2>. QED
    BY <1>0, <2>1 DEF TypeOK, Same
<1>5. ASSUME NEW r \in Requests, NEW counts, Settle(r, counts), NEW to, phase' = [phase EXCEPT ![r] = to],
             r \in Anonymous, passed' = passed, \A x \in Known : produced'[x] = produced[x]
      PROVE  Same
  <2>1. r \notin Known /\ UNCHANGED << counters, last_departed >> /\ charged' = [charged EXCEPT ![r] = 0]
    BY <1>0, <1>5 DEF Settle
  <2>. QED
    BY <1>0, <1>5, <2>1 DEF TypeOK, Same
<1>l. ASSUME NEW r \in Known, NEW counts, Settle(r, counts), UNCHANGED fair
      PROVE  ActiveNow' = {} => last_departed' = Count(r)'
  BY <1>l DEF Settle, NoteDeparture, ActiveNow, Count
<1>6. ASSUME NEW r \in Requests, Abort(r) PROVE Same \/ (r \in Known /\ Alone(r) /\ Aborts(r))
  <2>1. CASE r \in Anonymous
    BY <1>5, <1>6, <2>1 DEF Abort
  <2>2. CASE r \in Known
    <3>1. /\ phase[r] = "running" /\ phase' = [phase EXCEPT ![r] = "gone"]
          /\ UNCHANGED << produced, passed >> /\ charged' = [charged EXCEPT ![r] = 0]
          /\ counters' = Refunded(r)
      BY <1>6, <2>2 DEF Abort, Settle, TypeOK
    <3>2. ActiveNow' = {} => last_departed' = Count(r)'
      BY <1>6, <1>l, <2>2 DEF Abort
    <3>3. Count(r)' = Less(Count(r), InputCharge(r) + OutputCharge(r, charged[r]))
      BY <1>0, <2>2, <3>1 DEF TypeOK, Refunded, Count
    <3>4. Alone(r)
      BY <1>0, <2>2, <3>1 DEF TypeOK, Alone, Refunded
    <3>. QED
      BY <1>0, <2>2, <3>1, <3>2, <3>3, <3>4 DEF TypeOK, Aborts
  <2>. QED
    BY <1>0, <2>1, <2>2
<1>7. ASSUME NEW r \in Requests, NEW g \in 0 .. Budget[r], Finish(r, g)
      PROVE  Same \/ (r \in Known /\ Alone(r) /\ Finishes(r, g))
  <2>1. CASE r \in Anonymous
    <3>1. \A x \in Known : produced'[x] = produced[x]
      BY <1>0, <1>7, <2>1 DEF Finish, TypeOK
    <3>. QED
      BY <1>5, <1>7, <2>1, <3>1 DEF Finish
  <2>2. CASE r \in Known
    <3>1. /\ phase[r] = "running" /\ phase' = [phase EXCEPT ![r] = "finished"]
          /\ passed' = passed /\ charged' = [charged EXCEPT ![r] = 0]
          /\ counters' = Reconciled(r, g)
          /\ produced' = [produced EXCEPT ![r] = IF g = 0 THEN charged[r] ELSE g]
      BY <1>0, <1>7, <2>2 DEF Finish, Settle, TypeOK
    <3>2. Alone(r)
      BY <1>0, <2>2, <3>1 DEF TypeOK, Alone, Reconciled
    <3>3. ActiveNow' = {} => last_departed' = Count(r)'
      BY <1>7, <1>l, <2>2 DEF Finish
    <3>4. Count(r)' = IF g = 0 THEN Count(r)
                      ELSE IF g >= charged[r] THEN Count(r) + OutputCharge(r, g - charged[r])
                      ELSE Less(Count(r), OutputCharge(r, charged[r] - g))
      BY <1>0, <2>2, <3>1 DEF TypeOK, Reconciled, Count
    <3>. QED
      BY <1>0, <2>2, <3>1, <3>2, <3>3, <3>4 DEF TypeOK, Finishes
  <2>. QED
    BY <1>0, <2>1, <2>2
<1>8. ASSUME NEW n \in SlotCounts, SetSlots(n) PROVE Same
  BY <1>8 DEF SetSlots, Same
<1>9. CASE UNCHANGED vars
  BY <1>9 DEF vars, Same
<1>. QED
  BY <1>1, <1>2, <1>3, <1>4, <1>6, <1>7, <1>8, <1>9 DEF Next, Moves

-----------------------------------------------------------------------------
(* A caller's counter covers what it owes. *)

Paid(c) == counters[c] + Cardinality(Of(c, "finished")) >= SumOf(Owed(c))

\* What one request adds to what its caller owes.
Charge(r) == InputCharge(r) + OutputCharge(r, charged[r])
Had(r) == InputCharge(r) + OutputCharge(r, produced[r])

LEMMA OwedNat ==
  ASSUME TypeOK, NEW c \in Clients
  PROVE  Owed(c) \in [Known -> Nat] /\ IsFiniteSet(Known)
         /\ \A r \in Known : Had(r) \in Nat /\ Charge(r) \in Nat
<1>1. Known \subseteq Requests /\ IsFiniteSet(Known)
  BY FiniteAssumption, FS_Subset DEF Known
<1>2. \A r \in Known : charged[r] \in Nat /\ produced[r] \in Nat
  BY <1>1 DEF TypeOK
<1>3. \A r \in Known : Had(r) \in Nat /\ Charge(r) \in Nat
  BY <1>1, <1>2, ChargeNat DEF Had, Charge
<1>. QED
  BY <1>1, <1>3 DEF Owed, Had, Charge

LEMMA OwedTyped ==
  ASSUME TypeOK', NEW c \in Clients
  PROVE  Owed(c)' \in [Known -> Nat]
<1>1. Known \subseteq Requests
  BY DEF Known
<1>2. \A x \in Known : charged'[x] \in Nat /\ produced'[x] \in Nat
  BY <1>1 DEF TypeOK
<1>3. \A x \in Known : InputCharge(x) \in Nat /\ \A n \in Nat : OutputCharge(x, n) \in Nat
  BY <1>1, ChargeNat
<1>4. \A x \in Known : /\ InputCharge(x) + OutputCharge(x, charged'[x]) \in Nat
                       /\ InputCharge(x) + OutputCharge(x, produced'[x]) \in Nat
  BY <1>2, <1>3
<1>. QED
  BY <1>4 DEF Owed

\* One request moves: the sum changes by what it adds.
LEMMA OwedMoves ==
  ASSUME TypeOK, TypeOK', NEW r \in Known, Alone(r), NEW c \in Clients
  PROVE  SumOf(Owed(c)) + Owed(c)[r]' = SumOf(Owed(c))' + Owed(c)[r]
<1>1. PICK f \in [Known -> Nat] : f = Owed(c)
  BY OwedNat
<1>2. PICK g \in [Known -> Nat] : g = Owed(c)'
  BY OwedTyped
<1>3. \A x \in Known : x # r => f[x] = g[x]
  BY <1>1, <1>2 DEF Owed, Alone
<1>4. SumOf(f) + g[r] = SumOf(g) + f[r]
  BY <1>3, OwedNat, SumReplaced
<1>. QED
  BY <1>1, <1>2, <1>4

\* One request moves: whether its caller is still covered is up to what its
\* counter gained against what the request adds.
LEMMA PaidMoves ==
  ASSUME TypeOK, TypeOK', NEW r \in Known, Alone(r), NEW c \in Clients, Paid(c),
         phase[r] # "finished",
         NEW k \in {0, 1}, k = 1 <=> phase'[r] = "finished" /\ ClientOf[r] = c,
         counters'[c] + k + Owed(c)[r] >= counters[c] + Owed(c)[r]'
  PROVE  Paid(c)'
<1>1. PICK a \in Nat : a = Owed(c)[r]
  BY OwedNat
<1>2. PICK s \in Nat : s = SumOf(Owed(c))
  <2>1. SumOf(Owed(c)) \in Nat
    BY OwedNat, SumNat
  <2>. QED
    BY <2>1
<1>3. PICK g \in [Known -> Nat] : g = Owed(c)'
  BY OwedTyped
<1>4. PICK t \in Nat : t = SumOf(g)
  BY OwedNat, SumNat
<1>5. s + g[r] = t + a
  BY <1>1, <1>2, <1>3, <1>4, OwedMoves
<1>. DEFINE F == Of(c, "finished")
            G == Of(c, "finished")'
<1>6. G = IF k = 1 THEN F \cup {r} ELSE F
  BY DEF Alone, Of
<1>7. IsFiniteSet(F) /\ r \notin F /\ Cardinality(F) \in Nat
  <2>1. F \subseteq Known
    BY DEF Of
  <2>. QED
    BY <2>1, OwedNat, FS_Subset, FS_CardinalityType DEF Of
<1>8. Cardinality(G) = Cardinality(F) + k
  <2>. HIDE DEF F, G
  <2>1. Cardinality(F \cup {r}) = Cardinality(F) + 1
    BY <1>7, FS_AddElement
  <2>. QED
    BY <1>6, <1>7, <2>1
<1>9. counters[c] + Cardinality(F) >= s
  BY <1>2 DEF Paid
<1>10. counters[c] \in Nat /\ counters'[c] \in Nat /\ g[r] \in Nat
  BY DEF TypeOK
<1>11. counters'[c] + k + a >= counters[c] + g[r]
  BY <1>1, <1>3
<1>. HIDE DEF F, G
<1>12. counters'[c] + Cardinality(G) >= t
  BY <1>5, <1>7, <1>8, <1>9, <1>10, <1>11
<1>. QED
  BY <1>3, <1>4, <1>12 DEF Paid, G

LEMMA PaidStep ==
  ASSUME TypeOK, TypeOK', [Next]_vars, NEW c \in Clients, Paid(c)
  PROVE  Paid(c)'
<1>1. CASE Same
  <2>1. Of(c, "finished")' = Of(c, "finished") /\ Owed(c)' = Owed(c) /\ counters' = counters
    BY <1>1 DEF Same, Of, Owed
  <2>. QED
    BY <2>1 DEF Paid
<1>2. ASSUME NEW r \in Known, Alone(r), Moves(r) PROVE Paid(c)'
  <2>1. /\ r \in Requests /\ ClientOf[r] \in Clients /\ Budget[r] \in Nat /\ charged[r] \in Nat
        /\ phase[r] # "finished"
    BY <1>2, RequestsAssumption DEF Known, TypeOK, Moves, Joins, Leaves, Admits, Aborts, Finishes
  <2>2. PICK k \in {0, 1} : k = 1 <=> phase'[r] = "finished" /\ ClientOf[r] = c
    OBVIOUS
  <2>3. \A x \in Clients : counters[x] \in Nat /\ counters'[x] \in Nat
    BY DEF TypeOK
  <2>4. SUFFICES counters'[c] + k + Owed(c)[r] >= counters[c] + Owed(c)[r]'
    BY <1>2, <2>1, <2>2, PaidMoves
  <2>5. CASE ClientOf[r] # c
    <3>1. counters'[c] = counters[c] /\ Owed(c)[r] = 0 /\ Owed(c)[r]' = 0
      BY <1>2, <2>5 DEF Alone, Owed
    <3>. QED
      BY <2>3, <3>1
  <2>6. CASE ClientOf[r] = c
    <3>1. PICK a \in Nat : a = InputCharge(r)
      BY <2>1, ChargeNat
    <3>2. PICK d \in Nat : d = OutputCharge(r, charged[r])
      BY <2>1, ChargeNat
    <3>3. counters[c] = Count(r) /\ counters'[c] = Count(r)' /\ Count(r) \in Nat /\ Count(r)' \in Nat
      BY <2>3, <2>6 DEF Count
    <3>4. CASE Joins(r)
      <4>1. Owed(c)[r] = 0 /\ Owed(c)[r]' = 0
        BY <3>4, <2>6 DEF Joins, Owed
      <4>2. Floor \in Nat
        BY FloorNat
      <4>3. Count(r)' >= Count(r)
        BY <3>3, <3>4, <4>2 DEF Joins, Larger
      <4>. QED
        BY <3>3, <4>1, <4>3
    <3>5. CASE Leaves(r)
      <4>1. Owed(c)[r] = 0 /\ Owed(c)[r]' = 0
        BY <3>5, <2>6 DEF Leaves, Owed
      <4>2. Count(r)' = Count(r)
        BY <3>5 DEF Leaves
      <4>. QED
        BY <3>3, <4>1, <4>2
    <3>6. CASE Aborts(r)
      <4>1. Owed(c)[r] = a + d /\ Owed(c)[r]' = 0
        BY <3>1, <3>2, <3>6, <2>6 DEF Aborts, Owed
      <4>2. Count(r)' = Less(Count(r), a + d)
        BY <3>1, <3>2, <3>6 DEF Aborts
      <4>. QED
        BY <3>3, <4>1, <4>2 DEF Less
    <3>7. ASSUME NEW n \in ExpectedOutputs(r), Admits(r, n)
          PROVE  counters'[c] + k + Owed(c)[r] >= counters[c] + Owed(c)[r]'
      <4>1. PICK e \in Nat : e = OutputCharge(r, n)
        BY <2>1, ExpectedNat, ChargeNat
      <4>2. Owed(c)[r] = 0 /\ Owed(c)[r]' = a + e
        BY <3>1, <3>7, <2>6, <4>1 DEF Admits, Owed
      <4>3. Count(r)' = Count(r) + a + e
        BY <3>1, <3>7, <4>1 DEF Admits
      <4>. QED
        BY <3>3, <4>2, <4>3
    <3>8. ASSUME NEW g \in 0 .. Budget[r], Finishes(r, g)
          PROVE  counters'[c] + k + Owed(c)[r] >= counters[c] + Owed(c)[r]'
      <4>1. g \in Nat /\ k = 1
        BY <2>1, <2>2, <2>6, <3>8 DEF Finishes
      <4>2. PICK e \in Nat : e = OutputCharge(r, produced'[r])
        <5>1. produced'[r] \in Nat
          BY <2>1 DEF TypeOK
        <5>. QED
          BY <2>1, <5>1, ChargeNat
      <4>3. Owed(c)[r] = a + d /\ Owed(c)[r]' = a + e
        BY <3>1, <3>2, <3>8, <2>6, <4>2 DEF Finishes, Owed
      <4>4. CASE g = 0
        <5>1. e = d /\ Count(r)' = Count(r)
          BY <3>2, <3>8, <4>2, <4>4 DEF Finishes
        <5>. QED
          BY <3>3, <4>1, <4>3, <5>1
      <4>5. CASE g # 0 /\ g >= charged[r]
        <5>1. e = OutputCharge(r, g) /\ Count(r)' = Count(r) + OutputCharge(r, g - charged[r])
          BY <3>8, <4>2, <4>5 DEF Finishes
        <5>2. e <= d + OutputCharge(r, g - charged[r]) + 1 /\ OutputCharge(r, g - charged[r]) \in Nat
          BY <2>1, <3>2, <4>1, <4>5, <5>1, OutputMono
        <5>. QED
          BY <3>3, <4>1, <4>3, <5>1, <5>2
      <4>6. CASE g # 0 /\ ~(g >= charged[r])
        <5>1. e = OutputCharge(r, g) /\ Count(r)' = Less(Count(r), OutputCharge(r, charged[r] - g))
          BY <3>8, <4>2, <4>6 DEF Finishes
        <5>2. e + OutputCharge(r, charged[r] - g) <= d /\ OutputCharge(r, charged[r] - g) \in Nat
          <6>1. g <= charged[r]
            BY <2>1, <4>1, <4>6
          <6>. QED
            BY <2>1, <3>2, <4>1, <5>1, <6>1, OutputMono
        <5>. QED
          BY <3>3, <4>1, <4>3, <5>1, <5>2 DEF Less
      <4>. QED
        BY <4>4, <4>5, <4>6
    <3>. QED
      BY <1>2, <3>4, <3>5, <3>6, <3>7, <3>8 DEF Moves
  <2>. QED
    BY <2>5, <2>6
<1>. QED
  BY <1>1, <1>2, KnownSteps

LEMMA PaidInit ==
  ASSUME Init, NEW c \in Clients
  PROVE  Paid(c)
<1>1. TypeOK
  BY InitIInv DEF IInv
<1>2. PICK f \in [Known -> Nat] : f = Owed(c)
  BY <1>1, OwedNat
<1>3. \A r \in Known : f[r] = 0
  BY <1>2 DEF Init, Owed, Known
<1>4. SumOf(f) <= 0 * Cardinality(Known \cap {}) /\ IsFiniteSet(Known)
  BY <1>1, <1>3, OwedNat, SumBounded
<1>5. Known \cap {} = {} /\ Cardinality({}) = 0
  BY FS_EmptySet
<1>6. SumOf(f) \in Nat /\ SumOf(f) <= 0
  BY <1>4, <1>5, SumNat
<1>7. Of(c, "finished") = {} /\ counters[c] = 0
  BY DEF Init, Of, Known
<1>. QED
  BY <1>2, <1>5, <1>6, <1>7 DEF Paid

\* Whatever charges, refunds, lifts and roundings came before, a caller's
\* counter covers the service it had and what its running requests were charged.
THEOREM Covers == Spec => []ServicePaid
<1>. DEFINE All == \A c \in Clients : Paid(c)
<1>1. Init => All
  BY PaidInit
<1>2. IInv /\ IInv' /\ All /\ [Next]_vars => All'
  BY PaidStep DEF IInv
<1>3. All => ServicePaid
  BY DEF ServicePaid, Paid, SumOf
<1>. HIDE DEF All
<1>. QED
  BY InitIInv, StepIInv, <1>1, <1>2, <1>3, PTL DEF Spec

-----------------------------------------------------------------------------
(* The greatest slot count, and the greatest charge. *)

LEMMA MostSlots ==
  MaxSlots \in SlotCounts /\ MaxSlots \in Nat /\ \A n \in SlotCounts : n <= MaxSlots
<1>1. SlotCounts \in SUBSET Nat
  BY SlotsAssumption
<1>2. \E m \in SlotCounts : \A y \in SlotCounts : y <= m
  BY <1>1, SlotsAssumption, GreatestNat
<1>. QED
  BY <1>1, <1>2 DEF MaxSlots

LEMMA GreatestCharge ==
  ASSUME NEW w \in Known
  PROVE  /\ FullCharge \in Nat
         /\ \A r \in Known : InputCharge(r) + OutputCharge(r, Budget[r]) <= FullCharge
<1>. DEFINE full == {InputCharge(r) + OutputCharge(r, Budget[r]) : r \in Known}
<1>1. IsFiniteSet(Known) /\ Known \subseteq Requests
  BY FiniteAssumption, FS_Subset DEF Known
<1>2. \A r \in Known : InputCharge(r) + OutputCharge(r, Budget[r]) \in Nat
  <2>1. \A r \in Known : Budget[r] \in Nat
    BY <1>1, RequestsAssumption
  <2>2. \A r \in Known : InputCharge(r) \in Nat /\ OutputCharge(r, Budget[r]) \in Nat
    BY <1>1, <2>1, ChargeNat
  <2>. QED
    BY <2>2
<1>3. full \in SUBSET Nat /\ full # {} /\ IsFiniteSet(full)
  <2>1. PICK f : f = [r \in Known |-> InputCharge(r) + OutputCharge(r, Budget[r])]
    OBVIOUS
  <2>2. full = {f[r] : r \in Known}
    BY <2>1
  <2>3. IsFiniteSet(full)
    <3>1. DOMAIN f = Known /\ f \in [Known -> Nat]
      BY <1>2, <2>1
    <3>2. f \in Surjection(Known, full)
      BY <2>2, <3>1 DEF Surjection
    <3>. QED
      BY <1>1, <3>2, FS_Surjection
  <2>. QED
    BY <1>2, <2>3
<1>4. \E n \in full : \A k \in full : k <= n
  <2>. HIDE DEF full
  <2>. QED
    BY <1>3, GreatestNat
<1>5. FullCharge \in full /\ \A k \in full : k <= FullCharge
  BY <1>4 DEF FullCharge
<1>. QED
  BY <1>3, <1>5

-----------------------------------------------------------------------------
(* How far a caller may yet be ahead of one that waits: its running        *)
(* requests may still be charged the rest of their budget, and those of    *)
(* the waiter's caller may give back what they were charged.               *)

Rest(r) == OutputCharge(r, Budget[r]) - OutputCharge(r, charged[r])

Stake(c, u) ==
  [r \in Known |->
     IF phase[r] # "running" THEN 0
     ELSE IF ClientOf[r] = c THEN Rest(r)
     ELSE IF ClientOf[r] = u THEN InputCharge(r) + OutputCharge(r, charged[r])
     ELSE 0]

Near(c, u) == counters[c] + SumOf(Stake(c, u)) <= counters[u] + MaxSlots * FullCharge

WithinBudget == \A r \in Known : phase[r] = "running" => charged[r] <= Budget[r]

FewRun == Cardinality(running) <= MaxSlots

\* What a request is charged lies within its full charge.
LEMMA ChargeWithin ==
  ASSUME NEW r \in Known, NEW n \in Nat, n <= Budget[r]
  PROVE  /\ InputCharge(r) \in Nat /\ OutputCharge(r, n) \in Nat
         /\ OutputCharge(r, Budget[r]) - OutputCharge(r, n) \in Nat
         /\ OutputCharge(r, Budget[r]) \in Nat
         /\ InputCharge(r) + OutputCharge(r, Budget[r]) <= FullCharge /\ FullCharge \in Nat
<1>1. r \in Requests /\ Budget[r] \in Nat
  BY RequestsAssumption DEF Known
<1>2. /\ OutputCharge(r, n) \in Nat /\ OutputCharge(r, Budget[r]) \in Nat
      /\ OutputCharge(r, Budget[r] - n) \in Nat
      /\ OutputCharge(r, n) + OutputCharge(r, Budget[r] - n) <= OutputCharge(r, Budget[r])
  BY <1>1, OutputMono
<1>3. InputCharge(r) \in Nat
  BY <1>1, ChargeNat
<1>. QED
  BY <1>2, <1>3, GreatestCharge

\* For any phases and charges that stay in the budgets.
LEMMA StakeValues ==
  ASSUME NEW ph, NEW ch \in [Requests -> Nat],
         \A r \in Known : ph[r] = "running" => ch[r] <= Budget[r],
         NEW c \in Clients, NEW u \in Clients,
         NEW f,
         f = [r \in Known |->
                IF ph[r] # "running" THEN 0
                ELSE IF ClientOf[r] = c THEN OutputCharge(r, Budget[r]) - OutputCharge(r, ch[r])
                ELSE IF ClientOf[r] = u THEN InputCharge(r) + OutputCharge(r, ch[r])
                ELSE 0]
  PROVE  /\ f \in [Known -> Nat]
         /\ \A r \in Known : f[r] <= FullCharge /\ (ph[r] # "running" => f[r] = 0)
<1>1. ASSUME NEW r \in Known PROVE f[r] \in Nat /\ f[r] <= FullCharge /\ (ph[r] # "running" => f[r] = 0)
  <2>1. CASE ph[r] # "running"
    <3>1. f[r] = 0
      BY <2>1
    <3>2. FullCharge \in Nat
      BY GreatestCharge
    <3>. QED
      BY <2>1, <3>1, <3>2
  <2>2. CASE ph[r] = "running"
    <3>1. ch[r] \in Nat /\ ch[r] <= Budget[r]
      BY <2>2 DEF Known
    <3>2. /\ InputCharge(r) \in Nat /\ OutputCharge(r, ch[r]) \in Nat
          /\ OutputCharge(r, Budget[r]) - OutputCharge(r, ch[r]) \in Nat
          /\ OutputCharge(r, Budget[r]) \in Nat
          /\ InputCharge(r) + OutputCharge(r, Budget[r]) <= FullCharge /\ FullCharge \in Nat
      BY <3>1, ChargeWithin
    <3>3. \/ f[r] = OutputCharge(r, Budget[r]) - OutputCharge(r, ch[r])
          \/ f[r] = InputCharge(r) + OutputCharge(r, ch[r])
          \/ f[r] = 0
      BY <2>2
    <3>. QED
      BY <2>2, <3>2, <3>3
  <2>. QED
    BY <2>1, <2>2
<1>2. DOMAIN f = Known /\ f = [r \in Known |-> f[r]]
  OBVIOUS
<1>. QED
  BY <1>1, <1>2

LEMMA KnownFinite == IsFiniteSet(Known) /\ Known \subseteq Requests
BY FiniteAssumption, FS_Subset DEF Known

LEMMA StakeTyped ==
  ASSUME TypeOK, WithinBudget, NEW c \in Clients, NEW u \in Clients
  PROVE  /\ Stake(c, u) \in [Known -> Nat]
         /\ \A r \in Known : Stake(c, u)[r] <= FullCharge /\ (phase[r] # "running" => Stake(c, u)[r] = 0)
<1>1. PICK f : f = Stake(c, u)
  OBVIOUS
<1>2. charged \in [Requests -> Nat] /\ \A r \in Known : phase[r] = "running" => charged[r] <= Budget[r]
  BY DEF TypeOK, WithinBudget
<1>3. f = [r \in Known |->
             IF phase[r] # "running" THEN 0
             ELSE IF ClientOf[r] = c THEN OutputCharge(r, Budget[r]) - OutputCharge(r, charged[r])
             ELSE IF ClientOf[r] = u THEN InputCharge(r) + OutputCharge(r, charged[r])
             ELSE 0]
  BY <1>1 DEF Stake, Rest
<1>4. f \in [Known -> Nat] /\ \A r \in Known : f[r] <= FullCharge /\ (phase[r] # "running" => f[r] = 0)
  BY <1>2, <1>3, StakeValues
<1>. QED
  BY <1>1, <1>4

LEMMA StakeTypedNext ==
  ASSUME TypeOK', WithinBudget', NEW c \in Clients, NEW u \in Clients
  PROVE  /\ Stake(c, u)' \in [Known -> Nat]
         /\ \A r \in Known : Stake(c, u)'[r] <= FullCharge /\ (phase'[r] # "running" => Stake(c, u)'[r] = 0)
<1>1. PICK f : f = Stake(c, u)'
  OBVIOUS
<1>2. charged' \in [Requests -> Nat]
  BY DEF TypeOK
<1>3. \A r \in Known : phase'[r] = "running" => charged'[r] <= Budget[r]
  BY DEF WithinBudget
<1>4. PICK ph : ph = phase'
  OBVIOUS
<1>5. PICK ch \in [Requests -> Nat] : ch = charged'
  BY <1>2
<1>6. f = [r \in Known |->
                IF ph[r] # "running" THEN 0
                ELSE IF ClientOf[r] = c THEN OutputCharge(r, Budget[r]) - OutputCharge(r, ch[r])
                ELSE IF ClientOf[r] = u THEN InputCharge(r) + OutputCharge(r, ch[r])
                ELSE 0]
  BY <1>1, <1>4, <1>5 DEF Stake, Rest
<1>7. \A r \in Known : ph[r] = "running" => ch[r] <= Budget[r]
  BY <1>3, <1>4, <1>5
<1>8. f \in [Known -> Nat] /\ \A r \in Known : f[r] <= FullCharge /\ (ph[r] # "running" => f[r] = 0)
  BY <1>6, <1>7, StakeValues
<1>. QED
  BY <1>1, <1>4, <1>8

\* What is at stake is at most one full charge for every running request.
LEMMA StakeBounded ==
  ASSUME NEW f \in [Known -> Nat], NEW S, S \subseteq Requests, Cardinality(S) <= MaxSlots,
         NEW x \in Known,
         \A r \in Known : f[r] <= FullCharge /\ (r \notin S => f[r] = 0)
  PROVE  SumOf(f) \in Nat /\ MaxSlots * FullCharge \in Nat /\ SumOf(f) <= MaxSlots * FullCharge
<1>1. PICK k \in Nat : k = FullCharge
  BY GreatestCharge
<1>2. SumOf(f) <= k * Cardinality(Known \cap S) /\ SumOf(f) \in Nat
  BY <1>1, KnownFinite, SumBounded, SumNat
<1>3. Cardinality(Known \cap S) \in Nat /\ Cardinality(Known \cap S) <= Cardinality(S) /\ Cardinality(S) \in Nat
  <2>1. IsFiniteSet(S)
    BY FiniteAssumption, FS_Subset
  <2>. QED
    BY <2>1, FS_Subset, FS_CardinalityType
<1>4. PICK m \in Nat : m = MaxSlots
  BY MostSlots
<1>5. k * Cardinality(Known \cap S) <= k * m /\ k * Cardinality(Known \cap S) \in Nat
  BY <1>3, <1>4, MulMono, MulSum
<1>6. k * m = m * k /\ m * k \in Nat
  OBVIOUS
<1>. QED
  BY <1>1, <1>2, <1>4, <1>5, <1>6

\* One request moves: the waiter's margin moves with the counters and with what
\* that request has at stake.
LEMMA NearMoves ==
  ASSUME TypeOK, TypeOK', WithinBudget, WithinBudget', NEW r \in Known, Alone(r),
         NEW c \in Clients, NEW u \in Clients, Near(c, u),
         counters'[c] + Stake(c, u)[r]' + counters[u] <= counters'[u] + counters[c] + Stake(c, u)[r]
  PROVE  Near(c, u)'
<1>1. PICK f \in [Known -> Nat] : f = Stake(c, u)
  BY StakeTyped
<1>2. PICK g \in [Known -> Nat] : g = Stake(c, u)'
  BY StakeTypedNext
<1>3. \A x \in Known : x # r => f[x] = g[x]
  BY <1>1, <1>2 DEF Stake, Rest, Alone
<1>4. SumOf(f) + g[r] = SumOf(g) + f[r] /\ SumOf(f) \in Nat /\ SumOf(g) \in Nat
  BY <1>3, KnownFinite, SumReplaced, SumNat
<1>5. PICK m : m = MaxSlots * FullCharge
  OBVIOUS
<1>6. m \in Nat
  <2>1. PICK k \in Nat : k = FullCharge
    BY GreatestCharge
  <2>2. PICK n \in Nat : n = MaxSlots
    BY MostSlots
  <2>. QED
    BY <1>5, <2>1, <2>2
<1>7. counters[c] + SumOf(f) <= counters[u] + m
  BY <1>1, <1>5 DEF Near
<1>8. /\ counters[c] \in Nat /\ counters'[c] \in Nat /\ counters[u] \in Nat /\ counters'[u] \in Nat
      /\ f[r] \in Nat /\ g[r] \in Nat
  BY DEF TypeOK
<1>9. counters'[c] + g[r] + counters[u] <= counters'[u] + counters[c] + f[r]
  BY <1>1, <1>2
<1>10. counters'[c] + SumOf(g) <= counters'[u] + m
  BY <1>4, <1>6, <1>7, <1>8, <1>9
<1>. QED
  BY <1>2, <1>5, <1>10 DEF Near

\* Who has a slot due while another has none is before it, and if that one is
\* interactive its caller had no less service.
LEMMA DueBefore ==
  ASSUME TypeOK, Distinct, NEW r \in Waiters, NEW w \in Waiters, Due(r), ~Due(w), r # w,
         ClassOf[w] = "interactive"
  PROVE  counters[ClientOf[r]] <= counters[ClientOf[w]]
<1>1. Before(r, w)
  <2>. SUFFICES ASSUME ~Before(r, w) PROVE FALSE
    OBVIOUS
  <2>1. Before(w, r)
    BY BeforeOrder
  <2>2. Ahead(w) \subseteq Ahead(r)
    BY <2>1, BeforeOrder DEF Ahead
  <2>3. /\ IsFiniteSet(Ahead(r)) /\ Cardinality(Ahead(r)) \in Nat
        /\ Cardinality(Ahead(w)) \in Nat /\ Cardinality(Ahead(w)) <= Cardinality(Ahead(r))
    BY <2>2, AheadFinite, FS_Subset
  <2>4. Rank(w) = Cardinality(Ahead(w)) /\ Rank(r) = Cardinality(Ahead(r))
    BY DEF Rank, Ahead
  <2>5. Free \in Nat
    <3>1. slots \in Nat
      BY SlotsAssumption DEF TypeOK
    <3>2. running \subseteq Requests
      BY DEF TypeOK
    <3>3. Cardinality(running) \in Nat
      BY <3>2, FiniteAssumption, FS_Subset, FS_CardinalityType
    <3>. QED
      BY <3>1, <3>3 DEF Free, Less
  <2>. QED
    BY <2>3, <2>4, <2>5 DEF Due
<1>2. r \in Requests /\ w \in Requests
  BY DEF TypeOK, Known
<1>3. counters[ClientOf[r]] \in Nat /\ counters[ClientOf[w]] \in Nat
  BY <1>2, RequestsAssumption DEF TypeOK
<1>4. ClassRank(w) = 0 /\ ClassRank(r) \in Nat
  BY DEF ClassRank
<1>. QED
  BY <1>1, <1>3, <1>4 DEF Before

\* Newcomers are lifted no higher than any active caller.
LEMMA FloorLeast ==
  ASSUME TypeOK, NEW x \in Active(fair, running)
  PROVE  Floor <= counters[x]
<1>. DEFINE A == Active(fair, running)
            N == {counters[c] : c \in A}
<1>1. A \subseteq Clients
  <2>1. Range(fair) \subseteq Requests /\ running \subseteq Requests
    BY DEF TypeOK, Waiters, Known
  <2>. QED
    BY <2>1, RequestsAssumption DEF Active
<1>2. N \in SUBSET Nat /\ N # {}
  BY <1>1 DEF TypeOK
<1>3. \E n \in N : \A k \in N : n <= k
  <2>. HIDE DEF N
  <2>. QED
    BY <1>2, LeastNat
<1>4. \E n \in N : \A c \in A : n <= counters[c]
  BY <1>3
<1>5. \A c \in A : ActiveMin(A, counters) <= counters[c]
  BY <1>4 DEF ActiveMin
<1>. QED
  BY <1>5 DEF Floor

\* A waiter's caller is active.
LEMMA WaiterActive ==
  ASSUME NEW w \in Waiters
  PROVE  ClientOf[w] \in Active(fair, running)
BY DEF Active, Waiters

\* A request starts only while fewer run than there are slots.
LEMMA RunningGrows ==
  ASSUME TypeOK, [Next]_vars
  PROVE  \/ running' \subseteq running
         \/ \E r \in Requests : running' = running \cup {r} /\ Cardinality(running) < slots
<1>1. ASSUME NEW r \in Requests, NEW n, Admit(r, n)
      PROVE  running' = running \cup {r} /\ Cardinality(running) < slots
  <2>1. Rank(r) < Free
    BY <1>1 DEF Admit, DecideWaiter, Due
  <2>2. r \in Waiters
    BY <1>1 DEF Admit
  <2>3. Rank(r) \in Nat
    BY <2>2, AheadFinite DEF Rank, Ahead
  <2>4. slots \in Nat /\ Cardinality(running) \in Nat
    <3>1. slots \in Nat
      BY SlotsAssumption DEF TypeOK
    <3>2. running \subseteq Requests
      BY DEF TypeOK
    <3>. QED
      BY <3>1, <3>2, FiniteAssumption, FS_Subset, FS_CardinalityType
  <2>5. Cardinality(running) < slots
    BY <2>1, <2>3, <2>4 DEF Free, Less
  <2>. QED
    BY <1>1, <2>5 DEF Admit, StartFor
<1>2. ASSUME NEW r \in Requests, Start(r)
      PROVE  running' = running \cup {r} /\ Cardinality(running) < slots
  <2>1. "admit" \in Decide
    BY <1>2 DEF Start
  <2>2. Cardinality(running) < slots
    BY <2>1 DEF Decide
  <2>. QED
    BY <1>2, <2>2 DEF Start
<1>3. ASSUME NEW r \in Requests, Join(r) \/ Enqueue(r) \/ Abort(r) PROVE running' \subseteq running
  BY <1>3 DEF Join, Enqueue, Abort, Settle
<1>4. ASSUME NEW r \in Requests, NEW why, Leave(r, why) \/ TurnAway(r, why) PROVE running' \subseteq running
  BY <1>4 DEF Leave, TurnAway
<1>5. ASSUME NEW r \in Requests, NEW n, Finish(r, n) PROVE running' \subseteq running
  BY <1>5 DEF Finish, Settle
<1>6. ASSUME NEW n, SetSlots(n) PROVE running' \subseteq running
  BY <1>6 DEF SetSlots
<1>7. CASE UNCHANGED vars
  BY <1>7 DEF vars
<1>. QED
  BY <1>1, <1>2, <1>3, <1>4, <1>5, <1>6, <1>7 DEF Next

LEMMA StepFewRun ==
  ASSUME TypeOK, [Next]_vars, FewRun
  PROVE  FewRun'
<1>1. IsFiniteSet(running) /\ Cardinality(running) \in Nat
  <2>1. running \subseteq Requests
    BY DEF TypeOK
  <2>. QED
    BY <2>1, FiniteAssumption, FS_Subset, FS_CardinalityType
<1>2. slots \in Nat /\ slots <= MaxSlots /\ MaxSlots \in Nat
  BY MostSlots, SlotsAssumption DEF TypeOK
<1>3. CASE running' \subseteq running
  BY <1>1, <1>2, <1>3, FS_Subset, FS_CardinalityType DEF FewRun
<1>4. ASSUME NEW r \in Requests, running' = running \cup {r}, Cardinality(running) < slots
      PROVE  FewRun'
  <2>1. Cardinality(running') \in Nat /\ Cardinality(running') <= Cardinality(running) + 1
    <3>1. /\ IsFiniteSet(running \cup {r})
          /\ Cardinality(running \cup {r}) = IF r \in running THEN Cardinality(running)
                                            ELSE Cardinality(running) + 1
      BY <1>1, FS_AddElement
    <3>2. Cardinality(running \cup {r}) <= Cardinality(running) + 1
      BY <1>1, <3>1
    <3>3. Cardinality(running \cup {r}) \in Nat
      BY <3>1, FS_CardinalityType
    <3>. QED
      BY <1>4, <3>2, <3>3
  <2>. QED
    BY <1>1, <1>2, <1>4, <2>1 DEF FewRun
<1>. QED
  BY <1>3, <1>4, RunningGrows

LEMMA StepWithinBudget ==
  ASSUME TypeOK, [Next]_vars, WithinBudget
  PROVE  WithinBudget'
<1>1. CASE Same
  BY <1>1 DEF Same, WithinBudget
<1>2. ASSUME NEW r \in Known, Alone(r), Moves(r) PROVE WithinBudget'
  <2>1. phase'[r] = "running" => charged'[r] <= Budget[r]
    <3>1. ASSUME NEW n \in ExpectedOutputs(r), Admits(r, n) PROVE charged'[r] <= Budget[r]
      <4>1. Budget[r] \in Nat /\ MinOutput \in Nat
        BY RequestsAssumption, CostAssumption DEF Known
      <4>. QED
        BY <3>1, <4>1 DEF Admits, ExpectedOutputs, Smaller
    <3>. QED
      BY <1>2, <3>1 DEF Moves, Joins, Leaves, Aborts, Finishes
  <2>. QED
    BY <1>2, <2>1 DEF Alone, WithinBudget
<1>. QED
  BY <1>1, <1>2, KnownSteps

\* Who does not wait has been passed by nobody.
Unpassed == \A w \in Requests : w \notin Waiters => passed[w] = {}

LEMMA StepUnpassed ==
  ASSUME TypeOK, TypeOK', [Next]_vars, Unpassed
  PROVE  Unpassed'
<1>1. Waiters = {x \in Known : phase[x] = "waiting"} /\ Waiters' = {x \in Known : phase'[x] = "waiting"}
  BY DEF TypeOK
<1>2. CASE Same
  <2>1. Waiters' = Waiters /\ passed' = passed
    BY <1>1, <1>2 DEF Same
  <2>. QED
    BY <2>1 DEF Unpassed
<1>3. ASSUME NEW r \in Known, Alone(r), Moves(r) PROVE Unpassed'
  <2>1. passed \in [Requests -> SUBSET Clients] /\ r \in Requests
    BY DEF TypeOK, Known
  <2>2. \A x \in Known : x # r => (x \in Waiters' <=> x \in Waiters)
    BY <1>1, <1>3 DEF Alone
  <2>3. \A x \in Requests : x # r => (x \in Waiters' <=> x \in Waiters)
    BY <1>1, <2>2
  <2>4. CASE Joins(r) \/ Aborts(r) \/ \E g \in 0 .. Budget[r] : Finishes(r, g)
    <3>1. passed' = passed /\ r \notin Waiters
      BY <1>1, <2>4 DEF Joins, Aborts, Finishes
    <3>. QED
      BY <2>3, <3>1 DEF Unpassed
  <2>5. CASE Leaves(r)
    <3>1. passed' = [passed EXCEPT ![r] = {}]
      BY <2>5 DEF Leaves
    <3>. QED
      BY <2>1, <2>3, <3>1 DEF Unpassed
  <2>6. CASE \E n \in ExpectedOutputs(r) : Admits(r, n)
    <3>1. passed' = Passing(r) /\ r \notin Waiters'
      BY <1>1, <2>6 DEF Admits
    <3>. QED
      BY <2>3, <3>1 DEF Unpassed, Passing
  <2>. QED
    BY <1>3, <2>4, <2>5, <2>6 DEF Moves
<1>. QED
  BY <1>2, <1>3, KnownSteps

-----------------------------------------------------------------------------
(* No caller runs away. *)

NotFar ==
  \A w \in Waiters : ClassOf[w] = "interactive" =>
    \A c \in passed[w] \ {ClientOf[w]} : Near(c, ClientOf[w])

\* A caller that the waiter's caller is level with has only the full charges of
\* the running requests between them.
LEMMA NearFromLevelNext ==
  ASSUME TypeOK', WithinBudget', FewRun', NEW x \in Known, NEW c \in Clients, NEW u \in Clients,
         counters'[c] <= counters'[u]
  PROVE  Near(c, u)'
<1>1. PICK f \in [Known -> Nat] :
        f = Stake(c, u)' /\ \A r \in Known : f[r] <= FullCharge /\ (phase'[r] # "running" => f[r] = 0)
  BY StakeTypedNext
<1>2. running' \subseteq Requests /\ \A r \in Known : r \notin running' => f[r] = 0
  <2>1. running' = {r \in Requests : phase'[r] = "running"}
    BY DEF TypeOK
  <2>. QED
    BY <1>1, <2>1 DEF Known
<1>3. PICK m : m = MaxSlots * FullCharge
  OBVIOUS
<1>4. SumOf(f) \in Nat /\ m \in Nat /\ SumOf(f) <= m
  <2>1. PICK S : S = running' /\ Cardinality(S) <= MaxSlots
    BY DEF FewRun
  <2>. QED
    BY <1>1, <1>2, <1>3, <2>1, StakeBounded
<1>5. counters'[c] \in Nat /\ counters'[u] \in Nat
  BY DEF TypeOK
<1>6. counters'[c] + SumOf(f) <= counters'[u] + m
  BY <1>4, <1>5
<1>. QED
  BY <1>1, <1>3, <1>6 DEF Near

\* The newcomer that is lifted to the floor comes level with active callers.
LEMMA NearJoin ==
  ASSUME TypeOK, TypeOK', WithinBudget, WithinBudget', FewRun', NEW r \in Known, Alone(r), Joins(r),
         NEW w \in Waiters, NEW c \in Clients, c # ClientOf[w], Near(c, ClientOf[w])
  PROVE  Near(c, ClientOf[w])'
<1>. DEFINE u == ClientOf[w]
<1>1. u \in Clients /\ w \in Known /\ counters'[u] = counters[u]
  <2>1. w \in Known /\ u \in Clients
    BY RequestsAssumption DEF TypeOK, Known
  <2>2. u \in Active(fair, running)
    BY WaiterActive
  <2>. QED
    BY <2>1, <2>2 DEF Alone, Joins, Count, ActiveNow
<1>2. Stake(c, u)[r] = 0 /\ Stake(c, u)[r]' = 0
  BY DEF Stake, Joins
<1>. HIDE DEF u
<1>3. counters[c] \in Nat /\ counters'[c] \in Nat /\ counters[u] \in Nat
  BY <1>1 DEF TypeOK
<1>4. CASE counters'[c] = counters[c]
  <2>1. counters'[c] + Stake(c, u)[r]' + counters[u] <= counters'[u] + counters[c] + Stake(c, u)[r]
    BY <1>1, <1>2, <1>3, <1>4
  <2>2. Near(c, u)
    BY DEF u
  <2>3. Near(c, u)'
    BY <1>1, <2>1, <2>2, NearMoves
  <2>. QED
    BY <2>3 DEF u
<1>5. CASE counters'[c] # counters[c]
  <2>1. c = ClientOf[r] /\ counters'[c] = Larger(counters[c], Floor)
    BY <1>5 DEF Alone, Joins, Count
  <2>2. Floor <= counters[u]
    BY WaiterActive, FloorLeast DEF u
  <2>3. Floor \in Nat
    BY FloorNat
  <2>4. counters'[c] <= counters'[u]
    BY <1>1, <1>3, <1>5, <2>1, <2>2, <2>3 DEF Larger
  <2>5. Near(c, u)'
    BY <1>1, <2>4, NearFromLevelNext
  <2>. QED
    BY <2>5 DEF u
<1>. QED
  BY <1>4, <1>5

\* The caller that is served ahead of a waiter it was level with.
LEMMA NearAdmitted ==
  ASSUME TypeOK, TypeOK', WithinBudget', FewRun', NEW r \in Known, Alone(r),
         NEW n \in ExpectedOutputs(r), Admits(r, n), NEW u \in Clients, u # ClientOf[r],
         Count(r) <= counters[u]
  PROVE  Near(ClientOf[r], u)'
<1>1. PICK c \in Clients : c = ClientOf[r]
  BY RequestsAssumption DEF Known
<1>2. PICK g \in [Known -> Nat] :
        g = Stake(c, u)' /\ \A x \in Known : g[x] <= FullCharge /\ (phase'[x] # "running" => g[x] = 0)
  BY StakeTypedNext
<1>3. PICK S : S = running' /\ Cardinality(S) <= MaxSlots
  BY DEF FewRun
<1>4. S = {x \in Requests : phase'[x] = "running"} /\ r \in S
  BY <1>3 DEF TypeOK, Admits, Known
<1>5. n \in Nat /\ n <= Budget[r]
  <2>1. Budget[r] \in Nat /\ MinOutput \in Nat
    BY RequestsAssumption, CostAssumption DEF Known
  <2>. QED
    BY <2>1 DEF ExpectedOutputs, Smaller
<1>6. PICK a \in Nat, e \in Nat, b \in Nat :
        a = InputCharge(r) /\ e = OutputCharge(r, n) /\ b = OutputCharge(r, Budget[r])
  BY <1>5, ChargeWithin
<1>7. b - e \in Nat /\ a + b <= FullCharge
  BY <1>5, <1>6, ChargeWithin
<1>8. g[r] = b - e
  BY <1>1, <1>2, <1>6 DEF Stake, Rest, Admits
<1>9. PICK h \in [Known -> Nat] : h = [g EXCEPT ![r] = a + b]
  <2>1. a + b \in Nat
    OBVIOUS
  <2>2. [g EXCEPT ![r] = a + b] \in [Known -> Nat]
    BY <2>1
  <2>. QED
    BY <2>2
<1>10. /\ h[r] = a + b /\ \A x \in Known : x # r => g[x] = h[x]
       /\ \A x \in Known : h[x] <= FullCharge /\ (x \notin S => h[x] = 0)
  <2>1. h[r] = a + b /\ \A x \in Known : x # r => g[x] = h[x]
    BY <1>9
  <2>2. ASSUME NEW x \in Known PROVE h[x] <= FullCharge /\ (x \notin S => h[x] = 0)
    <3>1. CASE x = r
      BY <1>4, <1>7, <2>1, <3>1
    <3>2. CASE x # r
      BY <1>2, <1>4, <2>1, <3>2 DEF Known
    <3>. QED
      BY <3>1, <3>2
  <2>. QED
    BY <2>1, <2>2
<1>11. SumOf(g) + h[r] = SumOf(h) + g[r] /\ SumOf(g) \in Nat
  BY <1>10, KnownFinite, SumReplaced, SumNat
<1>12. PICK m : m = MaxSlots * FullCharge
  OBVIOUS
<1>13. SumOf(h) \in Nat /\ m \in Nat /\ SumOf(h) <= m
  BY <1>3, <1>4, <1>10, <1>12, StakeBounded
<1>14. /\ counters[c] \in Nat /\ counters[u] \in Nat /\ counters[c] <= counters[u]
       /\ counters'[c] = counters[c] + a + e /\ counters'[u] = counters[u]
  BY <1>1, <1>6 DEF TypeOK, Alone, Admits, Count
<1>15. counters'[c] + SumOf(g) <= counters'[u] + m
  BY <1>7, <1>8, <1>10, <1>11, <1>13, <1>14
<1>. QED
  BY <1>1, <1>2, <1>12, <1>15 DEF Near

\* Any other margin is kept by an admission: the waiter's caller may have to
\* give back no more than it is charged.
LEMMA NearAdmits ==
  ASSUME TypeOK, TypeOK', WithinBudget, WithinBudget', NEW r \in Known, Alone(r),
         NEW n \in ExpectedOutputs(r), Admits(r, n), NEW c \in Clients, NEW u \in Clients, c # u,
         c # ClientOf[r], Near(c, u)
  PROVE  Near(c, u)'
<1>1. n \in Nat /\ r \in Requests
  BY ExpectedNat DEF Known
<1>2. PICK a \in Nat, e \in Nat : a = InputCharge(r) /\ e = OutputCharge(r, n)
  BY <1>1, ChargeNat
<1>3. counters[c] \in Nat /\ counters[u] \in Nat /\ counters'[c] = counters[c] /\ counters'[u] \in Nat
  BY DEF TypeOK, Alone
<1>4. Stake(c, u)[r] = 0
  BY DEF Stake, Admits
<1>5. CASE ClientOf[r] = u
  <2>1. counters'[u] = counters[u] + a + e
    BY <1>2, <1>5 DEF Admits, Count
  <2>2. Stake(c, u)[r]' = a + e
    BY <1>2, <1>5 DEF Stake, Admits
  <2>3. counters'[c] + Stake(c, u)[r]' + counters[u] <= counters'[u] + counters[c] + Stake(c, u)[r]
    BY <1>3, <1>4, <2>1, <2>2
  <2>. QED
    BY <2>3, NearMoves
<1>6. CASE ClientOf[r] # u
  <2>1. counters'[u] = counters[u]
    BY <1>6 DEF Alone
  <2>2. Stake(c, u)[r]' = 0
    BY <1>6 DEF Stake
  <2>3. counters'[c] + Stake(c, u)[r]' + counters[u] <= counters'[u] + counters[c] + Stake(c, u)[r]
    BY <1>3, <1>4, <2>1, <2>2
  <2>. QED
    BY <2>3, NearMoves
<1>. QED
  BY <1>5, <1>6

\* Every margin is kept by a departure: the leaving request's caller gains at
\* most the rest of its budget, and loses at most what was charged.
LEMMA NearEnds ==
  ASSUME TypeOK, TypeOK', WithinBudget, WithinBudget', NEW r \in Known, Alone(r),
         Aborts(r) \/ \E g \in 0 .. Budget[r] : Finishes(r, g),
         NEW c \in Clients, NEW u \in Clients, c # u, Near(c, u)
  PROVE  Near(c, u)'
<1>1. /\ phase[r] = "running" /\ r \in Requests /\ Budget[r] \in Nat
      /\ charged[r] \in Nat /\ charged[r] <= Budget[r]
  BY RequestsAssumption DEF Known, TypeOK, Aborts, Finishes, WithinBudget
<1>2. PICK a \in Nat, d \in Nat, b \in Nat :
        a = InputCharge(r) /\ d = OutputCharge(r, charged[r]) /\ b = OutputCharge(r, Budget[r])
  BY <1>1, ChargeNat
<1>3. d <= b
  <2>1. PICK x \in Nat : x = OutputCharge(r, Budget[r] - charged[r]) /\ d + x <= b
    BY <1>1, <1>2, OutputMono
  <2>. QED
    BY <2>1
<1>4. /\ counters[c] \in Nat /\ counters[u] \in Nat /\ counters'[c] \in Nat /\ counters'[u] \in Nat
      /\ Count(r) \in Nat
  BY <1>1, RequestsAssumption DEF TypeOK, Count
<1>5. Stake(c, u)[r]' = 0
  BY DEF Stake, Aborts, Finishes
<1>6. Count(r)' <= Count(r) + (b - d) /\ Count(r)' + a + d >= Count(r)
  <2>1. CASE Aborts(r)
    <3>1. Count(r)' = Less(Count(r), a + d)
      BY <1>2, <2>1 DEF Aborts
    <3>. QED
      BY <1>2, <1>3, <1>4, <3>1 DEF Less
  <2>2. ASSUME NEW g \in 0 .. Budget[r], Finishes(r, g)
        PROVE  Count(r)' <= Count(r) + (b - d) /\ Count(r)' + a + d >= Count(r)
    <3>0. g \in Nat /\ g <= Budget[r]
      BY <1>1
    <3>1. CASE g = 0
      <4>1. Count(r)' = Count(r)
        BY <2>2, <3>1 DEF Finishes
      <4>. QED
        BY <1>3, <1>4, <4>1
    <3>2. CASE g # 0 /\ g >= charged[r]
      <4>1. PICK x \in Nat, y \in Nat : x = OutputCharge(r, g) /\ y = OutputCharge(r, g - charged[r])
        <5>1. g - charged[r] \in Nat
          BY <1>1, <3>0, <3>2
        <5>. QED
          BY <1>1, <3>0, <5>1, ChargeNat
      <4>2. d + y <= x
        BY <1>1, <1>2, <3>0, <3>2, <4>1, OutputMono
      <4>3. x <= b
        BY <1>1, <1>2, <3>0, <4>1, OutputMono
      <4>4. Count(r)' = Count(r) + y
        BY <2>2, <3>2, <4>1 DEF Finishes
      <4>. QED
        BY <1>4, <4>2, <4>3, <4>4
    <3>3. CASE g # 0 /\ ~(g >= charged[r])
      <4>0. g <= charged[r] /\ charged[r] - g \in Nat
        BY <1>1, <3>0, <3>3
      <4>1. PICK x \in Nat, y \in Nat : x = OutputCharge(r, g) /\ y = OutputCharge(r, charged[r] - g)
        BY <1>1, <3>0, <4>0, ChargeNat
      <4>2. x + y <= d
        BY <1>1, <1>2, <3>0, <4>0, <4>1, OutputMono
      <4>3. Count(r)' = Less(Count(r), y)
        BY <2>2, <3>3, <4>1 DEF Finishes
      <4>. QED
        BY <1>3, <1>4, <4>2, <4>3 DEF Less
    <3>. QED
      BY <3>1, <3>2, <3>3
  <2>. QED
    BY <2>1, <2>2
<1>7. counters'[c] + Stake(c, u)[r]' + counters[u] <= counters'[u] + counters[c] + Stake(c, u)[r]
  <2>1. CASE ClientOf[r] = c
    <3>1. counters[c] = Count(r) /\ counters'[c] = Count(r)' /\ counters'[u] = counters[u]
      BY <2>1 DEF Count, Alone
    <3>2. Stake(c, u)[r] = b - d
      BY <1>1, <1>2, <2>1 DEF Stake, Rest
    <3>. QED
      BY <1>3, <1>4, <1>5, <1>6, <3>1, <3>2
  <2>2. CASE ClientOf[r] = u
    <3>1. counters[u] = Count(r) /\ counters'[u] = Count(r)' /\ counters'[c] = counters[c]
      BY <2>2 DEF Count, Alone
    <3>2. Stake(c, u)[r] = a + d
      BY <1>1, <1>2, <2>2 DEF Stake, Rest
    <3>. QED
      BY <1>3, <1>4, <1>5, <1>6, <3>1, <3>2
  <2>3. CASE ClientOf[r] # c /\ ClientOf[r] # u
    <3>1. counters'[u] = counters[u] /\ counters'[c] = counters[c]
      BY <2>3 DEF Alone
    <3>2. Stake(c, u)[r] = 0
      BY <1>1, <2>3 DEF Stake
    <3>. QED
      BY <1>4, <1>5, <3>1, <3>2
  <2>. QED
    BY <2>1, <2>2, <2>3
<1>. QED
  BY <1>7, NearMoves

RInv == Unpassed /\ WithinBudget /\ FewRun /\ NotFar

LEMMA StepNotFar ==
  ASSUME TypeOK, TypeOK', Distinct, [Next]_vars, RInv, WithinBudget', FewRun'
  PROVE  NotFar'
<1>0. /\ Unpassed /\ WithinBudget /\ NotFar
      /\ Waiters = {x \in Known : phase[x] = "waiting"} /\ Waiters' = {x \in Known : phase'[x] = "waiting"}
      /\ passed \in [Requests -> SUBSET Clients] /\ \A x \in Known : x \in Requests /\ ClientOf[x] \in Clients
  BY RequestsAssumption DEF TypeOK, RInv, Known
<1>1. CASE Same
  <2>1. Waiters' = Waiters /\ passed' = passed
    BY <1>0, <1>1 DEF Same
  <2>2. ASSUME NEW c, NEW u, Near(c, u) PROVE Near(c, u)'
    <3>1. Stake(c, u)' = Stake(c, u) /\ counters' = counters
      BY <1>1 DEF Same, Stake, Rest
    <3>. QED
      BY <2>2, <3>1 DEF Near
  <2>. QED
    BY <1>0, <2>1, <2>2 DEF NotFar
<1>2. ASSUME NEW r \in Known, Alone(r), Moves(r) PROVE NotFar'
  <2>. SUFFICES ASSUME NEW w \in Waiters', ClassOf[w] = "interactive",
                       NEW c \in passed'[w] \ {ClientOf[w]}
                PROVE  Near(c, ClientOf[w])'
    BY DEF NotFar
  <2>1. w \in Known /\ w \in Requests /\ ClientOf[w] \in Clients /\ c # ClientOf[w]
    BY <1>0
  <2>2. w # r => w \in Waiters
    BY <1>0, <1>2, <2>1 DEF Alone
  <2>3. w \in Waiters /\ c \in passed[w] => c \in Clients /\ Near(c, ClientOf[w])
    BY <1>0, <2>1 DEF NotFar
  <2>4. CASE Joins(r)
    <3>1. passed' = passed /\ r \notin Waiters
      BY <1>0, <2>4 DEF Joins
    <3>2. w # r
      BY <1>0, <2>1, <3>1 DEF Unpassed
    <3>3. w \in Waiters /\ c \in Clients /\ Near(c, ClientOf[w])
      BY <2>2, <2>3, <3>1, <3>2
    <3>. QED
      BY <1>0, <1>2, <2>1, <2>4, <3>3, NearJoin
  <2>5. CASE Leaves(r)
    <3>1. passed'[w] = passed[w] /\ w # r
      BY <1>0, <2>1, <2>5 DEF Leaves
    <3>2. c \in Clients /\ Near(c, ClientOf[w])
      BY <2>2, <2>3, <3>1
    <3>3. PICK u \in Clients : u = ClientOf[w]
      BY <2>1
    <3>4. Stake(c, u)[r] = 0 /\ Stake(c, u)[r]' = 0
      BY <2>5 DEF Stake, Leaves
    <3>5. /\ counters[c] \in Nat /\ counters[u] \in Nat
          /\ counters'[c] = counters[c] /\ counters'[u] = counters[u]
      BY <1>2, <2>5, <3>2 DEF TypeOK, Alone, Leaves, Count
    <3>6. counters'[c] + Stake(c, u)[r]' + counters[u] <= counters'[u] + counters[c] + Stake(c, u)[r]
      BY <3>4, <3>5
    <3>. QED
      BY <1>0, <1>2, <3>2, <3>3, <3>6, NearMoves
  <2>6. ASSUME NEW n \in ExpectedOutputs(r), Admits(r, n) PROVE Near(c, ClientOf[w])'
    <3>1. r \in Waiters /\ w # r /\ Due(r) /\ w \in Waiters
      BY <1>0, <2>1, <2>2, <2>6 DEF Admits
    <3>2. passed'[w] = IF Due(w) THEN passed[w] \ {ClientOf[r]} ELSE passed[w] \cup {ClientOf[r]}
      BY <2>1, <2>6, <3>1 DEF Admits, Passing
    <3>3. CASE c = ClientOf[r]
      <4>1. ~Due(w)
        BY <3>2, <3>3
      <4>2. Count(r) <= counters[ClientOf[w]]
        BY <3>1, <4>1, DueBefore DEF Count
      <4>. QED
        BY <1>2, <2>1, <2>6, <3>3, <4>2, NearAdmitted
    <3>4. CASE c # ClientOf[r]
      <4>1. c \in Clients /\ Near(c, ClientOf[w])
        BY <2>3, <3>1, <3>2, <3>4
      <4>. QED
        BY <1>0, <1>2, <2>1, <2>6, <3>4, <4>1, NearAdmits
    <3>. QED
      BY <3>3, <3>4
  <2>7. CASE Aborts(r) \/ \E g \in 0 .. Budget[r] : Finishes(r, g)
    <3>1. passed' = passed /\ w # r
      BY <1>0, <2>7 DEF Aborts, Finishes
    <3>2. c \in Clients /\ Near(c, ClientOf[w])
      BY <2>2, <2>3, <3>1
    <3>. QED
      BY <1>0, <1>2, <2>1, <2>7, <3>2, NearEnds
  <2>. QED
    BY <1>2, <2>4, <2>5, <2>6, <2>7 DEF Moves
<1>. QED
  BY <1>1, <1>2, KnownSteps

LEMMA InitRInv == Init => RInv
<1>. SUFFICES ASSUME Init PROVE RInv
  OBVIOUS
<1>1. Waiters = {} /\ \A w \in Requests : passed[w] = {}
  BY DEF Init, Waiters, Range
<1>2. \A r \in Known : phase[r] # "running"
  BY DEF Init, Known
<1>3. Cardinality(running) <= MaxSlots
  BY MostSlots, FS_EmptySet DEF Init
<1>. QED
  BY <1>1, <1>2, <1>3 DEF RInv, Unpassed, WithinBudget, FewRun, NotFar

\* An interactive request that waits without a slot due to it is passed only by
\* callers that end at most one slot set of full requests ahead of its own.
THEOREM NobodyRunsAway == Spec => []NoRunaway
<1>1. IInv /\ IInv' /\ RInv /\ [Next]_vars => RInv'
  <2>. SUFFICES ASSUME IInv, IInv', RInv, [Next]_vars PROVE RInv'
    OBVIOUS
  <2>1. TypeOK /\ TypeOK' /\ Distinct
    BY DEF IInv
  <2>2. WithinBudget' /\ FewRun' /\ Unpassed'
    BY <2>1, StepWithinBudget, StepFewRun, StepUnpassed DEF RInv
  <2>3. NotFar'
    BY <2>1, <2>2, StepNotFar
  <2>. QED
    BY <2>2, <2>3 DEF RInv
<1>2. IInv /\ RInv => NoRunaway
  <2>. SUFFICES ASSUME IInv, RInv, NEW w \in Waiters, ClassOf[w] = "interactive",
                       NEW c \in passed[w] \ {ClientOf[w]}
                PROVE  counters[c] <= counters[ClientOf[w]] + MaxSlots * FullCharge
    BY DEF NoRunaway
  <2>1. w \in Known /\ w \in Requests /\ passed[w] \in SUBSET Clients
    BY DEF IInv, TypeOK, Known
  <2>2. PICK u \in Clients : u = ClientOf[w]
    BY <2>1, RequestsAssumption
  <2>3. c \in Clients /\ Near(c, u)
    BY <2>1, <2>2 DEF RInv, NotFar
  <2>4. PICK s \in Nat : s = SumOf(Stake(c, u))
    BY <2>3, StakeTyped, KnownFinite, SumNat DEF IInv, RInv
  <2>5. PICK m : m = MaxSlots * FullCharge
    OBVIOUS
  <2>6. m \in Nat
    <3>1. PICK k \in Nat : k = FullCharge
      BY <2>1, GreatestCharge
    <3>2. PICK x \in Nat : x = MaxSlots
      BY MostSlots
    <3>. QED
      BY <2>5, <3>1, <3>2
  <2>7. counters[c] \in Nat /\ counters[u] \in Nat
    BY <2>3 DEF IInv, TypeOK
  <2>8. counters[c] + s <= counters[u] + m
    BY <2>3, <2>4, <2>5 DEF Near
  <2>. QED
    BY <2>2, <2>4, <2>5, <2>6, <2>7, <2>8
<1>. QED
  BY InitIInv, StepIInv, InitRInv, <1>1, <1>2, PTL DEF Spec

-----------------------------------------------------------------------------
(* The floor newcomers are lifted to. *)

LEMMA LeastActive ==
  ASSUME NEW A, A \subseteq Clients, A # {}, NEW counts \in [Clients -> Nat]
  PROVE  /\ \E x \in A : ActiveMin(A, counts) = counts[x]
         /\ \A x \in A : ActiveMin(A, counts) <= counts[x]
<1>. DEFINE N == {counts[c] : c \in A}
<1>1. N \in SUBSET Nat /\ N # {}
  OBVIOUS
<1>2. \E n \in N : \A k \in N : n <= k
  <2>. HIDE DEF N
  <2>. QED
    BY <1>1, LeastNat
<1>3. \E n \in N : \A c \in A : n <= counts[c]
  BY <1>2
<1>4. ActiveMin(A, counts) \in N /\ \A c \in A : ActiveMin(A, counts) <= counts[c]
  BY <1>3 DEF ActiveMin
<1>. QED
  BY <1>4

LEMMA FloorNow ==
  ASSUME TypeOK
  PROVE  /\ ActiveNow \subseteq Clients /\ Floor \in Nat
         /\ ActiveNow = {} => Floor = last_departed
         /\ ActiveNow # {} => \E x \in ActiveNow : Floor = counters[x]
         /\ \A x \in ActiveNow : Floor <= counters[x]
<1>1. ActiveNow \subseteq Clients
  <2>1. Range(fair) \subseteq Requests /\ running \subseteq Requests
    BY DEF TypeOK, Waiters, Known
  <2>. QED
    BY <2>1, RequestsAssumption DEF Active, ActiveNow
<1>2. counters \in [Clients -> Nat]
  BY DEF TypeOK
<1>3. CASE ActiveNow = {}
  BY <1>1, <1>3, FloorNat DEF Floor, ActiveNow
<1>4. CASE ActiveNow # {}
  <2>1. Floor = ActiveMin(ActiveNow, counters)
    BY <1>4 DEF Floor, ActiveNow
  <2>. QED
    BY <1>1, <1>2, <1>4, <2>1, LeastActive, FloorNat
<1>. QED
  BY <1>3, <1>4

LEMMA FloorNext ==
  ASSUME TypeOK'
  PROVE  /\ ActiveNow' \subseteq Clients
         /\ ActiveNow' = {} => Floor' = last_departed'
         /\ ActiveNow' # {} => \E x \in ActiveNow' : Floor' = counters'[x]
         /\ \A x \in ActiveNow' : Floor' <= counters'[x]
<1>1. ActiveNow' \subseteq Clients
  <2>1. Range(fair') \subseteq Requests /\ running' \subseteq Requests
    BY DEF TypeOK, Waiters, Known
  <2>. QED
    BY <2>1, RequestsAssumption DEF Active, ActiveNow
<1>2. PICK A : A = ActiveNow'
  OBVIOUS
<1>3. PICK k \in [Clients -> Nat] : k = counters'
  BY DEF TypeOK
<1>4. CASE A = {}
  BY <1>1, <1>2, <1>4 DEF Floor, ActiveNow
<1>5. CASE A # {}
  <2>1. Floor' = ActiveMin(A, k)
    BY <1>2, <1>3, <1>5 DEF Floor, ActiveNow
  <2>. QED
    BY <1>1, <1>2, <1>3, <1>5, <2>1, LeastActive
<1>. QED
  BY <1>4, <1>5

\* Who is active, by the phases.
LEMMA ActivePhases ==
  ASSUME TypeOK
  PROVE  ActiveNow = {ClientOf[r] : r \in {x \in Known : phase[x] \in {"waiting", "running"}}}
<1>1. Range(fair) = {x \in Known : phase[x] = "waiting"} /\ running \ Anonymous = {x \in Known : phase[x] = "running"}
  BY DEF TypeOK, Waiters, Known
<1>2. Range(fair) \cup (running \ Anonymous) = {x \in Known : phase[x] \in {"waiting", "running"}}
  BY <1>1
<1>. QED
  BY <1>2 DEF ActiveNow, Active

LEMMA ActivePhasesNext ==
  ASSUME TypeOK'
  PROVE  ActiveNow' = {ClientOf[r] : r \in {x \in Known : phase'[x] \in {"waiting", "running"}}}
<1>1. Range(fair') = {x \in Known : phase'[x] = "waiting"} /\ running' \ Anonymous = {x \in Known : phase'[x] = "running"}
  BY DEF TypeOK, Waiters, Known
<1>2. Range(fair') \cup (running' \ Anonymous) = {x \in Known : phase'[x] \in {"waiting", "running"}}
  BY <1>1
<1>. QED
  BY <1>2 DEF ActiveNow, Active

\* A step that keeps everybody's counter where it was or further on, and makes
\* nobody active below the floor, keeps the floor.
LEMMA FloorKept ==
  ASSUME TypeOK, TypeOK', last_departed' = last_departed, ActiveNow # {} => ActiveNow' # {},
         \A x \in ActiveNow' : Floor <= counters'[x]
  PROVE  Floor' >= Floor
<1>1. CASE ActiveNow' = {}
  BY <1>1, FloorNow, FloorNext
<1>2. CASE ActiveNow' # {}
  BY <1>2, FloorNow, FloorNext
<1>. QED
  BY <1>1, <1>2

FloorMoves ==
  \/ Floor' >= Floor
  \/ \E c \in Clients : Refund(c) > 0 /\ Floor' + Refund(c) >= Floor
  \/ Waiters' # Waiters /\ ActiveNow' = {}

LEMMA StepFloor ==
  ASSUME TypeOK, TypeOK', [Next]_vars
  PROVE  FloorMoves
<1>1. CASE Same
  <2>1. ActiveNow' = ActiveNow
    BY <1>1, ActivePhases, ActivePhasesNext DEF Same
  <2>2. Floor' >= Floor
    <3>1. last_departed' = last_departed /\ counters' = counters
      BY <1>1 DEF Same
    <3>2. \A x \in ActiveNow' : Floor <= counters'[x]
      BY <2>1, <3>1, FloorNow
    <3>. QED
      BY <2>1, <3>1, <3>2, FloorKept
  <2>. QED
    BY <2>2 DEF FloorMoves
<1>2. ASSUME NEW r \in Known, Alone(r), Moves(r) PROVE FloorMoves
  <2>. DEFINE u == ClientOf[r]
  <2>1. u \in Clients /\ r \in Requests
    BY RequestsAssumption DEF Known
  <2>2. \A x \in Clients : counters[x] \in Nat /\ counters'[x] \in Nat /\ (x # u => counters'[x] = counters[x])
    BY <1>2 DEF TypeOK, Alone
  <2>3. Count(r) = counters[u] /\ Count(r)' = counters'[u]
    BY DEF Count
  <2>4. Floor \in Nat /\ ActiveNow \subseteq Clients /\ \A x \in ActiveNow : Floor <= counters[x]
    BY FloorNow
  <2>5. CASE Joins(r)
    <3>1. ActiveNow' = ActiveNow \cup {u}
      BY <1>2, <2>5, ActivePhases, ActivePhasesNext DEF Joins, Alone
    <3>2. Floor <= counters'[u]
      <4>1. CASE u \in ActiveNow
        <5>1. counters'[u] = counters[u]
          BY <2>3, <2>5, <4>1 DEF Joins
        <5>. QED
          BY <2>4, <4>1, <5>1
      <4>2. CASE u \notin ActiveNow
        <5>1. counters'[u] = Larger(counters[u], Floor)
          BY <2>3, <2>5, <4>2 DEF Joins
        <5>. QED
          BY <2>1, <2>2, <2>4, <5>1 DEF Larger
      <4>. QED
        BY <4>1, <4>2
    <3>3. \A x \in ActiveNow' : Floor <= counters'[x]
      BY <2>2, <2>4, <3>1, <3>2
    <3>4. last_departed' = last_departed
      BY <2>5 DEF Joins
    <3>5. Floor' >= Floor
      BY <3>1, <3>3, <3>4, FloorKept
    <3>. QED
      BY <3>5 DEF FloorMoves
  <2>6. CASE Leaves(r)
    <3>1. Waiters' # Waiters
      <4>1. phase[r] = "waiting" /\ phase'[r] # "waiting"
        BY <2>6 DEF Leaves
      <4>2. Waiters = {x \in Known : phase[x] = "waiting"} /\ Waiters' = {x \in Known : phase'[x] = "waiting"}
        BY DEF TypeOK
      <4>. QED
        BY <4>1, <4>2
    <3>2. ActiveNow' \subseteq ActiveNow
      BY <1>2, <2>6, ActivePhases, ActivePhasesNext DEF Leaves, Alone
    <3>3. \A x \in ActiveNow' : Floor <= counters'[x]
      BY <2>2, <2>3, <2>4, <2>6, <3>2 DEF Leaves
    <3>4. last_departed' = last_departed
      BY <2>6 DEF Leaves
    <3>5. ActiveNow' # {} => Floor' >= Floor
      BY <3>3, <3>4, FloorKept
    <3>. QED
      BY <3>1, <3>5 DEF FloorMoves
  <2>7. ASSUME NEW n \in ExpectedOutputs(r), Admits(r, n) PROVE FloorMoves
    <3>1. ActiveNow' = ActiveNow
      BY <1>2, <2>7, ActivePhases, ActivePhasesNext DEF Admits, Alone
    <3>2. PICK a \in Nat, e \in Nat : a = InputCharge(r) /\ e = OutputCharge(r, n)
      BY <2>1, ExpectedNat, ChargeNat
    <3>3. counters'[u] = counters[u] + a + e /\ last_departed' = last_departed
      BY <2>3, <2>7, <3>2 DEF Admits
    <3>4. \A x \in ActiveNow' : Floor <= counters'[x]
      BY <2>1, <2>2, <2>4, <3>1, <3>3
    <3>5. Floor' >= Floor
      BY <3>1, <3>3, <3>4, FloorKept
    <3>. QED
      BY <3>5 DEF FloorMoves
  <2>8. CASE Aborts(r) \/ \E g \in 0 .. Budget[r] : Finishes(r, g)
    <3>1. phase[r] = "running" /\ phase'[r] \in {"gone", "finished"} /\ (ActiveNow' = {} => last_departed' = counters'[u])
      BY <2>3, <2>8 DEF Aborts, Finishes
    <3>2. ActiveNow' \subseteq ActiveNow /\ u \in ActiveNow
      BY <1>2, <3>1, ActivePhases, ActivePhasesNext DEF Alone
    <3>3. PICK y \in ActiveNow' \cup {u} : Floor' = counters'[y]
      BY <3>1, FloorNext
    <3>4. y \in ActiveNow /\ y \in Clients /\ Floor <= counters[y]
      BY <2>4, <3>2
    <3>5. Refund(y) = counters[y] - counters'[y] /\ counters[y] \in Nat /\ counters'[y] \in Nat
      BY <2>2, <3>4 DEF Refund
    <3>6. CASE counters'[y] >= counters[y]
      BY <2>4, <3>3, <3>4, <3>5, <3>6 DEF FloorMoves
    <3>7. CASE ~(counters'[y] >= counters[y])
      <4>1. Refund(y) > 0 /\ Floor' + Refund(y) >= Floor
        BY <2>4, <3>3, <3>4, <3>5, <3>7
      <4>. QED
        BY <3>4, <4>1 DEF FloorMoves
    <3>. QED
      BY <3>6, <3>7
  <2>. QED
    BY <1>2, <2>5, <2>6, <2>7, <2>8 DEF Moves
<1>. QED
  BY <1>1, <1>2, KnownSteps

\* The floor goes back only by a refund, or when waiters that were never served
\* are the last to go.
THEOREM FloorOnlyForward == Spec => FloorForward
<1>1. IInv /\ IInv' /\ [Next]_vars => FloorMoves
  BY StepFloor DEF IInv
<1>2. FloorMoves =>
        \/ Floor' >= Floor
        \/ \E c \in Clients : Refund(c) > 0 /\ Floor' + Refund(c) >= Floor
        \/ Waiters' # Waiters /\ Active(fair', running') = {}
  BY DEF FloorMoves, ActiveNow
<1>. QED
  BY InitIInv, StepIInv, <1>1, <1>2, PTL DEF Spec, FloorForward
=============================================================================
