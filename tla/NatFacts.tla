------------------------------ MODULE NatFacts ------------------------------
(***************************************************************************)
(* Facts that several of the proofs need about naturals, finite sets and   *)
(* sequences: least and greatest elements, which Min and Max of            *)
(* FiniteSetsExt choose, products and quotients, sums, which FoldFunction  *)
(* makes, and when two sequences are the same.                             *)
(*                                                                         *)
(* Induction is over a set, never over an operator: a set Q of naturals    *)
(* (NatSet) or of subsets (SetsBySize) that a step does not leave.  The    *)
(* least-number principle it rests on comes from the well-foundedness of < *)
(* on the naturals.                                                        *)
(***************************************************************************)
EXTENDS Integers, Sequences, FiniteSetsExt, Functions, WellFoundedInduction, FiniteSetTheorems,
        SequenceTheorems, TLAPS

NatOrder == {ss \in Nat \X Nat : ss[1] < ss[2]}

\* A nonempty set of naturals has a least element.
LEMMA LeastNat ==
  ASSUME NEW S \in SUBSET Nat, S # {}
  PROVE  \E x \in S : \A y \in S : x <= y
<1>1. NatOrder = OpToRel(<, Nat)
  BY DEF OpToRel, NatOrder
<1>2. IsWellFoundedOn(NatOrder, Nat)
  BY <1>1, NatLessThanWellFounded
<1>3. PICK x \in S : \A y \in S : ~(<<y, x>> \in NatOrder)
  BY <1>2, WFMin
<1>4. ASSUME NEW y \in S PROVE x <= y
  <2>1. <<y, x>> \in Nat \X Nat /\ <<y, x>>[1] = y /\ <<y, x>>[2] = x
    OBVIOUS
  <2>2. ~(y < x)
    BY <1>3, <2>1 DEF NatOrder
  <2>. QED
    BY <2>2
<1>. QED
  BY <1>4

\* Min is that element.
LEMMA MinNat ==
  ASSUME NEW S \in SUBSET Nat, S # {}
  PROVE  Min(S) \in S /\ \A y \in S : Min(S) <= y
BY LeastNat DEF Min

\* Max is the greatest element of a nonempty set that has a bound: the least of
\* its bounds is in it.
LEMMA MaxNat ==
  ASSUME NEW S \in SUBSET Nat, S # {}, NEW b \in Nat, \A x \in S : x <= b
  PROVE  Max(S) \in S /\ \A y \in S : y <= Max(S)
<1>. DEFINE U == {n \in Nat : \A x \in S : x <= n}
<1>1. PICK m \in U : \A n \in U : m <= n
  <2>1. b \in U
    OBVIOUS
  <2>2. U \in SUBSET Nat
    OBVIOUS
  <2>. HIDE DEF U
  <2>. QED
    BY <2>1, <2>2, LeastNat
<1>2. m \in S
  <2>. SUFFICES ASSUME m \notin S PROVE FALSE
    OBVIOUS
  <2>1. \A x \in S : x <= m - 1
    OBVIOUS
  <2>2. m - 1 \in Nat
    <3>1. PICK x \in S : TRUE
      OBVIOUS
    <3>. QED
      BY <2>1, <3>1
  <2>3. m - 1 \in U
    BY <2>1, <2>2
  <2>. QED
    BY <2>3, <1>1
<1>3. \E x \in S : \A y \in S : x >= y
  BY <1>2
<1>. QED
  BY <1>3 DEF Max

\* Finitely many naturals have a bound: otherwise take the least n for which the
\* first n have none.
LEMMA Bounded ==
  ASSUME NEW n \in Nat, NEW f \in [1 .. n -> Nat]
  PROVE  \E b \in Nat : \A i \in 1 .. n : f[i] <= b
<1>. DEFINE U == {k \in 0 .. n : ~ \E b \in Nat : \A i \in 1 .. k : f[i] <= b}
<1>. SUFFICES ASSUME U # {} PROVE FALSE
  <2>1. n \in 0 .. n /\ n \notin U => \E b \in Nat : \A i \in 1 .. n : f[i] <= b
    OBVIOUS
  <2>. HIDE DEF U
  <2>. QED
    BY <2>1
<1>1. U \in SUBSET Nat
  OBVIOUS
<1>2. PICK k \in U : \A j \in U : k <= j
  <2>. HIDE DEF U
  <2>. QED
    BY <1>1, LeastNat
<1>3. k # 0
  <2>1. \A i \in 1 .. 0 : f[i] <= 0
    OBVIOUS
  <2>. QED
    BY <2>1
<1>4. k - 1 \in 0 .. n /\ k - 1 \notin U
  <2>1. k \in 0 .. n /\ k - 1 \in 0 .. n
    BY <1>3
  <2>. HIDE DEF U
  <2>. QED
    BY <1>2, <2>1
<1>5. PICK b \in Nat : \A i \in 1 .. k - 1 : f[i] <= b
  BY <1>4
<1>6. k \in 1 .. n /\ f[k] \in Nat
  <2>1. k \in 0 .. n
    OBVIOUS
  <2>. HIDE DEF U
  <2>2. k \in 1 .. n
    BY <2>1, <1>3
  <2>. QED
    BY <2>2
<1>. k \in 0 .. n /\ ~ \E c \in Nat : \A i \in 1 .. k : f[i] <= c
  OBVIOUS
<1>. HIDE DEF U
<1>7. ASSUME NEW i \in 1 .. k PROVE f[i] <= b + f[k]
  <2>1. CASE i = k
    BY <2>1, <1>6
  <2>2. CASE i \in 1 .. k - 1
    <3>1. f[i] <= b /\ f[i] \in Nat
      BY <2>2, <1>5, <1>6
    <3>. QED
      BY <3>1, <1>6
  <2>. QED
    BY <2>1, <2>2, <1>6
<1>8. b + f[k] \in Nat
  BY <1>6
<1>. QED
  BY <1>7, <1>8

\* A set of naturals with 0 and with the successors of its elements is all.
LEMMA NatSet ==
  ASSUME NEW Q, 0 \in Q, \A n \in Nat : n \in Q => n + 1 \in Q
  PROVE  \A n \in Nat : n \in Q
<1>. DEFINE U == {n \in Nat : n \notin Q}
<1>. SUFFICES ASSUME U # {} PROVE FALSE
  OBVIOUS
<1>1. PICK m \in U : \A n \in U : m <= n
  <2>1. U \in SUBSET Nat
    OBVIOUS
  <2>. HIDE DEF U
  <2>. QED
    BY <2>1, LeastNat
<1>2. m # 0 /\ m - 1 \in Nat
  OBVIOUS
<1>3. m - 1 \in U
  BY <1>2
<1>. QED
  BY <1>1, <1>2, <1>3

\* What a property of sets has to be kept by to hold of every finite set: it is
\* enough to put back the element that CHOOSE takes out.
Taken(s) == CHOOSE x \in s : TRUE

LEMMA TakenIn == \A s : s # {} => Taken(s) \in s
BY DEF Taken

LEMMA TakenSmaller ==
  ASSUME NEW s, s # {}, IsFiniteSet(s)
  PROVE  /\ IsFiniteSet(s \ {Taken(s)}) /\ Cardinality(s \ {Taken(s)}) = Cardinality(s) - 1
         /\ Cardinality(s) \in Nat \ {0}
BY TakenIn, FS_RemoveElement, FS_CardinalityType, FS_EmptySet

LEMMA SetsBySize ==
  ASSUME NEW S, IsFiniteSet(S), NEW Q, {} \in Q,
         \A s \in SUBSET S : s # {} /\ s \ {Taken(s)} \in Q => s \in Q
  PROVE  \A s \in SUBSET S : s \in Q
<1>. DEFINE N == {n \in Nat : \A s \in SUBSET S : Cardinality(s) = n => s \in Q}
<1>1. \A s \in SUBSET S : IsFiniteSet(s) /\ Cardinality(s) \in Nat
  BY FS_Subset, FS_CardinalityType
<1>2. 0 \in N
  BY <1>1, FS_EmptySet
<1>3. ASSUME NEW n \in Nat, n \in N PROVE n + 1 \in N
  <2>1. SUFFICES ASSUME NEW s \in SUBSET S, Cardinality(s) = n + 1 PROVE s \in Q
    OBVIOUS
  <2>2. s # {}
    BY <2>1, FS_EmptySet
  <2>3. Cardinality(s \ {Taken(s)}) = n
    BY <1>1, <2>1, <2>2, TakenSmaller
  <2>4. s \ {Taken(s)} \in Q
    BY <1>3, <2>3
  <2>. QED
    BY <2>2, <2>4
<1>. HIDE DEF N
<1>4. \A n \in Nat : n \in N
  BY <1>2, <1>3, NatSet
<1>. QED
  BY <1>1, <1>4 DEF N

\* A finite nonempty set of naturals has a greatest element.
LEMMA GreatestNat ==
  ASSUME NEW S \in SUBSET Nat, IsFiniteSet(S), S # {}
  PROVE  \E m \in S : \A y \in S : y <= m
<1>. DEFINE Q == {s \in SUBSET S : \E b \in Nat : \A x \in s : x <= b}
<1>1. {} \in Q
  OBVIOUS
<1>2. ASSUME NEW s \in SUBSET S, s # {}, s \ {Taken(s)} \in Q PROVE s \in Q
  <2>1. PICK x \in s : x = Taken(s)
    BY <1>2, TakenIn
  <2>2. PICK b \in Nat : \A y \in s \ {x} : y <= b
    BY <1>2, <2>1
  <2>3. x \in Nat /\ b + x \in Nat
    OBVIOUS
  <2>4. \A y \in s : y <= b + x
    <3>1. ASSUME NEW y \in s PROVE y <= b + x
      <4>1. y \in Nat
        OBVIOUS
      <4>. QED
        BY <2>2, <2>3, <4>1
    <3>. QED
      BY <3>1
  <2>. QED
    BY <2>3, <2>4
<1>. HIDE DEF Q
<1>3. S \in Q
  BY <1>1, <1>2, SetsBySize
<1>4. PICK b \in Nat : \A x \in S : x <= b
  BY <1>3 DEF Q
<1>. QED
  BY <1>4, MaxNat

-----------------------------------------------------------------------------
(* Products and quotients. *)

\* How products grow with their right factor.
LEMMA MulSum ==
  ASSUME NEW w \in Nat, NEW a \in Nat, NEW b \in Nat
  PROVE  w * a \in Nat /\ w * (a + b) = w * a + w * b /\ w * (a + 1) = w * a + w
OBVIOUS

LEMMA MulMono ==
  ASSUME NEW w \in Nat, NEW a \in Nat, NEW b \in Nat, a <= b
  PROVE  w * a <= w * b
<1>1. PICK d \in Nat : b = a + d
  <2>1. b - a \in Nat /\ b = a + (b - a)
    OBVIOUS
  <2>. QED
    BY <2>1
<1>2. w * (a + d) = w * a + w * d /\ w * d \in Nat /\ w * a \in Nat
  BY MulSum
<1>. QED
  BY <1>1, <1>2

\* What a quotient is, without division.
LEMMA DivBounds ==
  ASSUME NEW x \in Nat, NEW w \in Nat \ {0}
  PROVE  x \div w \in Nat /\ w * (x \div w) <= x /\ x < w * (x \div w) + w
OBVIOUS

\* Dividing a sum loses no more than dividing its parts, and at most one unit less.
LEMMA DivSum ==
  ASSUME NEW x \in Nat, NEW y \in Nat, NEW w \in Nat \ {0}
  PROVE  /\ (x \div w) + (y \div w) <= (x + y) \div w
         /\ (x + y) \div w <= (x \div w) + (y \div w) + 1
<1>1. PICK p \in Nat : p = x \div w /\ w * p <= x /\ x < w * p + w
  BY DivBounds
<1>2. PICK q \in Nat : q = y \div w /\ w * q <= y /\ y < w * q + w
  BY DivBounds
<1>3. PICK t \in Nat : t = (x + y) \div w /\ w * t <= x + y /\ x + y < w * t + w
  BY DivBounds
<1>4. w * (p + q) = w * p + w * q /\ w * p \in Nat /\ w * q \in Nat /\ w * t \in Nat
  BY MulSum
<1>5. p + q <= t
  <2>. SUFFICES ASSUME t + 1 <= p + q PROVE FALSE
    OBVIOUS
  <2>1. w * (t + 1) <= w * (p + q)
    BY MulMono
  <2>2. w * (t + 1) = w * t + w
    BY MulSum
  <2>. QED
    BY <1>1, <1>2, <1>3, <1>4, <2>1, <2>2
<1>6. t <= p + q + 1
  <2>. SUFFICES ASSUME p + q + 2 <= t PROVE FALSE
    OBVIOUS
  <2>1. w * ((p + q + 1) + 1) <= w * t
    BY MulMono
  <2>2. w * ((p + q + 1) + 1) = w * (p + q + 1) + w /\ w * (p + q + 1) = w * (p + q) + w
    BY MulSum
  <2>. QED
    BY <1>1, <1>2, <1>3, <1>4, <2>1, <2>2
<1>. QED
  BY <1>1, <1>2, <1>3, <1>5, <1>6

-----------------------------------------------------------------------------
(* Sums, as FoldFunction of the community modules defines them: the value  *)
(* at S of a recursive function that CHOOSE picks, if there is one.         *)

\* The function the fold chooses.
SumsUp(iter, f, S) ==
  iter = [s \in SUBSET S |-> IF s = {} THEN 0 ELSE f[Taken(s)] + iter[s \ {Taken(s)}]]

\* The recursive function that a fold is made of exists.
LEMMA SumExists ==
  ASSUME NEW S, IsFiniteSet(S), NEW f
  PROVE  \E iter : SumsUp(iter, f, S)
<1>. DEFINE To(g, s) == IF s = {} THEN 0 ELSE f[Taken(s)] + g[s \ {Taken(s)}]
            Up(g, n) == \A s \in SUBSET S : Cardinality(s) <= n => g[s] = To(g, s)
            N == {n \in Nat : \E g : g = [s \in SUBSET S |-> g[s]] /\ Up(g, n)}
<1>1. \A s \in SUBSET S : IsFiniteSet(s) /\ Cardinality(s) \in Nat
  BY FS_Subset, FS_CardinalityType
<1>2. 0 \in N
  <2>1. PICK g : g = [s \in SUBSET S |-> 0]
    OBVIOUS
  <2>2. \A s \in SUBSET S : Cardinality(s) <= 0 => s = {}
    BY <1>1, FS_EmptySet
  <2>3. Up(g, 0)
    BY <2>1, <2>2
  <2>4. g = [s \in SUBSET S |-> g[s]]
    BY <2>1
  <2>. HIDE DEF Up
  <2>. QED
    BY <2>3, <2>4
<1>3. ASSUME NEW n \in Nat, n \in N PROVE n + 1 \in N
  <2>1. PICK g : g = [s \in SUBSET S |-> g[s]] /\ Up(g, n)
    BY <1>3
  <2>2. PICK h : h = [s \in SUBSET S |-> IF Cardinality(s) <= n THEN g[s] ELSE To(g, s)]
    OBVIOUS
  <2>3. ASSUME NEW s \in SUBSET S, Cardinality(s) <= n + 1 PROVE h[s] = To(h, s)
    <3>1. CASE s = {}
      <4>1. Cardinality(s) <= n
        BY <3>1, FS_EmptySet
      <4>. QED
        BY <2>1, <2>2, <3>1, <4>1
    <3>2. CASE s # {}
      <4>1. PICK t \in SUBSET S : t = s \ {Taken(s)}
        OBVIOUS
      <4>2. Cardinality(t) <= n
        BY <1>1, <2>3, <3>2, <4>1, TakenSmaller
      <4>3. h[t] = g[t]
        BY <2>2, <4>1, <4>2
      <4>4. h[s] = To(g, s)
        <5>1. CASE Cardinality(s) <= n
          BY <2>1, <2>2, <5>1
        <5>2. CASE ~(Cardinality(s) <= n)
          BY <2>2, <5>2
        <5>. QED
          BY <5>1, <5>2
      <4>. QED
        BY <3>2, <4>1, <4>3, <4>4
    <3>. QED
      BY <3>1, <3>2
  <2>4. Up(h, n + 1) /\ h = [s \in SUBSET S |-> h[s]]
    BY <2>2, <2>3
  <2>. HIDE DEF Up
  <2>. QED
    BY <2>4
<1>4. Cardinality(S) \in N
  <2>. HIDE DEF N
  <2>1. \A n \in Nat : n \in N
    BY <1>2, <1>3, NatSet
  <2>. QED
    BY <2>1, FS_CardinalityType
<1>5. PICK g : g = [s \in SUBSET S |-> g[s]] /\ Up(g, Cardinality(S))
  BY <1>4
<1>6. \A s \in SUBSET S : Cardinality(s) <= Cardinality(S)
  BY FS_Subset
<1>7. \A s \in SUBSET S : g[s] = To(g, s)
  BY <1>5, <1>6
<1>8. g = [s \in SUBSET S |-> To(g, s)]
  BY <1>5, <1>7
<1>. QED
  BY <1>8 DEF SumsUp

\* The sum of the values of f.
SumOf(f) == FoldFunction(+, 0, f)

\* What it amounts to, without the recursion.
Accumulates(iter, f, S) ==
  /\ iter[{}] = 0
  /\ \A s \in SUBSET S : s # {} => iter[s] = f[Taken(s)] + iter[s \ {Taken(s)}]

\* A sum is that of the elements but one, and that one.
LEMMA SumUnfolds ==
  ASSUME NEW S, IsFiniteSet(S), NEW f, DOMAIN f = S
  PROVE  \E iter : SumOf(f) = iter[S] /\ Accumulates(iter, f, S)
<1>1. SumOf(f) = (CHOOSE iter : SumsUp(iter, f, S))[S]
  BY Zenon DEF SumOf, FoldFunction, FoldFunctionOnSet, MapThenFoldSet, SumsUp, Taken
<1>2. PICK iter : iter = CHOOSE i : SumsUp(i, f, S)
  OBVIOUS
<1>3. SumsUp(iter, f, S)
  BY <1>2, SumExists
<1>4. PICK To : To = [s \in SUBSET S |-> IF s = {} THEN 0 ELSE f[Taken(s)] + iter[s \ {Taken(s)}]]
  OBVIOUS
<1>5. iter = To
  BY <1>3, <1>4 DEF SumsUp
<1>6. \A s \in SUBSET S : iter[s] = IF s = {} THEN 0 ELSE f[Taken(s)] + iter[s \ {Taken(s)}]
  BY <1>4, <1>5
<1>. QED
  BY <1>1, <1>2, <1>6 DEF Accumulates

\* A sum of naturals is one.
LEMMA SumNat ==
  ASSUME NEW S, IsFiniteSet(S), NEW f \in [S -> Nat]
  PROVE  SumOf(f) \in Nat
<1>1. PICK iter : SumOf(f) = iter[S] /\ Accumulates(iter, f, S)
  <2>1. DOMAIN f = S
    OBVIOUS
  <2>. QED
    BY <2>1, SumUnfolds
<1>. DEFINE Q == {s \in SUBSET S : iter[s] \in Nat}
<1>2. {} \in Q
  BY <1>1 DEF Accumulates
<1>3. ASSUME NEW s \in SUBSET S, s # {}, s \ {Taken(s)} \in Q PROVE s \in Q
  <2>1. f[Taken(s)] \in Nat
    BY <1>3, TakenIn
  <2>2. iter[s] = f[Taken(s)] + iter[s \ {Taken(s)}]
    BY <1>1, <1>3 DEF Accumulates
  <2>3. iter[s \ {Taken(s)}] \in Nat
    BY <1>3
  <2>. QED
    BY <2>1, <2>2, <2>3
<1>. HIDE DEF Q
<1>4. S \in Q
  BY <1>2, <1>3, SetsBySize
<1>. QED
  BY <1>1, <1>4 DEF Q

\* A sum of smaller naturals is no greater.
LEMMA SumLeq ==
  ASSUME NEW S, IsFiniteSet(S), NEW f \in [S -> Nat], NEW g \in [S -> Nat],
         \A x \in S : f[x] <= g[x]
  PROVE  SumOf(f) <= SumOf(g)
<1>1. PICK i : SumOf(f) = i[S] /\ Accumulates(i, f, S)
  <2>1. DOMAIN f = S
    OBVIOUS
  <2>. QED
    BY <2>1, SumUnfolds
<1>2. PICK j : SumOf(g) = j[S] /\ Accumulates(j, g, S)
  <2>1. DOMAIN g = S
    OBVIOUS
  <2>. QED
    BY <2>1, SumUnfolds
<1>. DEFINE Q == {s \in SUBSET S : i[s] \in Nat /\ j[s] \in Nat /\ i[s] <= j[s]}
<1>3. {} \in Q
  BY <1>1, <1>2 DEF Accumulates
<1>4. ASSUME NEW s \in SUBSET S, s # {}, s \ {Taken(s)} \in Q PROVE s \in Q
  <2>1. PICK x \in S : x = Taken(s)
    BY <1>4, TakenIn
  <2>2. /\ i[s] = f[x] + i[s \ {x}] /\ j[s] = g[x] + j[s \ {x}]
        /\ f[x] \in Nat /\ g[x] \in Nat /\ f[x] <= g[x]
    BY <1>1, <1>2, <1>4, <2>1 DEF Accumulates
  <2>3. i[s \ {x}] \in Nat /\ j[s \ {x}] \in Nat /\ i[s \ {x}] <= j[s \ {x}]
    BY <1>4, <2>1
  <2>. QED
    BY <2>2, <2>3
<1>. HIDE DEF Q
<1>5. S \in Q
  BY <1>3, <1>4, SetsBySize
<1>. QED
  BY <1>1, <1>2, <1>5 DEF Q

\* Replacing one value changes a sum by as much.
LEMMA SumReplaced ==
  ASSUME NEW S, IsFiniteSet(S), NEW f \in [S -> Nat], NEW g \in [S -> Nat],
         NEW r \in S, \A x \in S : x # r => f[x] = g[x]
  PROVE  SumOf(f) + g[r] = SumOf(g) + f[r]
<1>1. PICK i : SumOf(f) = i[S] /\ Accumulates(i, f, S)
  <2>1. DOMAIN f = S
    OBVIOUS
  <2>. QED
    BY <2>1, SumUnfolds
<1>2. PICK j : SumOf(g) = j[S] /\ Accumulates(j, g, S)
  <2>1. DOMAIN g = S
    OBVIOUS
  <2>. QED
    BY <2>1, SumUnfolds
<1>. DEFINE Q == {s \in SUBSET S :
                    /\ i[s] \in Nat /\ j[s] \in Nat
                    /\ IF r \in s THEN i[s] + g[r] = j[s] + f[r] ELSE i[s] = j[s]}
<1>3. {} \in Q
  BY <1>1, <1>2 DEF Accumulates
<1>4. ASSUME NEW s \in SUBSET S, s # {}, s \ {Taken(s)} \in Q PROVE s \in Q
  <2>1. PICK x \in s : x = Taken(s)
    BY <1>4, TakenIn
  <2>2. /\ i[s] = f[x] + i[s \ {x}] /\ j[s] = g[x] + j[s \ {x}]
        /\ f[x] \in Nat /\ g[x] \in Nat /\ f[r] \in Nat /\ g[r] \in Nat
    BY <1>1, <1>2, <1>4, <2>1 DEF Accumulates
  <2>3. PICK t \in SUBSET S : t = s \ {x}
    OBVIOUS
  <2>4. /\ i[t] \in Nat /\ j[t] \in Nat
        /\ IF r \in t THEN i[t] + g[r] = j[t] + f[r] ELSE i[t] = j[t]
    BY <1>4, <2>1, <2>3
  <2>5. i[s] = f[x] + i[t] /\ j[s] = g[x] + j[t]
    BY <2>2, <2>3
  <2>6. CASE x = r
    <3>1. r \notin t /\ r \in s
      BY <2>3, <2>6
    <3>. QED
      BY <2>2, <2>4, <2>5, <2>6, <3>1
  <2>7. CASE x # r
    <3>1. (r \in t <=> r \in s) /\ f[x] = g[x]
      BY <2>3, <2>7
    <3>. QED
      BY <2>2, <2>4, <2>5, <3>1
  <2>. QED
    BY <2>6, <2>7
<1>. HIDE DEF Q
<1>5. S \in Q
  BY <1>3, <1>4, SetsBySize
<1>. QED
  BY <1>1, <1>2, <1>5 DEF Q

\* The sum of values that are zero outside T and bounded by k on it.
LEMMA SumBounded ==
  ASSUME NEW S, IsFiniteSet(S), NEW f \in [S -> Nat], NEW T, NEW k \in Nat,
         \A x \in S : x \notin T => f[x] = 0,
         \A x \in S : x \in T => f[x] <= k
  PROVE  SumOf(f) <= k * Cardinality(S \cap T)
<1>1. PICK i : SumOf(f) = i[S] /\ Accumulates(i, f, S)
  <2>1. DOMAIN f = S
    OBVIOUS
  <2>. QED
    BY <2>1, SumUnfolds
<1>. DEFINE Q == {s \in SUBSET S : i[s] \in Nat /\ i[s] <= k * Cardinality(s \cap T)}
<1>3. {} \in Q
  <2>1. Cardinality({} \cap T) = 0 /\ k * 0 = 0
    <3>1. {} \cap T = {}
      OBVIOUS
    <3>. QED
      BY <3>1, FS_EmptySet
  <2>. QED
    BY <1>1, <2>1 DEF Accumulates
<1>4. ASSUME NEW s \in SUBSET S, s # {}, s \ {Taken(s)} \in Q PROVE s \in Q
  <2>1. PICK x \in s : x = Taken(s)
    BY <1>4, TakenIn
  <2>2. i[s] = f[x] + i[s \ {x}] /\ f[x] \in Nat
    BY <1>1, <1>4, <2>1 DEF Accumulates
  <2>3. PICK t \in SUBSET S : t = s \ {x}
    OBVIOUS
  <2>4. i[t] \in Nat /\ i[t] <= k * Cardinality(t \cap T) /\ i[s] = f[x] + i[t]
    BY <1>4, <2>1, <2>2, <2>3
  <2>5. IsFiniteSet(t \cap T) /\ Cardinality(t \cap T) \in Nat
    BY FS_Subset, FS_CardinalityType
  <2>6. CASE x \in T
    <3>1. s \cap T = (t \cap T) \cup {x} /\ x \notin t \cap T
      BY <2>3, <2>6
    <3>2. Cardinality(s \cap T) = Cardinality(t \cap T) + 1
      BY <2>5, <3>1, FS_AddElement
    <3>3. PICK n \in Nat : n = Cardinality(t \cap T)
      BY <2>5
    <3>4. k * (n + 1) = k * n + k /\ k * n \in Nat
      BY MulSum
    <3>5. f[x] <= k
      BY <2>6
    <3>. QED
      BY <2>2, <2>4, <3>2, <3>3, <3>4, <3>5
  <2>7. CASE x \notin T
    <3>1. s \cap T = t \cap T /\ f[x] = 0
      BY <2>3, <2>7
    <3>. QED
      BY <2>4, <3>1
  <2>. QED
    BY <2>6, <2>7
<1>. HIDE DEF Q
<1>5. S \in Q
  BY <1>3, <1>4, SetsBySize
<1>. QED
  BY <1>1, <1>5 DEF Q
-----------------------------------------------------------------------------
\* Sequences that agree at every place are the same.
LEMMA SameSeq ==
  \A L : \A s \in Seq(L), t \in Seq(L) :
    Len(s) = Len(t) /\ (\A i \in 1 .. Len(s) : s[i] = t[i]) => s = t
OBVIOUS

\* A sequence without one of its places.
LEMMA Spliced ==
  ASSUME NEW S, NEW s \in Seq(S), NEW i \in 1 .. Len(s)
  PROVE  LET r == SubSeq(s, 1, i - 1) \o SubSeq(s, i + 1, Len(s))
         IN  /\ r \in Seq(S) /\ Len(r) = Len(s) - 1
             /\ \A j \in 1 .. Len(s) - 1 : r[j] = IF j < i THEN s[j] ELSE s[j + 1]
<1>. DEFINE a == SubSeq(s, 1, i - 1)
            b == SubSeq(s, i + 1, Len(s))
<1>1. a \in Seq(S) /\ Len(a) = i - 1 /\ \A j \in 1 .. i - 1 : a[j] = s[j]
  <2>1. \A j \in 1 .. i - 1 : j \in 1 .. Len(s)
    OBVIOUS
  <2>. QED
    BY <2>1, SubSeqProperties
<1>2. b \in Seq(S) /\ Len(b) = Len(s) - i /\ \A j \in 1 .. Len(s) - i : b[j] = s[i + j]
  <2>1. \A j \in i + 1 .. Len(s) : j \in 1 .. Len(s)
    OBVIOUS
  <2>. QED
    BY <2>1, SubSeqProperties
<1>. HIDE DEF a, b
<1>3. /\ a \o b \in Seq(S) /\ Len(a \o b) = Len(a) + Len(b)
      /\ \A j \in 1 .. Len(a) + Len(b) :
           (a \o b)[j] = IF j <= Len(a) THEN a[j] ELSE b[j - Len(a)]
  BY <1>1, <1>2, ConcatProperties
<1>4. Len(a) + Len(b) = Len(s) - 1
  BY <1>1, <1>2
<1>5. ASSUME NEW j \in 1 .. Len(s) - 1
      PROVE  (a \o b)[j] = IF j < i THEN s[j] ELSE s[j + 1]
  <2>1. CASE j < i
    BY <2>1, <1>1, <1>3, <1>4
  <2>2. CASE ~(j < i)
    <3>1. j - (i - 1) \in 1 .. Len(s) - i /\ i + (j - (i - 1)) = j + 1
      BY <2>2
    <3>2. (a \o b)[j] = b[j - (i - 1)]
      BY <2>2, <1>1, <1>3, <1>4
    <3>. QED
      BY <3>1, <3>2, <2>2, <1>2
  <2>. QED
    BY <2>1, <2>2
<1>. QED
  BY <1>3, <1>4, <1>5 DEF a, b

\* A sum of zeros.
LEMMA SumZero ==
  ASSUME NEW S, IsFiniteSet(S), NEW f \in [S -> Nat], \A x \in S : f[x] = 0
  PROVE  SumOf(f) = 0
<1>1. SumOf(f) <= 0 * Cardinality(S \cap {})
  BY SumBounded
<1>2. SumOf(f) \in Nat /\ Cardinality(S \cap {}) = 0
  <2>1. S \cap {} = {}
    OBVIOUS
  <2>. QED
    BY <2>1, SumNat, FS_EmptySet
<1>. QED
  BY <1>1, <1>2

\* What f is on some of the elements, and zero elsewhere.
PartOf(f, T) == [x \in DOMAIN f |-> IF x \in T THEN f[x] ELSE 0]

\* The sum over some of the elements is that of what f is there.
LEMMA SumOfPart ==
  ASSUME NEW S, IsFiniteSet(S), NEW f \in [S -> Nat], NEW T \in SUBSET S,
         NEW iter, Accumulates(iter, f, T)
  PROVE  iter[T] = SumOf(PartOf(f, T))
<1>. DEFINE On(s) == PartOf(f, s)
            Q == {s \in SUBSET T : iter[s] = SumOf(On(s))}
<1>1. \A s : On(s) \in [S -> Nat] /\ \A x \in S : On(s)[x] = IF x \in s THEN f[x] ELSE 0
  BY DEF PartOf
<1>. HIDE DEF On
<1>2. {} \in Q
  <2>1. SumOf(On({})) = 0
    BY <1>1, SumZero
  <2>. QED
    BY <2>1 DEF Accumulates
<1>3. ASSUME NEW s \in SUBSET T, s # {}, s \ {Taken(s)} \in Q PROVE s \in Q
  <2>1. PICK r \in s : r = Taken(s)
    BY <1>3, TakenIn
  <2>2. iter[s] = f[r] + iter[s \ {r}] /\ f[r] \in Nat
    BY <1>3, <2>1 DEF Accumulates
  <2>3. iter[s \ {r}] = SumOf(On(s \ {r}))
    BY <1>3, <2>1
  <2>4. PICK g \in [S -> Nat], h \in [S -> Nat] : g = On(s) /\ h = On(s \ {r})
    BY <1>1
  <2>5. g[r] = f[r] /\ h[r] = 0 /\ \A x \in S : x # r => g[x] = h[x]
    BY <1>1, <2>4
  <2>6. SumOf(g) + h[r] = SumOf(h) + g[r] /\ SumOf(g) \in Nat /\ SumOf(h) \in Nat
    BY <2>1, <2>5, SumReplaced, SumNat
  <2>7. iter[s] = SumOf(On(s))
    BY <2>2, <2>3, <2>4, <2>5, <2>6
  <2>. QED
    BY <2>7
<1>. HIDE DEF Q
<1>4. IsFiniteSet(T)
  BY FS_Subset
<1>5. T \in Q
  BY <1>2, <1>3, <1>4, SetsBySize
<1>. QED
  BY <1>5 DEF Q, On
=============================================================================
