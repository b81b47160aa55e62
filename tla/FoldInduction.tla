---------------------------- MODULE FoldInduction ----------------------------
(***************************************************************************)
(* Induction over the natural numbers, and what a fold over a sequence     *)
(* computes.                                                               *)
(*                                                                         *)
(* The library states induction for an operator P(_), which the provers    *)
(* cannot instantiate; here it is stated for a set and follows from WFMin, *)
(* the minimum of a set on a well-founded relation.  A fold of the         *)
(* community modules is a recursive function on sets of indexes; it exists *)
(* and computes Op from left to right.  The operation is a parameter of    *)
(* the module: a module that folds with Op uses                            *)
(* INSTANCE FoldInduction WITH Op <- ... and cites the theorem Folding.    *)
(***************************************************************************)
EXTENDS Integers, SequencesExt, FiniteSetTheorems, WellFoundedInduction, TLAPS

CONSTANT Op(_, _)

\* A set that holds 0 and the successor of each member holds every number.
LEMMA Induction ==
  ASSUME NEW S, S \subseteq Nat, 0 \in S, \A n \in S : n + 1 \in S
  PROVE  S = Nat
<1> DEFINE T == Nat \ S
           R == {p \in Nat \X Nat : p[1] < p[2]}
<1>1. SUFFICES ASSUME T # {} PROVE FALSE
  OBVIOUS
<1>2. PICK x \in T : \A y \in T : ~ (<<y, x>> \in R)
  <2>1. IsWellFoundedOn(R, Nat)
    BY NatLessThanWellFounded DEF OpToRel
  <2> HIDE DEF T, R
  <2> QED BY <2>1, WFMin, <1>1 DEF T
<1>3. x \in Nat /\ x \notin S /\ x # 0 /\ x - 1 \in Nat
  OBVIOUS
<1>4. x - 1 \in S
  <2> SUFFICES ASSUME x - 1 \in T PROVE FALSE
    BY <1>3
  <2>1. <<x - 1, x>> \in Nat \X Nat /\ x - 1 < x
    BY <1>3
  <2> QED BY <1>2, <2>1
<1>5. (x - 1) + 1 \in S
  BY ONLY <1>4, \A n \in S : n + 1 \in S
<1> QED BY <1>3, <1>5

Less == { ss \in Nat \X Nat : ss[1] < ss[2] }

\* Every nonempty set of natural numbers has a least element.
LEMMA LeastElement ==
  ASSUME NEW T, T \subseteq Nat, T # {}
  PROVE  \E m \in T : \A k \in T : m <= k
<1>1. Less = OpToRel(<, Nat)
  BY DEF Less, OpToRel
<1>2. IsWellFoundedOn(Less, Nat)
  BY <1>1, NatLessThanWellFounded, Zenon
<1>3. \E x \in T : \A y \in T : ~ (<<y, x>> \in Less)
  BY <1>2, WFMin, Zenon
<1>4. \A x, y \in T : <<y, x>> \in Less <=> y < x
  BY DEF Less
<1>5. \E x \in T : \A y \in T : ~ (y < x)
  BY <1>3, <1>4, Zenon
<1> QED
  BY <1>5

\* f starts at a and each value is Step[n] of the value before: the form of a
\* recursive function over an interval.
HasRecurrence(N, S, a, Step) ==
  \E f \in [0..N -> S] : f[0] = a /\ \A n \in 1..N : f[n] = Step[n][f[n - 1]]

\* Such a function exists.
LEMMA IntervalRecursion ==
  ASSUME NEW N \in Nat, NEW S, NEW a \in S, NEW Step \in [1..N -> [S -> S]]
  PROVE  HasRecurrence(N, S, a, Step)
<1> DEFINE Upto(f, m) == f[0] = a /\ \A n \in 1..m : f[n] = Step[n][f[n - 1]]
           Missing == { m \in 0..N : ~ \E f \in [0..m -> S] : Upto(f, m) }
<1>1. SUFFICES Missing = {}
  <2>1. N \notin Missing => \E f \in [0..N -> S] : Upto(f, N)
    OBVIOUS
  <2> QED BY <1>1, <2>1 DEF HasRecurrence
<1>2. SUFFICES ASSUME Missing # {} PROVE FALSE
  OBVIOUS
<1>3. PICK m \in Missing : \A k \in Missing : m <= k
  <2> Missing \subseteq Nat OBVIOUS
  <2> HIDE DEF Missing
  <2> QED BY <1>2, LeastElement
<1>4. m # 0
  <2> DEFINE g == [k \in 0..0 |-> a]
  <2>1. g \in [0..0 -> S] /\ Upto(g, 0)
    OBVIOUS
  <2>2. 0 \notin Missing
    BY <2>1
  <2> QED BY <1>3, <2>2
<1>5. m \in 1..N /\ m - 1 \in 0..N
  BY <1>3, <1>4
<1>6. m - 1 \notin Missing
  <2>1. m \in Nat
    BY <1>5
  <2> HIDE DEF Missing
  <2> QED BY <1>3, <2>1
<1>7. PICK f \in [0..(m - 1) -> S] : Upto(f, m - 1)
  BY <1>5, <1>6
<1> DEFINE g == [k \in 0..m |-> IF k = m THEN Step[m][f[m - 1]] ELSE f[k]]
<1>8. g \in [0..m -> S]
  <2>1. f[m - 1] \in S
    BY <1>5, <1>7
  <2>2. Step[m][f[m - 1]] \in S
    BY <1>5, <2>1
  <2>3. \A k \in 0..m : k # m => k \in 0..(m - 1)
    BY <1>5
  <2> QED BY <1>7, <2>2, <2>3
<1>9. Upto(g, m)
  <2>1. g[0] = a
    BY <1>5, <1>7
  <2>2. ASSUME NEW n \in 1..m PROVE g[n] = Step[n][g[n - 1]]
    <3>1. CASE n = m
      <4>1. g[m] = Step[m][f[m - 1]]
        BY <1>5
      <4>2. m - 1 \in 0..m /\ m - 1 # m
        BY <1>5
      <4>3. g[m - 1] = f[m - 1]
        BY <4>2
      <4> QED BY <3>1, <4>1, <4>3
    <3>2. CASE n # m
      BY <1>5, <1>7, <3>2
    <3> QED BY <3>1, <3>2
  <2> QED BY <2>1, <2>2
<1>10. m \notin Missing
  BY <1>8, <1>9
<1> QED BY <1>3, <1>10

\* A set of indexes that is not empty has a greatest.
LEMMA MaxIsMember ==
  ASSUME NEW n \in Nat, NEW s \in SUBSET (1..n), s # {}
  PROVE  Max(s) \in s /\ \A y \in s : Max(s) >= y
<1> DEFINE P == {m \in Nat : \A t \in SUBSET (1..m) :
                               t # {} => \E x \in t : \A y \in t : x >= y}
<1>1. 0 \in P
  <2>1. \A t \in SUBSET (1..0) : t = {}
    OBVIOUS
  <2> QED BY <2>1
<1>2. ASSUME NEW m \in P PROVE m + 1 \in P
  <2> SUFFICES ASSUME NEW t \in SUBSET (1..(m+1)), t # {}
               PROVE  \E x \in t : \A y \in t : x >= y
    OBVIOUS
  <2>1. CASE m + 1 \in t
    BY <2>1
  <2>2. CASE m + 1 \notin t
    <3>1. t \in SUBSET (1..m)
      BY <2>2
    <3> QED BY <3>1
  <2> QED BY <2>1, <2>2
<1> HIDE DEF P
<1>3. P = Nat
  BY <1>1, <1>2, Induction, P \subseteq Nat DEF P
<1>4. \E x \in s : \A y \in s : x >= y
  BY <1>3 DEF P
<1> QED BY <1>4 DEF Max

-----------------------------------------------------------------------------
Folded(base, seq) == FoldLeft(Op, base, seq)

\* The fold is the last of the values that Op takes from left to right.
Steps(base, seq, n) ==
  \E v : /\ v = [k \in 0..n |-> v[k]]
         /\ v[0] = base
         /\ \A k \in 1..n : v[k] = Op(v[k - 1], seq[k])
         /\ Folded(base, seq) = v[n]

THEOREM Folding ==
  ASSUME NEW base, NEW seq, NEW n \in Nat, DOMAIN seq = 1..n
  PROVE  Steps(base, seq, n)
<1> DEFINE Rec(f, m) == \A s \in SUBSET (1..m) :
              f[s] = IF s = {} THEN base ELSE Op(f[s \ {Max(s)}], seq[Max(s)])
           P == {m \in Nat : \E f : f = [s \in SUBSET (1..m) |-> f[s]] /\ Rec(f, m)}
<1>1. 0 \in P
  <2> DEFINE f == [s \in SUBSET (1..0) |-> base]
  <2>1. SUBSET (1..0) = {{}}
    OBVIOUS
  <2>2. f = [s \in SUBSET (1..0) |-> f[s]] /\ Rec(f, 0)
    BY <2>1
  <2> HIDE DEF f, Rec
  <2> QED BY <2>2
<1>2. ASSUME NEW m \in P PROVE m + 1 \in P
  <2>1. PICK f : f = [s \in SUBSET (1..m) |-> f[s]] /\ Rec(f, m)
    OBVIOUS
  <2> DEFINE g == [s \in SUBSET (1..(m+1)) |->
                    IF m + 1 \in s THEN Op(f[s \ {m + 1}], seq[m + 1]) ELSE f[s]]
  <2>0. m \in Nat /\ m + 1 \in Nat
    OBVIOUS
  <2>2. ASSUME NEW s \in SUBSET (1..(m+1))
        PROVE  g[s] = IF s = {} THEN base ELSE Op(g[s \ {Max(s)}], seq[Max(s)])
    <3>1. CASE m + 1 \in s
      <4>1. Max(s) = m + 1
        <5>1. Max(s) \in s /\ Max(s) >= m + 1
          BY <3>1, <2>0, MaxIsMember
        <5> QED BY <5>1, <2>0
      <4>2. s \ {m + 1} \in SUBSET (1..(m+1)) /\ m + 1 \notin s \ {m + 1} /\ s # {}
        BY <3>1
      <4>3. g[s \ {m + 1}] = f[s \ {m + 1}]
        BY <4>2
      <4>4. g[s] = Op(f[s \ {m + 1}], seq[m + 1])
        BY <3>1
      <4> HIDE DEF g
      <4> QED BY <4>1, <4>2, <4>3, <4>4
    <3>2. CASE m + 1 \notin s
      <4>1. s \in SUBSET (1..m)
        BY <3>2, <2>0
      <4>2. f[s] = IF s = {} THEN base ELSE Op(f[s \ {Max(s)}], seq[Max(s)])
        BY <4>1, <2>1
      <4>3. s \ {Max(s)} \in SUBSET (1..(m+1)) /\ m + 1 \notin s \ {Max(s)}
        BY <3>2
      <4>4. g[s \ {Max(s)}] = f[s \ {Max(s)}] /\ g[s] = f[s]
        BY <4>3, <3>2
      <4> HIDE DEF g
      <4> QED BY <4>2, <4>4
    <3> QED BY <3>1, <3>2
  <2>3. g = [s \in SUBSET (1..(m+1)) |-> g[s]]
    OBVIOUS
  <2>4. Rec(g, m + 1)
    <3> HIDE DEF g
    <3> QED BY <2>2
  <2> HIDE DEF g, Rec
  <2> QED BY <2>0, <2>3, <2>4
<1>3. n \in P
  <2> HIDE DEF P
  <2>1. P = Nat
    BY <1>1, <1>2, Induction, P \subseteq Nat DEF P
  <2> QED BY <2>1
<1> DEFINE Eq(f) == f = [s \in SUBSET (1..n) |->
               IF s = {} THEN base ELSE Op(f[s \ {Max(s)}], seq[Max(s)])]
           iter == CHOOSE f : Eq(f)
<1>4. Folded(base, seq) = iter[1..n]
  BY DEF Folded, FoldLeft, MapThenFoldSet
<1>5. Eq(iter)
  <2>1. \E f : Eq(f)
    <3>1. PICK f : f = [s \in SUBSET (1..n) |-> f[s]] /\ Rec(f, n)
      BY <1>3
    <3> QED BY <3>1
  <2> HIDE DEF Eq
  <2> QED BY <2>1
<1> HIDE DEF iter
<1>6. iter[{}] = base
  BY <1>5
<1>7. ASSUME NEW k \in 1..n PROVE iter[1..k] = Op(iter[1..(k - 1)], seq[k])
  <2>1. 1..k \in SUBSET (1..n) /\ 1..k # {} /\ k \in Nat /\ k \in 1..k
    OBVIOUS
  <2>2. Max(1..k) = k
    <3>1. Max(1..k) \in 1..k /\ Max(1..k) >= k
      BY <2>1, MaxIsMember
    <3> QED BY <3>1
  <2>3. (1..k) \ {k} = 1..(k - 1)
    BY <2>1
  
  <2> QED BY <1>5, <2>1, <2>2, <2>3
<1> DEFINE v == [k \in 0..n |-> iter[1..k]]
<1>8. v = [k \in 0..n |-> v[k]] /\ v[0] = base /\ v[n] = iter[1..n]
  BY <1>6
<1>9. ASSUME NEW k \in 1..n PROVE v[k] = Op(v[k - 1], seq[k])
  <2>1. k \in 0..n /\ k - 1 \in 0..n
    OBVIOUS
  <2>2. v[k] = iter[1..k] /\ v[k - 1] = iter[1..(k - 1)]
    BY <2>1
  <2> HIDE DEF v
  <2> QED BY <1>7, <2>2
<1> HIDE DEF v
<1> QED BY <1>4, <1>8, <1>9 DEF Steps

-----------------------------------------------------------------------------
(* Sums over finite sets: the community modules' MapThenSumSet, with       *)
(* Op(a, x) as the amount that x has in the account a.                     *)

Total(a, S) == MapThenSumSet(LAMBDA x : Op(a, x), S)

Pick(s) == CHOOSE x \in s : TRUE

\* The recursion that MapThenSumSet unfolds to, on the subsets of U.
Sums(f, a, U) ==
  f = [s \in SUBSET U |-> IF s = {} THEN 0 ELSE Op(a, Pick(s)) + f[s \ {Pick(s)}]]

Summing(a, U) == CHOOSE f : Sums(f, a, U)

\* A set of finite sets that is closed under adding what Pick takes away holds
\* all finite sets: induction on their cardinality.
LEMMA SumExists ==
  ASSUME NEW a, NEW U, IsFiniteSet(U)
  PROVE  Sums(Summing(a, U), a, U)
<1> DEFINE D(n) == {s \in SUBSET U : Cardinality(s) <= n}
           On(f, n) == /\ f = [s \in D(n) |-> f[s]]
                       /\ \A s \in D(n) : f[s] = IF s = {} THEN 0
                                            ELSE Op(a, Pick(s)) + f[s \ {Pick(s)}]
           P == {n \in Nat : \E f : On(f, n)}
<1>1. ASSUME NEW s \in SUBSET U, s # {}
      PROVE  /\ IsFiniteSet(s) /\ Pick(s) \in s /\ s \ {Pick(s)} \in SUBSET U
             /\ Cardinality(s) \in Nat /\ Cardinality(s \ {Pick(s)}) = Cardinality(s) - 1
  <2>1. IsFiniteSet(s)
    BY FS_Subset
  <2>2. Pick(s) \in s
    BY <1>1 DEF Pick
  <2> QED BY <2>1, <2>2, FS_CardinalityType, FS_RemoveElement
<1>2. {} \in SUBSET U /\ Cardinality({}) = 0
  BY FS_EmptySet
<1>3. 0 \in P
  <2> DEFINE f == [s \in D(0) |-> 0]
  <2>1. ASSUME NEW s \in D(0) PROVE s = {}
    <3>1. IsFiniteSet(s) /\ Cardinality(s) \in Nat /\ Cardinality(s) <= 0
      BY FS_Subset, FS_CardinalityType
    <3> QED BY <3>1, FS_EmptySet
  <2>2. On(f, 0)
    BY <2>1
  <2> HIDE DEF f, On
  <2> QED BY <2>2
<1>4. ASSUME NEW n \in P PROVE n + 1 \in P
  <2>1. PICK f : On(f, n)
    OBVIOUS
  <2>2. n \in Nat /\ n + 1 \in Nat
    OBVIOUS
  <2> DEFINE g == [s \in D(n + 1) |-> IF s \in D(n) THEN f[s]
                                      ELSE Op(a, Pick(s)) + f[s \ {Pick(s)}]]
  <2>3. ASSUME NEW s \in D(n + 1)
        PROVE  g[s] = IF s = {} THEN 0 ELSE Op(a, Pick(s)) + g[s \ {Pick(s)}]
    <3>1. CASE s = {}
      <4>1. s \in D(n)
        BY <3>1, <1>2, <2>2
      <4>2. g[s] = f[s] /\ f[s] = 0
        BY <4>1, <3>1, <2>1
      <4> QED BY <4>2, <3>1
    <3>2. CASE s # {}
      <4> DEFINE r == s \ {Pick(s)}
      <4>1. Cardinality(s) <= n + 1 /\ s \in SUBSET U
        OBVIOUS
      <4>2. /\ r \in SUBSET U /\ Cardinality(r) = Cardinality(s) - 1
            /\ Cardinality(s) \in Nat
        BY <1>1, <3>2
      <4>3. Cardinality(r) <= n /\ Cardinality(r) <= n + 1
        BY ONLY <4>1, <4>2, <2>2
      <4>4. r \in D(n) /\ r \in D(n + 1)
        BY ONLY <4>2, <4>3
      <4>5. g[r] = f[r]
        BY <4>4
      <4>6. s \in D(n) => f[s] = Op(a, Pick(s)) + f[r]
        BY <2>1, <3>2
      <4>7. g[s] = Op(a, Pick(s)) + f[r]
        BY <4>6
      <4> HIDE DEF g
      <4> QED BY <4>5, <4>7, <3>2
    <3> QED BY <3>1, <3>2
  <2>4. g = [s \in D(n + 1) |-> g[s]]
    OBVIOUS
  <2>5. On(g, n + 1)
    <3> HIDE DEF g
    <3> QED BY <2>3, <2>4
  <2> HIDE DEF g, On
  <2> QED BY <2>2, <2>5
<1>5. P = Nat
  <2> HIDE DEF On
  <2>1. P \subseteq Nat
    OBVIOUS
  <2> HIDE DEF P
  <2> QED BY <1>3, <1>4, <2>1, Induction
<1>6. \E f : Sums(f, a, U)
  <2>1. Cardinality(U) \in Nat
    BY FS_CardinalityType
  <2>2. PICK f : On(f, Cardinality(U))
    BY <1>5, <2>1
  <2>3. ASSUME NEW s \in SUBSET U PROVE Cardinality(s) <= Cardinality(U)
    BY FS_Subset
  <2>4. D(Cardinality(U)) = SUBSET U
    BY <2>3
  <2> QED BY <2>2, <2>4 DEF Sums
<1> QED BY <1>6 DEF Summing

LEMMA TotalIs ==
  ASSUME NEW a, NEW S
  PROVE  Total(a, S) = Summing(a, S)[S]
BY DEF Total, Summing, Sums, Pick, MapThenSumSet, MapThenFoldSet

\* The sum over a set does not depend on the set it was computed in.
LEMMA SumIsLocal ==
  ASSUME NEW a, NEW U, IsFiniteSet(U), NEW s \in SUBSET U
  PROVE  Summing(a, U)[s] = Total(a, s)
<1> DEFINE Q == {n \in Nat : \A V, t : /\ IsFiniteSet(V) /\ t \in SUBSET V
                                       /\ Cardinality(t) = n
                                       => Summing(a, V)[t] = Total(a, t)}
<1>1. ASSUME NEW V, IsFiniteSet(V), NEW t \in SUBSET V
      PROVE  /\ IsFiniteSet(t) /\ Cardinality(t) \in Nat
             /\ t = {} => Summing(a, V)[t] = 0
             /\ t # {} => /\ Pick(t) \in t
                          /\ Cardinality(t \ {Pick(t)}) = Cardinality(t) - 1
                          /\ Summing(a, V)[t] = Op(a, Pick(t)) + Summing(a, V)[t \ {Pick(t)}]
  <2>1. IsFiniteSet(t)
    BY <1>1, FS_Subset
  <2>2. t # {} => Pick(t) \in t
    BY DEF Pick
  <2>3. Sums(Summing(a, V), a, V)
    BY <1>1, SumExists
  <2>4. Cardinality(t) \in Nat
    BY <2>1, FS_CardinalityType
  <2>5. ASSUME NEW x \in t PROVE Cardinality(t \ {x}) = Cardinality(t) - 1
    BY ONLY <2>1, FS_RemoveElement
  <2>6. /\ t = {} => Summing(a, V)[t] = 0
        /\ t # {} => Summing(a, V)[t] = Op(a, Pick(t)) + Summing(a, V)[t \ {Pick(t)}]
    BY <2>3, <1>1 DEF Sums
  <2> QED BY <2>1, <2>2, <2>4, <2>5, <2>6
<1>2. 0 \in Q
  <2> SUFFICES ASSUME NEW V, NEW t, IsFiniteSet(V), t \in SUBSET V, Cardinality(t) = 0
               PROVE  Summing(a, V)[t] = Total(a, t)
    OBVIOUS
  <2>1. IsFiniteSet(t)
    BY <1>1
  <2>2. t = {}
    BY <2>1, FS_EmptySet
  <2>3. Summing(a, V)[t] = 0 /\ Summing(a, t)[t] = 0
    BY <1>1, <2>1, <2>2
  <2> QED BY <2>3, TotalIs
<1>3. ASSUME NEW n \in Q PROVE n + 1 \in Q
  <2>1. n \in Nat /\ n + 1 \in Nat
    OBVIOUS
  <2>2. ASSUME NEW V, NEW t, IsFiniteSet(V), t \in SUBSET V, Cardinality(t) = n + 1
        PROVE  Summing(a, V)[t] = Total(a, t)
    <3> DEFINE r == t \ {Pick(t)}
    <3>1. IsFiniteSet(t) /\ t # {}
      <4>1. IsFiniteSet(t)
        BY <2>2, <1>1
      <4> QED BY <4>1, <2>1, <2>2, FS_EmptySet
    <3>2. Cardinality(r) = n /\ r \in SUBSET V /\ r \in SUBSET t
      <4>1. Cardinality(r) = Cardinality(t) - 1
        BY <3>1, <2>2, <1>1
      <4>2. Cardinality(r) = n
        BY ONLY <4>1, <2>1, Cardinality(t) = n + 1, <2>2
      <4> QED BY <4>2, <2>2
    <3>3. Summing(a, V)[r] = Total(a, r) /\ Summing(a, t)[r] = Total(a, r)
      BY <2>1, <2>2, <3>1, <3>2
    <3>4. /\ Summing(a, V)[t] = Op(a, Pick(t)) + Summing(a, V)[r]
          /\ Summing(a, t)[t] = Op(a, Pick(t)) + Summing(a, t)[r]
      <4>1. t \in SUBSET t
        OBVIOUS
      <4> QED BY <1>1, <2>2, <3>1, <4>1
    <3> HIDE DEF r
    <3> QED BY <3>3, <3>4, TotalIs
  <2> QED BY <2>1, <2>2
<1>4. Q = Nat
  <2>1. Q \subseteq Nat
    OBVIOUS
  <2> HIDE DEF Q
  <2> QED BY <1>2, <1>3, <2>1, Induction
<1>5. IsFiniteSet(s) /\ Cardinality(s) \in Nat
  BY <1>1
<1> QED BY <1>4, <1>5

\* Only Pick's own choice is taken off by definition.
LEMMA TotalPick ==
  ASSUME NEW a, NEW S, IsFiniteSet(S)
  PROVE  Total(a, S) = IF S = {} THEN 0 ELSE Op(a, Pick(S)) + Total(a, S \ {Pick(S)})
<1>1. Sums(Summing(a, S), a, S)
  BY SumExists
<1>2. S \in SUBSET S /\ S \ {Pick(S)} \in SUBSET S
  OBVIOUS
<1>3. Summing(a, S)[S \ {Pick(S)}] = Total(a, S \ {Pick(S)})
  BY <1>2, SumIsLocal
<1> QED BY <1>1, <1>2, <1>3, TotalIs DEF Sums

Amounts(a, S) == \A x \in S : Op(a, x) \in Int

\* Any element can be taken off first.
LEMMA TotalTake ==
  ASSUME NEW a, NEW S, IsFiniteSet(S), Amounts(a, S)
  PROVE  /\ Total(a, S) \in Int
         /\ \A x \in S : Total(a, S) = Op(a, x) + Total(a, S \ {x})
<1> DEFINE Good(s) == /\ Total(a, s) \in Int
                      /\ \A x \in s : Total(a, s) = Op(a, x) + Total(a, s \ {x})
           Q == {n \in Nat : \A s \in SUBSET S : Cardinality(s) <= n => Good(s)}
<1>1. ASSUME NEW s \in SUBSET S
      PROVE  IsFiniteSet(s) /\ Cardinality(s) \in Nat
  BY FS_Subset, FS_CardinalityType
<1>2. 0 \in Q
  <2> SUFFICES ASSUME NEW s \in SUBSET S, Cardinality(s) <= 0 PROVE Good(s)
    OBVIOUS
  <2>1. s = {}
    BY <1>1, FS_EmptySet
  <2>2. Total(a, s) = 0
    BY <2>1, <1>1, TotalPick
  <2> QED BY <2>1, <2>2
<1>3. ASSUME NEW n \in Q PROVE n + 1 \in Q
  <2>1. n \in Nat /\ n + 1 \in Nat
    OBVIOUS
  <2>2. ASSUME NEW s \in SUBSET S, Cardinality(s) = n + 1 PROVE Good(s)
    <3> DEFINE c == Pick(s)
    <3>1. s # {} /\ IsFiniteSet(s)
      BY <2>1, <2>2, <1>1, FS_EmptySet
    <3>2. c \in s
      BY <3>1 DEF Pick
    <3>3. Total(a, s) = Op(a, c) + Total(a, s \ {c})
      BY <3>1, TotalPick
    <3>4. ASSUME NEW x \in s
          PROVE  s \ {x} \in SUBSET S /\ Cardinality(s \ {x}) = n /\ Op(a, x) \in Int
      <4>1. Cardinality(s \ {x}) = Cardinality(s) - 1
        BY <3>1, FS_RemoveElement
      <4>2. Cardinality(s \ {x}) = n
        BY ONLY <4>1, <2>1, <2>2
      <4> QED BY <4>2 DEF Amounts
    <3> HIDE DEF Good, c
    <3>5. ASSUME NEW x \in s PROVE Good(s \ {x})
      <4>1. s \ {x} \in SUBSET S /\ Cardinality(s \ {x}) <= n
        BY <3>4, <2>1
      <4> QED BY <4>1, <2>1
    <3>6. Total(a, s) \in Int
      <4>1. Total(a, s \ {c}) \in Int
        BY <3>2, <3>5 DEF Good
      <4>2. Op(a, c) \in Int
        BY <3>2, <3>4
      <4> QED BY ONLY <3>3, <4>1, <4>2
    <3>7. ASSUME NEW x \in s PROVE Total(a, s) = Op(a, x) + Total(a, s \ {x})
      <4>1. CASE x = c
        BY <4>1, <3>3
      <4>2. CASE x # c
        <5> DEFINE rest == (s \ {c}) \ {x}
        <5>1. rest = (s \ {x}) \ {c} /\ x \in s \ {c} /\ c \in s \ {x}
          BY <4>2, <3>2
        <5>2. /\ Total(a, s \ {c}) = Op(a, x) + Total(a, rest)
              /\ Total(a, s \ {x}) = Op(a, c) + Total(a, rest)
          BY <5>1, <3>2, <3>5 DEF Good
        <5>3. Total(a, s \ {c}) \in Int /\ Total(a, s \ {x}) \in Int
          BY <3>2, <3>5 DEF Good
        <5>4. Total(a, rest) \in Int
          <6>1. rest \in SUBSET S /\ IsFiniteSet(s \ {c}) /\ rest \in SUBSET (s \ {c})
            BY <1>1, <3>4, <3>2
          <6>2. Cardinality(rest) <= n
            BY <6>1, <3>4, <3>2, <1>1, FS_Subset
          <6> QED BY <6>1, <6>2, <2>1 DEF Good
        <5>5. Op(a, x) \in Int /\ Op(a, c) \in Int
          BY <3>4, <3>2
        <5> HIDE DEF rest
        <5> QED BY <3>3, <5>2, <5>3, <5>4, <5>5
      <4> QED BY <4>1, <4>2
    <3> QED BY <3>6, <3>7 DEF Good
  <2>3. ASSUME NEW s \in SUBSET S, Cardinality(s) <= n + 1 PROVE Good(s)
    <3> HIDE DEF Good
    <3>1. Cardinality(s) \in Nat
      BY <1>1
    <3>2. Cardinality(s) = n + 1 \/ Cardinality(s) <= n
      BY <2>1, <2>3, <3>1
    <3> QED BY <2>1, <2>2, <3>2
  <2> HIDE DEF Good
  <2> QED BY <2>1, <2>3
<1>4. Q = Nat
  <2>1. Q \subseteq Nat
    OBVIOUS
  <2> HIDE DEF Q
  <2> QED BY <1>2, <1>3, <2>1, Induction
<1>5. Good(S)
  <2>1. S \in SUBSET S /\ Cardinality(S) \in Nat
    BY <1>1
  <2> QED BY <1>4, <2>1
<1> QED BY <1>5

LEMMA TotalEmpty ==
  ASSUME NEW a
  PROVE  Total(a, {}) = 0
BY TotalPick, FS_EmptySet

LEMMA TotalAdd ==
  ASSUME NEW a, NEW S, IsFiniteSet(S), NEW x, x \notin S, Amounts(a, S), Op(a, x) \in Int
  PROVE  Total(a, S \cup {x}) = Op(a, x) + Total(a, S)
<1>1. IsFiniteSet(S \cup {x}) /\ Amounts(a, S \cup {x}) /\ x \in S \cup {x}
  BY FS_AddElement DEF Amounts
<1>2. (S \cup {x}) \ {x} = S
  OBVIOUS
<1> QED BY <1>1, <1>2, TotalTake

\* The members of a finite set one after the other: a set of subsets that holds
\* {} and, with each, every one of one element more, holds the set itself.
LEMMA SubsetInduction ==
  ASSUME NEW S, IsFiniteSet(S), NEW C, {} \in C,
         \A s \in SUBSET S : \A x \in S \ s : s \in C => s \cup {x} \in C
  PROVE  S \in C
<1> DEFINE Q == {n \in Nat : \A s \in SUBSET S : Cardinality(s) = n => s \in C}
<1>1. ASSUME NEW s \in SUBSET S
      PROVE  IsFiniteSet(s) /\ Cardinality(s) \in Nat
  BY FS_Subset, FS_CardinalityType
<1>2. 0 \in Q
  BY <1>1, FS_EmptySet
<1>3. ASSUME NEW n \in Q PROVE n + 1 \in Q
  <2>1. n \in Nat /\ n + 1 \in Nat
    OBVIOUS
  <2>2. ASSUME NEW s \in SUBSET S, Cardinality(s) = n + 1 PROVE s \in C
    <3>1. s # {} /\ IsFiniteSet(s)
      BY <2>1, <2>2, <1>1, FS_EmptySet
    <3>2. PICK x \in s : TRUE
      BY <3>1
    <3>3. Cardinality(s \ {x}) = Cardinality(s) - 1
      BY <3>1, FS_RemoveElement
    <3>4. Cardinality(s \ {x}) = n
      BY ONLY <3>3, <2>1, <2>2
    <3>5. s \ {x} \in C /\ s \ {x} \in SUBSET S /\ x \in S \ (s \ {x})
      BY <3>4
    <3>6. (s \ {x}) \cup {x} = s
      OBVIOUS
    <3> QED BY <3>5, <3>6
  <2> QED BY <2>1, <2>2
<1>4. Q = Nat
  <2>1. Q \subseteq Nat
    OBVIOUS
  <2> HIDE DEF Q
  <2> QED BY <1>2, <1>3, <2>1, Induction
<1> QED BY <1>1, <1>4

LEMMA TotalNat ==
  ASSUME NEW a, NEW S, IsFiniteSet(S), \A x \in S : Op(a, x) \in Nat
  PROVE  Total(a, S) \in Nat
<1> DEFINE C == {s \in SUBSET S : Total(a, s) \in Nat}
<1>1. {} \in C
  BY TotalEmpty
<1>2. ASSUME NEW s \in SUBSET S, NEW x \in S \ s, s \in C
      PROVE  s \cup {x} \in C
  <2>1. IsFiniteSet(s) /\ Amounts(a, s) /\ Op(a, x) \in Nat
    BY FS_Subset DEF Amounts
  <2>2. Total(a, s \cup {x}) = Op(a, x) + Total(a, s)
    BY <2>1, TotalAdd
  <2>3. Total(a, s) \in Nat
    BY <1>2
  <2>4. Total(a, s \cup {x}) \in Nat
    BY ONLY <2>1, <2>2, <2>3
  <2> QED BY <2>4
<1> HIDE DEF C
<1>3. S \in C
  BY <1>1, <1>2, SubsetInduction
<1> QED BY <1>3 DEF C

\* Sums of disjoint sets add up.
LEMMA TotalUnion ==
  ASSUME NEW a, NEW S, NEW T, IsFiniteSet(S), IsFiniteSet(T), S \cap T = {},
         Amounts(a, S), Amounts(a, T)
  PROVE  Total(a, S \cup T) = Total(a, S) + Total(a, T)
<1> DEFINE C == {t \in SUBSET T : Total(a, S \cup t) = Total(a, S) + Total(a, t)}
<1>0. Total(a, S) \in Int
  BY TotalTake
<1>1. {} \in C
  <2>1. S \cup {} = S
    OBVIOUS
  <2> QED BY <2>1, <1>0, TotalEmpty
<1>2. ASSUME NEW t \in SUBSET T, NEW x \in T \ t, t \in C
      PROVE  t \cup {x} \in C
  <2>1. IsFiniteSet(t) /\ Amounts(a, t) /\ Op(a, x) \in Int
    BY FS_Subset DEF Amounts
  <2>2. IsFiniteSet(S \cup t) /\ Amounts(a, S \cup t) /\ x \notin S \cup t
    BY <2>1, FS_Union DEF Amounts
  <2>3. Total(a, t \cup {x}) = Op(a, x) + Total(a, t)
    BY <2>1, TotalAdd
  <2>4. Total(a, (S \cup t) \cup {x}) = Op(a, x) + Total(a, S \cup t)
    BY <2>1, <2>2, TotalAdd
  <2>5. Total(a, S \cup t) = Total(a, S) + Total(a, t)
    BY <1>2
  <2>6. Total(a, t) \in Int
    BY <2>1, TotalTake
  <2>7. (S \cup t) \cup {x} = S \cup (t \cup {x})
    OBVIOUS
  <2>8. Total(a, S \cup (t \cup {x})) = Op(a, x) + Total(a, S \cup t)
    BY ONLY <2>4, <2>7, Zenon
  <2>9. Total(a, S \cup (t \cup {x})) = Total(a, S) + Total(a, t \cup {x})
    BY ONLY <1>0, <2>1, <2>3, <2>5, <2>6, <2>8
  <2> QED BY <2>9
<1> HIDE DEF C
<1>3. T \in C
  BY <1>1, <1>2, SubsetInduction
<1> QED BY <1>3 DEF C

\* What is left when a part is taken out.
LEMMA TotalWithout ==
  ASSUME NEW a, NEW S, IsFiniteSet(S), NEW T \in SUBSET S, Amounts(a, S)
  PROVE  Total(a, S \ T) = Total(a, S) - Total(a, T)
<1>1. IsFiniteSet(T) /\ IsFiniteSet(S \ T) /\ Amounts(a, T) /\ Amounts(a, S \ T)
  BY FS_Subset, FS_Difference DEF Amounts
<1>2. (S \ T) \cup T = S /\ (S \ T) \cap T = {}
  OBVIOUS
<1>3. Total(a, S) = Total(a, S \ T) + Total(a, T)
  BY <1>1, <1>2, TotalUnion
<1>4. Total(a, T) \in Int /\ Total(a, S \ T) \in Int
  BY <1>1, TotalTake
<1> QED BY ONLY <1>3, <1>4

\* Accounts that give each member the same amount have the same total.
LEMMA TotalSame ==
  ASSUME NEW a, NEW b, NEW S, IsFiniteSet(S), Amounts(a, S),
         \A x \in S : Op(a, x) = Op(b, x)
  PROVE  Total(a, S) = Total(b, S)
<1> DEFINE C == {s \in SUBSET S : Total(a, s) = Total(b, s)}
<1>1. {} \in C
  BY TotalEmpty
<1>2. ASSUME NEW s \in SUBSET S, NEW x \in S \ s, s \in C
      PROVE  s \cup {x} \in C
  <2>1. /\ IsFiniteSet(s) /\ Amounts(a, s) /\ Amounts(b, s)
        /\ Op(a, x) \in Int /\ Op(b, x) = Op(a, x)
    BY FS_Subset DEF Amounts
  <2>2. /\ Total(a, s \cup {x}) = Op(a, x) + Total(a, s)
        /\ Total(b, s \cup {x}) = Op(b, x) + Total(b, s)
    BY <2>1, TotalAdd
  <2>3. Total(a, s) = Total(b, s)
    BY <1>2
  <2>4. Total(a, s \cup {x}) = Total(b, s \cup {x})
    BY ONLY <2>1, <2>2, <2>3
  <2> QED BY <2>4
<1> HIDE DEF C
<1>3. S \in C
  BY <1>1, <1>2, SubsetInduction
<1> QED BY <1>3 DEF C

\* The total of sums is the sum of the totals.
LEMMA TotalPlus ==
  ASSUME NEW a, NEW b, NEW c, NEW S, IsFiniteSet(S), Amounts(a, S), Amounts(b, S),
         \A x \in S : Op(c, x) = Op(a, x) + Op(b, x)
  PROVE  Total(c, S) = Total(a, S) + Total(b, S)
<1> DEFINE C == {s \in SUBSET S : Total(c, s) = Total(a, s) + Total(b, s)}
<1>1. {} \in C
  BY TotalEmpty
<1>2. ASSUME NEW s \in SUBSET S, NEW x \in S \ s, s \in C
      PROVE  s \cup {x} \in C
  <2>1. /\ IsFiniteSet(s) /\ Amounts(a, s) /\ Amounts(b, s) /\ Amounts(c, s)
        /\ Op(a, x) \in Int /\ Op(b, x) \in Int /\ Op(c, x) = Op(a, x) + Op(b, x)
    BY FS_Subset DEF Amounts
  <2>2. /\ Total(a, s \cup {x}) = Op(a, x) + Total(a, s)
        /\ Total(b, s \cup {x}) = Op(b, x) + Total(b, s)
        /\ Total(c, s \cup {x}) = Op(c, x) + Total(c, s)
    BY <2>1, TotalAdd
  <2>3. Total(c, s) = Total(a, s) + Total(b, s)
    BY <1>2
  <2>4. Total(a, s) \in Int /\ Total(b, s) \in Int
    BY <2>1, TotalTake
  <2>5. Total(c, s \cup {x}) = Total(a, s \cup {x}) + Total(b, s \cup {x})
    BY ONLY <2>1, <2>2, <2>3, <2>4
  <2> QED BY <2>5
<1> HIDE DEF C
<1>3. S \in C
  BY <1>1, <1>2, SubsetInduction
<1> QED BY <1>3 DEF C

\* Nothing adds up to nothing.
LEMMA TotalZero ==
  ASSUME NEW a, NEW S, IsFiniteSet(S), \A x \in S : Op(a, x) = 0
  PROVE  Total(a, S) = 0
<1>1. Amounts(a, S) /\ \A x \in S : Op(a, x) = Op(a, x) + Op(a, x)
  BY DEF Amounts
<1>2. Total(a, S) = Total(a, S) + Total(a, S) /\ Total(a, S) \in Int
  BY <1>1, TotalPlus, TotalTake
<1>3. PICK n : n = Total(a, S)
  OBVIOUS
<1>4. n = n + n /\ n \in Int
  BY ONLY <1>2, <1>3
<1>5. n = 0
  BY ONLY <1>4
<1> QED BY ONLY <1>3, <1>5
=============================================================================
