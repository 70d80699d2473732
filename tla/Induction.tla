----------------------------- MODULE Induction -----------------------------
(***************************************************************************)
(* Induction and folds for the proofs, without a lemma that takes an       *)
(* operator: a predicate is a set T of naturals, or of sets, and the step  *)
(* of a fold is a function F on pairs.  What is used of well-foundedness   *)
(* is that a set of naturals has a least element.                          *)
(*                                                                         *)
(* FoldLeft and the like are defined by a CHOOSE of the function that      *)
(* satisfies the recursion.  To know anything of it, one has to know that  *)
(* there is such a function: that is what FoldExists says.                 *)
(***************************************************************************)
EXTENDS Integers, Sequences, SequencesExt, FiniteSetTheorems, TLAPS

\* Every set of naturals but the empty one has a least element.
LEMMA Least ==
    ASSUME NEW T \in SUBSET Nat, T # {}
    PROVE  \E n \in T : \A m \in T : n <= m
<1> DEFINE R == OpToRel(<, Nat)
<1>1. IsWellFoundedOn(R, Nat)
  BY NatLessThanWellFounded
<1>2. PICK n \in T : \A m \in T : ~(<<m, n>> \in R)
  BY <1>1, WFMin
<1>3. ASSUME NEW m \in T PROVE n <= m
  <2>1. <<m, n>> \notin R
    BY <1>2
  <2>2. ~(m < n)
    BY <2>1 DEF OpToRel
  <2>. QED BY <2>2
<1>. QED BY <1>3

\* g[s] folds s, taking pick[s] out last.
Unfolds(g, s, base, pick, F) ==
    g[s] = IF s = {} THEN base ELSE F[<<g[s \ {pick[s]}], pick[s]>>]

\* There is such a function as far as sets of n elements.
UpTo(n, S, D, base, pick, F) ==
    \E g \in [SUBSET S -> D] :
        \A s \in SUBSET S : Cardinality(s) <= n => Unfolds(g, s, base, pick, F)

\* The recursion over the subsets of a finite set has a solution.
LEMMA FoldExists ==
    ASSUME NEW S, IsFiniteSet(S), NEW D, NEW base \in D,
           NEW pick, \A s \in SUBSET S : s # {} => pick[s] \in s,
           NEW F, \A a \in D, x \in S : F[<<a, x>>] \in D
    PROVE  \E g \in [SUBSET S -> D] : \A s \in SUBSET S : Unfolds(g, s, base, pick, F)
<1> DEFINE T == {n \in Nat : ~UpTo(n, S, D, base, pick, F)}
<1>0. \A s \in SUBSET S : IsFiniteSet(s) /\ Cardinality(s) \in Nat
  BY FS_Subset, FS_CardinalityType
<1>1. UpTo(0, S, D, base, pick, F)
  <2> DEFINE g == [s \in SUBSET S |-> base]
  <2>1. g \in [SUBSET S -> D]
    OBVIOUS
  <2>2. \A s \in SUBSET S : Cardinality(s) <= 0 => s = {}
    BY <1>0, FS_EmptySet
  <2>3. \A s \in SUBSET S : Cardinality(s) <= 0 => Unfolds(g, s, base, pick, F)
    BY <2>2 DEF Unfolds
  <2>. QED BY <2>1, <2>3 DEF UpTo
<1>2. ASSUME NEW n \in Nat, UpTo(n, S, D, base, pick, F)
      PROVE  UpTo(n + 1, S, D, base, pick, F)
  <2>1. PICK g \in [SUBSET S -> D] :
               \A s \in SUBSET S : Cardinality(s) <= n => Unfolds(g, s, base, pick, F)
    BY <1>2 DEF UpTo
  <2> DEFINE h == [s \in SUBSET S |-> IF Cardinality(s) <= n THEN g[s]
                     ELSE F[<<g[s \ {pick[s]}], pick[s]>>]]
  <2>2. ASSUME NEW s \in SUBSET S, s # {}
        PROVE  /\ pick[s] \in s /\ pick[s] \in S /\ s \ {pick[s]} \in SUBSET S
               /\ Cardinality(s \ {pick[s]}) = Cardinality(s) - 1
    BY <1>0, <2>2, FS_RemoveElement
  <2>3. ASSUME NEW s \in SUBSET S, ~(Cardinality(s) <= n) PROVE s # {}
    <3> HIDE DEF h
    <3>1. Cardinality(s) # 0
      BY <1>0, <2>3
    <3>2. Cardinality({}) = 0
      BY FS_EmptySet
    <3>. QED BY <3>1, <3>2
  <2>4. h \in [SUBSET S -> D]
    <3>1. ASSUME NEW s \in SUBSET S PROVE h[s] \in D
      <4>1. CASE Cardinality(s) <= n
        BY <4>1
      <4>2. CASE ~(Cardinality(s) <= n)
        <5>1. pick[s] \in S /\ g[s \ {pick[s]}] \in D
          BY <2>2, <2>3, <4>2
        <5>. QED BY <5>1, <4>2
      <4>. QED BY <4>1, <4>2
    <3>. QED BY <3>1
  <2>5. ASSUME NEW s \in SUBSET S, Cardinality(s) <= n + 1
        PROVE  Unfolds(h, s, base, pick, F)
    <3>1. CASE s = {}
      <4>1. Cardinality(s) <= n
        BY <3>1, FS_EmptySet
      <4>. QED BY <2>1, <3>1, <4>1 DEF Unfolds
    <3>2. CASE s # {}
      <4>1. h[s \ {pick[s]}] = g[s \ {pick[s]}]
        BY <1>0, <2>2, <2>5, <3>2
      <4>2. h[s] = F[<<g[s \ {pick[s]}], pick[s]>>]
        BY <2>1, <3>2 DEF Unfolds
      <4>. QED BY <4>1, <4>2, <3>2 DEF Unfolds
    <3>. QED BY <3>1, <3>2
  <2>. QED BY <2>4, <2>5 DEF UpTo
<1>3. T = {}
  <2> SUFFICES ASSUME T # {} PROVE FALSE
    OBVIOUS
  <2>0. T \in SUBSET Nat
    OBVIOUS
  <2>1. PICK n \in T : \A m \in T : n <= m
    <3> HIDE DEF T
    <3>. QED BY <2>0, Least
  <2>2. n # 0 /\ n \in Nat
    BY <1>1
  <2>3. n - 1 \in Nat /\ n - 1 \notin T
    <3> HIDE DEF T
    <3>. QED BY <2>1, <2>2
  <2>4. UpTo(n, S, D, base, pick, F)
    <3>1. UpTo(n - 1, S, D, base, pick, F)
      BY <2>3
    <3>2. n - 1 + 1 = n
      BY <2>2
    <3>. QED BY <1>2, <2>3, <3>1, <3>2
  <2>. QED BY <2>4
<1>4. Cardinality(S) \in Nat
  BY FS_CardinalityType
<1>5. PICK g \in [SUBSET S -> D] :
             \A s \in SUBSET S : Cardinality(s) <= Cardinality(S) => Unfolds(g, s, base, pick, F)
  BY <1>3, <1>4 DEF UpTo
<1>6. \A s \in SUBSET S : Cardinality(s) <= Cardinality(S)
  BY FS_Subset
<1>. QED BY <1>5, <1>6

\* Induction over the naturals.
LEMMA NatInduct ==
    ASSUME NEW T, 0 \in T, \A n \in Nat : n \in T => n + 1 \in T
    PROVE  Nat \subseteq T
<1> SUFFICES ASSUME Nat \ T # {} PROVE FALSE
  OBVIOUS
<1>1. PICK n \in Nat \ T : \A m \in Nat \ T : n <= m
  <2>. DEFINE U == Nat \ T
  <2>1. U \in SUBSET Nat /\ U # {}
    OBVIOUS
  <2>2. \E n \in U : \A m \in U : n <= m
    <3>. HIDE DEF U
    <3>. QED BY <2>1, Least
  <2>. QED BY <2>2
<1>2. n - 1 \in Nat
  BY <1>1
<1>3. n - 1 \in T
  BY <1>1, <1>2
<1>. QED BY <1>1, <1>2, <1>3

\* Induction over the subsets of a finite set, one element at a time.
LEMMA SetInduct ==
    ASSUME NEW S, IsFiniteSet(S), NEW T, {} \in T,
           \A s \in SUBSET S, x \in S : s \in T /\ x \notin s => s \cup {x} \in T
    PROVE  \A s \in SUBSET S : s \in T
<1> DEFINE Of(n) == \A s \in SUBSET S : Cardinality(s) = n => s \in T
           N == {n \in Nat : Of(n)}
<1>0. \A s \in SUBSET S : IsFiniteSet(s) /\ Cardinality(s) \in Nat
  BY FS_Subset, FS_CardinalityType
<1>1. 0 \in N
  BY <1>0, FS_EmptySet
<1>2. ASSUME NEW n \in Nat, n \in N PROVE n + 1 \in N
  <2>1. ASSUME NEW s \in SUBSET S, Cardinality(s) = n + 1 PROVE s \in T
    <3>1. s # {}
      BY <2>1, FS_EmptySet
    <3>2. PICK x : x \in s
      BY <3>1
    <3>3. Cardinality(s \ {x}) = n
      <4>1. Cardinality(s \ {x}) = Cardinality(s) - 1
        BY <1>0, <3>2, FS_RemoveElement
      <4>. QED BY <2>1, <4>1
    <3>4. s \ {x} \in T
      BY <1>2, <3>3
    <3>5. (s \ {x}) \cup {x} = s
      BY <3>2
    <3>. QED BY <3>2, <3>4, <3>5
  <2>. QED BY <2>1
<1>3. Nat \subseteq N
  <2> HIDE DEF N
  <2>. QED BY <1>1, <1>2, NatInduct
<1>. QED BY <1>0, <1>3

\* What FoldLeft takes out of a set of positions.
LEMMA MaxOf ==
    ASSUME NEW n \in Nat, NEW s \in SUBSET (1..n), s # {}
    PROVE  Max(s) \in s /\ \A i \in s : i <= Max(s)
<1> DEFINE T == {n - i : i \in s}
<1>1. T \in SUBSET Nat /\ T # {}
  <2>1. \A i \in s : i \in 1..n /\ n - i \in Nat
    OBVIOUS
  <2>2. PICK i : i \in s
    OBVIOUS
  <2>. QED BY <2>1, <2>2
<1>2. PICK m \in T : \A k \in T : m <= k
  <2> HIDE DEF T
  <2>. QED BY <1>1, Least
<1>3. PICK k \in s : m = n - k
  BY <1>2
<1>4. ASSUME NEW i \in s PROVE k >= i
  <2>1. n - i \in T
    OBVIOUS
  <2>2. n - k <= n - i
    BY <1>2, <1>3, <2>1
  <2>. QED BY <2>2
<1>. QED BY <1>3, <1>4 DEF Max

LEMMA MaxInterval ==
    ASSUME NEW n \in Nat \ {0}
    PROVE  Max(1..n) = n /\ (1..n) \ {n} = 1..(n - 1)
<1>1. 1..n # {} /\ n \in 1..n
  OBVIOUS
<1>2. Max(1..n) \in 1..n /\ \A i \in 1..n : i <= Max(1..n)
  BY <1>1, MaxOf
<1>3. Max(1..n) = n
  BY <1>1, <1>2
<1>. QED BY <1>3

\* The recursion of FoldLeft over n positions.
LeftFolds(g, n, base, F) ==
    \A s \in SUBSET (1..n) :
        g[s] = IF s = {} THEN base ELSE F[<<g[s \ {Max(s)}], Max(s)>>]

LEMMA LeftFoldExists ==
    ASSUME NEW n \in Nat, NEW D, NEW base \in D,
           NEW F, \A a \in D, i \in 1..n : F[<<a, i>>] \in D
    PROVE  \E g \in [SUBSET (1..n) -> D] : LeftFolds(g, n, base, F)
<1> DEFINE pick == [s \in SUBSET (1..n) |-> Max(s)]
<1>1. IsFiniteSet(1..n)
  BY FS_Interval
<1>2. \A s \in SUBSET (1..n) : s # {} => pick[s] \in s
  BY MaxOf
<1>3. PICK g \in [SUBSET (1..n) -> D] : \A s \in SUBSET (1..n) : Unfolds(g, s, base, pick, F)
  <2> HIDE DEF pick
  <2>. QED BY <1>1, <1>2, FoldExists
<1>. QED BY <1>3 DEF Unfolds, LeftFolds

\* The beginnings 1..i are the sets that a fold over 1..n goes through.
LEMMA FirstOnes ==
    ASSUME NEW n \in Nat
    PROVE  /\ 1..0 = {}
           /\ \A i \in 0..n : 1..i \in SUBSET (1..n)
           /\ \A i \in 1..n : 1..i # {} /\ Max(1..i) = i /\ (1..i) \ {i} = 1..(i - 1)
           /\ \A s \in SUBSET (1..n) : s # {} => Max(s) \in 1..n /\ s \ {Max(s)} \in SUBSET (1..n)
<1>1. ASSUME NEW i \in 1..n PROVE Max(1..i) = i /\ (1..i) \ {i} = 1..(i - 1)
  BY MaxInterval
<1>2. ASSUME NEW s \in SUBSET (1..n), s # {} PROVE Max(s) \in 1..n
  BY <1>2, MaxOf
<1>3. \A i \in 1..n : i \in 1..i
  OBVIOUS
<1>4. \A i \in 1..n : 1..i # {}
  BY <1>3
<1>5. \A i \in 0..n : 1..i \in SUBSET (1..n)
  OBVIOUS
<1>6. 1..0 = {}
  OBVIOUS
<1>. QED BY <1>1, <1>2, <1>4, <1>5, <1>6

\* g[s] is the sum of w over s, as MapThenSumSet adds it up.
Sums(g, S, w) ==
    \A s \in SUBSET S :
        g[s] = IF s = {} THEN 0
               ELSE w[CHOOSE x \in s : TRUE] + g[s \ {CHOOSE x \in s : TRUE}]

LEMMA SumExists ==
    ASSUME NEW S, IsFiniteSet(S), NEW w, \A x \in S : w[x] \in Nat
    PROVE  \E g \in [SUBSET S -> Nat] : Sums(g, S, w)
<1> DEFINE pick == [s \in SUBSET S |-> CHOOSE x \in s : TRUE]
           F == [p \in Nat \X S |-> w[p[2]] + p[1]]
<1>1. \A s \in SUBSET S : s # {} => pick[s] \in s
  OBVIOUS
<1>2. \A a \in Nat, x \in S : F[<<a, x>>] = w[x] + a /\ F[<<a, x>>] \in Nat
  OBVIOUS
<1>3. PICK g \in [SUBSET S -> Nat] : \A s \in SUBSET S : Unfolds(g, s, 0, pick, F)
  <2> HIDE DEF pick, F
  <2>1. 0 \in Nat
    OBVIOUS
  <2>. QED BY <1>1, <1>2, <2>1, FoldExists
<1>4. ASSUME NEW s \in SUBSET S, s # {}
      PROVE  g[s] = w[CHOOSE x \in s : TRUE] + g[s \ {CHOOSE x \in s : TRUE}]
  <2> HIDE DEF F
  <2>1. pick[s] \in S /\ g[s \ {pick[s]}] \in Nat
    BY <1>1, <1>4
  <2>2. g[s] = F[<<g[s \ {pick[s]}], pick[s]>>]
    BY <1>3, <1>4 DEF Unfolds
  <2>3. g[s] = w[pick[s]] + g[s \ {pick[s]}]
    <3> HIDE DEF pick
    <3>. QED BY <1>2, <2>1, <2>2
  <2>. QED BY <2>3
<1>5. g[{}] = 0
  BY <1>3 DEF Unfolds
<1>. QED BY <1>4, <1>5 DEF Sums

LEMMA SumUnique ==
    ASSUME NEW S, IsFiniteSet(S), NEW w, NEW g, Sums(g, S, w), NEW h, Sums(h, S, w)
    PROVE  \A s \in SUBSET S : g[s] = h[s]
<1> DEFINE N == {n \in Nat : \A s \in SUBSET S : Cardinality(s) = n => g[s] = h[s]}
<1>0. \A s \in SUBSET S : IsFiniteSet(s) /\ Cardinality(s) \in Nat
  BY FS_Subset, FS_CardinalityType
<1>1. 0 \in N
  <2>1. \A s \in SUBSET S : Cardinality(s) = 0 => s = {}
    BY <1>0, FS_EmptySet
  <2>2. g[{}] = h[{}]
    BY DEF Sums
  <2>. QED BY <2>1, <2>2
<1>2. ASSUME NEW n \in Nat, n \in N PROVE n + 1 \in N
  <2>1. ASSUME NEW s \in SUBSET S, Cardinality(s) = n + 1 PROVE g[s] = h[s]
    <3> DEFINE x == CHOOSE x \in s : TRUE
    <3>1. s # {} /\ x \in s
      BY <2>1, FS_EmptySet
    <3>2. Cardinality(s \ {x}) = n
      <4>1. Cardinality(s \ {x}) = Cardinality(s) - 1
        BY <1>0, <3>1, FS_RemoveElement
      <4>. QED BY <2>1, <4>1
    <3>3. g[s \ {x}] = h[s \ {x}]
      BY <1>2, <3>2
    <3>4. g[s] = w[x] + g[s \ {x}] /\ h[s] = w[x] + h[s \ {x}]
      BY <3>1 DEF Sums
    <3>. QED BY <3>3, <3>4
  <2>. QED BY <2>1
<1>3. Nat \subseteq N
  <2> HIDE DEF N
  <2>. QED BY <1>1, <1>2, NatInduct
<1>. QED BY <1>0, <1>3

\* The order of the summands does not matter, and more of them are no less.
LEMMA SumFacts ==
    ASSUME NEW S, IsFiniteSet(S), NEW w, \A x \in S : w[x] \in Nat,
           NEW g \in [SUBSET S -> Nat], Sums(g, S, w)
    PROVE  /\ g[{}] = 0
           /\ \A s \in SUBSET S : \A x \in s : g[s] = w[x] + g[s \ {x}]
           /\ \A s \in SUBSET S : \A t \in SUBSET s : g[t] <= g[s]
<1> DEFINE N == {n \in Nat : \A s \in SUBSET S : Cardinality(s) = n =>
                                 \A x \in s : g[s] = w[x] + g[s \ {x}]}
           T == {s \in SUBSET S : \A t \in SUBSET s : g[t] <= g[s]}
<1>0. \A s \in SUBSET S : IsFiniteSet(s) /\ Cardinality(s) \in Nat
  BY FS_Subset, FS_CardinalityType
<1>1. 0 \in N
  BY <1>0, FS_EmptySet
<1>2. ASSUME NEW n \in Nat, n \in N PROVE n + 1 \in N
  <2>1. ASSUME NEW s \in SUBSET S, Cardinality(s) = n + 1, NEW x \in s
        PROVE  g[s] = w[x] + g[s \ {x}]
    <3> DEFINE y == CHOOSE y \in s : TRUE
    <3>1. y \in s /\ g[s] = w[y] + g[s \ {y}]
      BY DEF Sums
    <3>2. CASE x = y
      BY <3>1, <3>2
    <3>3. CASE x # y
      <4>1. Cardinality(s \ {x}) = n /\ Cardinality(s \ {y}) = n
        <5> HIDE DEF y
        <5>1. Cardinality(s \ {x}) = Cardinality(s) - 1
          BY <1>0, <3>1, FS_RemoveElement
        <5>2. Cardinality(s \ {y}) = Cardinality(s) - 1
          BY <1>0, <3>1, FS_RemoveElement
        <5>. QED BY <2>1, <5>1, <5>2
      <4>2. g[s \ {y}] = w[x] + g[(s \ {y}) \ {x}]
        <5> HIDE DEF y
        <5>. QED BY <1>2, <3>3, <4>1
      <4>3. g[s \ {x}] = w[y] + g[(s \ {x}) \ {y}]
        <5> HIDE DEF y
        <5>. QED BY <1>2, <3>1, <3>3, <4>1
      <4>4. (s \ {y}) \ {x} = (s \ {x}) \ {y}
        OBVIOUS
      <4>5. w[x] \in Nat /\ w[y] \in Nat /\ g[(s \ {x}) \ {y}] \in Nat
        <5> HIDE DEF y
        <5>. QED BY <3>1
      <4>6. g[s \ {y}] = w[x] + g[(s \ {x}) \ {y}]
        BY <4>2, <4>4
      <4> HIDE DEF y, N, T
      <4>7. g[s] = w[y] + (w[x] + g[(s \ {x}) \ {y}])
        BY <3>1, <4>6
      <4>8. w[y] + (w[x] + g[(s \ {x}) \ {y}]) = w[x] + (w[y] + g[(s \ {x}) \ {y}])
        BY <4>5
      <4>. QED BY <4>3, <4>7, <4>8
    <3>. QED BY <3>2, <3>3
  <2>. QED BY <2>1
<1>3. Nat \subseteq N
  <2> HIDE DEF N
  <2>. QED BY <1>1, <1>2, NatInduct
<1>4. \A s \in SUBSET S : \A x \in s : g[s] = w[x] + g[s \ {x}]
  BY <1>0, <1>3
<1>5. {} \in T
  OBVIOUS
<1>6. ASSUME NEW s \in SUBSET S, NEW x \in S, s \in T, x \notin s PROVE s \cup {x} \in T
  <2>1. g[s \cup {x}] = w[x] + g[s]
    <3>1. (s \cup {x}) \ {x} = s
      BY <1>6
    <3>. QED BY <1>4, <3>1
  <2>2. ASSUME NEW t \in SUBSET (s \cup {x}) PROVE g[t] <= g[s \cup {x}]
    <3>1. CASE x \in t
      <4>1. g[t] = w[x] + g[t \ {x}] /\ g[t \ {x}] <= g[s]
        BY <1>4, <1>6, <3>1
      <4>. QED BY <2>1, <4>1
    <3>2. CASE x \notin t
      BY <1>6, <2>1, <3>2
    <3>. QED BY <3>1, <3>2
  <2>. QED BY <2>2
<1>7. \A s \in SUBSET S : s \in T
  <2> HIDE DEF T
  <2>. QED BY <1>5, <1>6, SetInduct
<1>8. g[{}] = 0
  BY DEF Sums
<1>. QED BY <1>4, <1>7, <1>8
=============================================================================
