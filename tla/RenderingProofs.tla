-------------------------- MODULE RenderingProofs --------------------------
(***************************************************************************)
(* Proofs about Rendering, for every content up to the length limit, every *)
(* set of words, blanks and tags, every repeat count and every budget that *)
(* RenderingAssumption allows: the state keeps to its types, what is       *)
(* spoken of a message stays within the budget, no segment is rendered     *)
(* again for a copy, and what is played is what was written.               *)
(*                                                                         *)
(* Joining, flattening, summing and splitting are folds of the community   *)
(* modules.  What is known of each comes from Induction, as a function     *)
(* from how far the fold has come to what it has made by then; the lemmas  *)
(* after it are inductions on that.                                        *)
(***************************************************************************)
EXTENDS Rendering, Induction, SequenceTheorems, TLAPS

-----------------------------------------------------------------------------
(* Sums: the partial sums of a sequence of counts.                         *)

\* The sums of the first k counts.
Partial(p, w, n) ==
    /\ p \in [0..n -> Nat]
    /\ p[0] = 0
    /\ \A i \in 1..n : p[i] = p[i - 1] + w[i]

\* A sum is the last of the partial sums.
LEMMA TotalFold ==
    ASSUME NEW n \in Nat, NEW w \in [1..n -> Nat]
    PROVE  \E p : Partial(p, w, n) /\ Total(w) = p[n]
<1> DEFINE F == [p \in Nat \X (1..n) |-> p[1] + w[p[2]]]
           Is(g) == g = [s \in SUBSET (1..n) |-> IF s = {} THEN 0 ELSE g[s \ {Max(s)}] + w[Max(s)]]
           it == CHOOSE g : Is(g)
<1>0. DOMAIN w = 1..n
  OBVIOUS
<1>1. \A a \in Nat, i \in 1..n : F[<<a, i>>] = a + w[i] /\ F[<<a, i>>] \in Nat
  OBVIOUS
<1>2. PICK g \in [SUBSET (1..n) -> Nat] : LeftFolds(g, n, 0, F)
  <2> HIDE DEF F
  <2>1. 0 \in Nat /\ \A a \in Nat, i \in 1..n : F[<<a, i>>] \in Nat
    BY <1>1
  <2>. QED BY <2>1, LeftFoldExists
<1>3. Is(g)
  <2>1. ASSUME NEW s \in SUBSET (1..n)
        PROVE  g[s] = IF s = {} THEN 0 ELSE g[s \ {Max(s)}] + w[Max(s)]
    <3> HIDE DEF F
    <3>. QED BY <1>1, <1>2, FirstOnes DEF LeftFolds
  <2> HIDE DEF F
  <2>. QED BY <2>1
<1>4. Is(it)
  BY <1>3
<1>5. Total(w) = it[1..n]
  BY <1>0 DEF Total, FoldLeft, MapThenFoldSet
<1>6. it[{}] = 0 /\ \A s \in SUBSET (1..n) : s # {} => it[s] = it[s \ {Max(s)}] + w[Max(s)]
  <2> HIDE DEF it
  <2>. QED BY <1>4
<1> HIDE DEF it, F, Is
<1>7. it[1..0] = 0
  BY <1>6, FirstOnes
<1>8. \A i \in 1..n : it[1..i] = it[1..(i - 1)] + w[i]
  <2> SUFFICES ASSUME NEW i \in 1..n PROVE it[1..i] = it[1..(i - 1)] + w[i]
    OBVIOUS
  <2>1. 1..i \in SUBSET (1..n) /\ 1..i # {} /\ Max(1..i) = i /\ (1..i) \ {i} = 1..(i - 1)
    <3>1. i \in 0..n
      OBVIOUS
    <3>. QED BY <3>1, FirstOnes
  <2>. QED BY <1>6, <2>1
<1> DEFINE T == {i \in Nat : i <= n => it[1..i] \in Nat}
<1>9. 0 \in T
  BY <1>7
<1>10. ASSUME NEW i \in Nat, i \in T PROVE i + 1 \in T
  <2>1. CASE i + 1 <= n
    <3>1. i + 1 \in 1..n /\ i + 1 - 1 = i /\ i <= n
      BY <2>1
    <3>2. it[1..(i + 1)] = it[1..i] + w[i + 1]
      BY <1>8, <3>1
    <3>. QED BY <1>10, <3>1, <3>2
  <2>2. CASE ~(i + 1 <= n)
    BY <2>2
  <2>. QED BY <2>1, <2>2
<1>11. Nat \subseteq T
  <2> HIDE DEF T
  <2>. QED BY <1>9, <1>10, NatInduct
<1> DEFINE p == [i \in 0..n |-> it[1..i]]
<1>12. \A i \in 0..n : p[i] = it[1..i] /\ p[i] \in Nat
  BY <1>11
<1>13. p \in [0..n -> Nat]
  BY <1>12
<1>14. p[0] = 0 /\ p[n] = it[1..n]
  BY <1>7, <1>12
<1>15. \A i \in 1..n : p[i] = p[i - 1] + w[i]
  <2> SUFFICES ASSUME NEW i \in 1..n PROVE p[i] = p[i - 1] + w[i]
    OBVIOUS
  <2>1. i \in 0..n /\ i - 1 \in 0..n
    OBVIOUS
  <2> HIDE DEF p
  <2>. QED BY <1>8, <1>12, <2>1
<1> HIDE DEF p
<1>. QED BY <1>5, <1>13, <1>14, <1>15 DEF Partial

\* The sums are determined by the counts: those of a longer sequence agree
\* with those of its beginning.
Agree(w, v, n) == \A i \in 1..n : w[i] = v[i]

\* Counts that agree have the same partial sums.
LEMMA PartialUnique ==
    ASSUME NEW n \in Nat, NEW m \in Nat, n <= m, NEW w, NEW v, NEW p, NEW q,
           Partial(p, w, n), Partial(q, v, m), Agree(w, v, n)
    PROVE  \A i \in 0..n : p[i] = q[i]
<1> DEFINE T == {i \in Nat : i <= n => p[i] = q[i]}
<1>1. 0 \in T
  BY DEF Partial
<1>2. ASSUME NEW i \in Nat, i \in T PROVE i + 1 \in T
  <2>1. CASE i + 1 <= n
    <3>1. i + 1 \in 1..n /\ i + 1 \in 1..m /\ i + 1 - 1 = i /\ i <= n
      BY <2>1
    <3>2. p[i + 1] = p[i] + w[i + 1] /\ q[i + 1] = q[i] + v[i + 1]
      BY <3>1 DEF Partial
    <3>3. w[i + 1] = v[i + 1]
      BY <3>1 DEF Agree
    <3>. QED BY <1>2, <3>1, <3>2, <3>3
  <2>2. CASE ~(i + 1 <= n)
    BY <2>2
  <2>. QED BY <2>1, <2>2
<1>3. Nat \subseteq T
  <2> HIDE DEF T
  <2>. QED BY <1>1, <1>2, NatInduct
<1>. QED BY <1>3

\* A sum of naturals is a natural.
LEMMA TotalType ==
    ASSUME NEW n \in Nat, NEW w \in [1..n -> Nat] PROVE Total(w) \in Nat
BY TotalFold DEF Partial

\* The sum of no counts.
LEMMA TotalEmpty ==
    ASSUME NEW w, DOMAIN w = {} PROVE Total(w) = 0
<1>1. w \in [1..0 -> Nat]
  OBVIOUS
<1>2. PICK p : Partial(p, w, 0) /\ Total(w) = p[0]
  BY <1>1, TotalFold
<1>. QED BY <1>2 DEF Partial

\* One count more.
LEMMA TotalNext ==
    ASSUME NEW n \in Nat, NEW w \in [1..n -> Nat], NEW v \in [1..(n + 1) -> Nat],
           \A i \in 1..n : v[i] = w[i]
    PROVE  Total(v) = Total(w) + v[n + 1]
<1>1. PICK p : Partial(p, w, n) /\ Total(w) = p[n]
  BY TotalFold
<1>2. n + 1 \in Nat
  OBVIOUS
<1>3. PICK q : Partial(q, v, n + 1) /\ Total(v) = q[n + 1]
  BY <1>2, TotalFold
<1>4. p[n] = q[n]
  <2>1. Agree(w, v, n)
    BY DEF Agree
  <2>2. \A i \in 0..n : p[i] = q[i]
    BY <1>1, <1>2, <1>3, <2>1, PartialUnique
  <2>. QED BY <2>2
<1>5. q[n + 1] = q[n] + v[n + 1]
  <2>1. n + 1 \in 1..(n + 1) /\ n + 1 - 1 = n
    OBVIOUS
  <2>. QED BY <1>3, <2>1 DEF Partial
<1>. QED BY <1>1, <1>3, <1>4, <1>5

\* u, of t counts, ends in v: the first m of them come before.
EndsIn(u, t, v, n, m) == t = m + n /\ \A i \in 1..n : u[m + i] = v[i]

AreCounts(w, n) == n \in Nat /\ w \in [1..n -> Nat]

\* The sum of counts that are those of w followed by those of v.
LEMMA TotalConcat ==
    ASSUME NEW m, NEW n, NEW t, NEW w, NEW v, NEW u,
           AreCounts(w, m), AreCounts(v, n), AreCounts(u, t),
           Agree(w, u, m), EndsIn(u, t, v, n, m)
    PROVE  Total(u) = Total(w) + Total(v)
<1> /\ m \in Nat /\ n \in Nat /\ t \in Nat
    /\ w \in [1..m -> Nat] /\ v \in [1..n -> Nat] /\ u \in [1..t -> Nat]
  BY DEF AreCounts
<1>0. t = m + n
  BY DEF EndsIn
<1>1. PICK p : Partial(p, w, m) /\ Total(w) = p[m]
  BY TotalFold
<1>2. PICK q : Partial(q, v, n) /\ Total(v) = q[n]
  BY TotalFold
<1>3. PICK r : Partial(r, u, t) /\ Total(u) = r[t]
  BY TotalFold
<1>4. p[m] = r[m]
  <2>1. m <= t /\ m \in 0..m
    BY <1>0
  <2>3. Partial(p, w, m) /\ Partial(r, u, t)
    BY <1>1, <1>3
  <2>4. \A i \in 0..m : p[i] = r[i]
    BY <2>1, <2>3, PartialUnique
  <2>. QED BY <2>1, <2>4
<1> DEFINE T == {i \in Nat : i <= n => r[m + i] = p[m] + q[i]}
<1>5. 0 \in T
  <2>1. p[m] \in Nat /\ q[0] = 0 /\ m + 0 = m
    BY <1>1, <1>2 DEF Partial
  <2>. QED BY <1>4, <2>1
<1>6. ASSUME NEW i \in Nat, i \in T PROVE i + 1 \in T
  <2>1. CASE i + 1 <= n
    <3>1. i + 1 \in 1..n /\ i + 1 - 1 = i /\ i <= n
          /\ m + (i + 1) \in 1..t /\ m + (i + 1) - 1 = m + i /\ i \in 0..n
      BY <1>0, <2>1
    <3>2. r[m + (i + 1)] = r[m + i] + u[m + (i + 1)] /\ q[i + 1] = q[i] + v[i + 1]
      <4>1. \A k \in 1..t : r[k] = r[k - 1] + u[k]
        BY <1>3 DEF Partial
      <4>2. \A k \in 1..n : q[k] = q[k - 1] + v[k]
        BY <1>2 DEF Partial
      <4>. QED BY <3>1, <4>1, <4>2, SMTT(20)
    <3>4. u[m + (i + 1)] = v[i + 1]
      BY <3>1 DEF EndsIn
    <3>3. p[m] \in Nat /\ q[i] \in Nat /\ v[i + 1] \in Nat
      BY <1>1, <1>2, <3>1 DEF Partial
    <3>. QED BY <1>6, <3>1, <3>2, <3>3, <3>4
  <2>2. CASE ~(i + 1 <= n)
    BY <2>2
  <2>. QED BY <2>1, <2>2
<1>7. Nat \subseteq T
  <2> HIDE DEF T
  <2>. QED BY <1>5, <1>6, NatInduct
<1>. QED BY <1>0, <1>1, <1>2, <1>3, <1>7

-----------------------------------------------------------------------------
(* What a sequence weighs, and the folds of texts.                         *)

\* What each place of a sequence weighs, and what they weigh together.
Weights(f, a) == [i \in DOMAIN a |-> f[a[i]]]
Weigh(f, a) == Total(Weights(f, a))

\* A weight is a natural.
LEMMA WeighType ==
    ASSUME NEW A, NEW f \in [A -> Nat], NEW a \in Seq(A)
    PROVE  Weights(f, a) \in [1..Len(a) -> Nat] /\ Weigh(f, a) \in Nat
<1>1. Len(a) \in Nat /\ DOMAIN a = 1..Len(a) /\ \A i \in 1..Len(a) : a[i] \in A
  OBVIOUS
<1>2. Weights(f, a) \in [1..Len(a) -> Nat]
  BY <1>1 DEF Weights
<1>. QED BY <1>1, <1>2, TotalType DEF Weigh

\* Nothing weighs nothing.
LEMMA WeighEmpty == ASSUME NEW f PROVE Weigh(f, <<>>) = 0
<1>1. DOMAIN Weights(f, <<>>) = {}
  BY DEF Weights
<1>. QED BY <1>1, TotalEmpty DEF Weigh

\* The weight of a concatenation.
LEMMA WeighConcat ==
    ASSUME NEW A, NEW f \in [A -> Nat], NEW a \in Seq(A), NEW b \in Seq(A)
    PROVE  Weigh(f, a \o b) = Weigh(f, a) + Weigh(f, b)
<1> DEFINE c == a \o b
           la == Len(a)
           lb == Len(b)
           lc == Len(c)
<1>1. /\ la \in Nat /\ lb \in Nat /\ lc \in Nat /\ lc = la + lb
      /\ DOMAIN a = 1..la /\ DOMAIN b = 1..lb /\ DOMAIN c = 1..lc
      /\ \A i \in 1..la : c[i] = a[i]
      /\ \A i \in 1..lb : c[la + i] = b[i]
  OBVIOUS
<1> HIDE DEF c, la, lb, lc
<1>2. Weights(f, a) \in [1..la -> Nat] /\ Weights(f, b) \in [1..lb -> Nat] /\ Weights(f, c) \in [1..lc -> Nat]
  <2>1. c \in Seq(A)
    BY DEF c
  <2>. QED BY <2>1, WeighType DEF la, lb, lc
<1>3. Agree(Weights(f, a), Weights(f, c), la)
  <2>1. \A i \in 1..la : i \in 1..lc
    BY <1>1
  <2>. QED BY <1>1, <2>1 DEF Weights, Agree
<1>4. EndsIn(Weights(f, c), lc, Weights(f, b), lb, la)
  <2>1. \A i \in 1..lb : la + i \in 1..lc
    BY <1>1
  <2>. QED BY <1>1, <2>1 DEF Weights, EndsIn
<1>5. Total(Weights(f, c)) = Total(Weights(f, a)) + Total(Weights(f, b))
  <2>1. AreCounts(Weights(f, a), la) /\ AreCounts(Weights(f, b), lb) /\ AreCounts(Weights(f, c), lc)
    BY <1>1, <1>2 DEF AreCounts
  <2>. QED BY <1>3, <1>4, <2>1, TotalConcat
<1>6. /\ Weigh(f, a) = Total(Weights(f, a)) /\ Weigh(f, b) = Total(Weights(f, b))
      /\ Weigh(f, c) = Total(Weights(f, c))
  BY DEF Weigh
<1>. QED BY <1>5, <1>6 DEF c

\* The weight of one thing.
LEMMA WeighOne ==
    ASSUME NEW A, NEW f \in [A -> Nat], NEW x \in A
    PROVE  Weigh(f, <<x>>) = f[x]
<1> DEFINE w == Weights(f, <<x>>)
           none == [i \in 1..0 |-> 0]
<1>1. DOMAIN <<x>> = 1..1 /\ <<x>>[1] = x /\ 0 + 1 = 1
  OBVIOUS
<1>2. w \in [1..1 -> Nat] /\ w[1] = f[x]
  BY <1>1 DEF Weights
<1>3. none \in [1..0 -> Nat] /\ \A i \in 1..0 : w[i] = none[i]
  OBVIOUS
<1>4. Total(none) = 0
  BY TotalEmpty
<1>5. Total(w) = Total(none) + w[1]
  <2> HIDE DEF w, none
  <2>. QED BY <1>1, <1>2, <1>3, TotalNext
<1>6. Weigh(f, <<x>>) = Total(w)
  BY DEF Weigh
<1>. QED BY <1>2, <1>4, <1>5, <1>6

\* The weight with one thing more.
LEMMA WeighAppend ==
    ASSUME NEW A, NEW f \in [A -> Nat], NEW a \in Seq(A), NEW x \in A
    PROVE  Weigh(f, Append(a, x)) = Weigh(f, a) + f[x]
<1>1. Append(a, x) = a \o <<x>> /\ <<x>> \in Seq(A)
  OBVIOUS
<1>2. Weigh(f, a \o <<x>>) = Weigh(f, a) + Weigh(f, <<x>>)
  BY <1>1, WeighConcat
<1>. QED BY <1>1, <1>2, WeighOne

\* What weighs nothing in an audio, and what one unit.
Ink == [x \in TextAtoms |-> IF x = Space THEN 0 ELSE 1]

\* Units is a weight: a space weighs nothing, the rest one each.
LEMMA UnitsWeigh ==
    ASSUME NEW a \in Seq(TextAtoms)
    PROVE  Ink \in [TextAtoms -> Nat] /\ Units(a) = Weigh(Ink, a)
<1>1. Ink \in [TextAtoms -> Nat]
  BY DEF Ink
<1>2. \A i \in DOMAIN a : a[i] \in TextAtoms
  OBVIOUS
<1>3. Weights(Ink, a) = [i \in DOMAIN a |-> IF a[i] = Space THEN 0 ELSE 1]
  BY <1>2 DEF Weights, Ink
<1>. QED BY <1>1, <1>3 DEF Weigh, Units

\* Silence is of no units.
LEMMA UnitsEmpty == Units(<<>>) = 0
<1>1. <<>> \in Seq(TextAtoms)
  OBVIOUS
<1>. QED BY <1>1, UnitsWeigh, WeighEmpty

\* The units of two texts are those of both.
LEMMA UnitsConcat ==
    ASSUME NEW a \in Seq(TextAtoms), NEW b \in Seq(TextAtoms)
    PROVE  Units(a \o b) = Units(a) + Units(b)
<1>1. a \o b \in Seq(TextAtoms)
  OBVIOUS
<1>2. Weigh(Ink, a \o b) = Weigh(Ink, a) + Weigh(Ink, b)
  BY UnitsWeigh, WeighConcat
<1>. QED BY <1>1, <1>2, UnitsWeigh

\* A text has at most as many units as it has places.
LEMMA UnitsType ==
    ASSUME NEW a \in Seq(TextAtoms)
    PROVE  Units(a) \in Nat /\ Units(a) <= Len(a)
<1> DEFINE n == Len(a)
<1>1. n \in Nat /\ Weights(Ink, a) \in [1..n -> Nat] /\ Units(a) = Total(Weights(Ink, a))
  BY UnitsWeigh, WeighType DEF Weigh
<1>2. PICK p : Partial(p, Weights(Ink, a), n) /\ Total(Weights(Ink, a)) = p[n]
  BY <1>1, TotalFold
<1>3. \A i \in 1..n : Weights(Ink, a)[i] \in {0, 1}
  BY DEF Weights, Ink
<1> DEFINE T == {i \in Nat : i <= n => p[i] <= i}
<1>4. 0 \in T
  BY <1>2 DEF Partial
<1>5. ASSUME NEW i \in Nat, i \in T PROVE i + 1 \in T
  <2>1. CASE i + 1 <= n
    <3>1. i + 1 \in 1..n /\ i + 1 - 1 = i /\ i <= n /\ i \in 0..n
      BY <1>1, <2>1
    <3>2. p[i + 1] = p[i] + Weights(Ink, a)[i + 1] /\ p[i] \in Nat
      <4> HIDE DEF n
      <4>. QED BY <1>2, <3>1 DEF Partial
    <3>3. Weights(Ink, a)[i + 1] \in {0, 1}
      BY <1>3, <3>1
    <3> HIDE DEF n
    <3>. QED BY <1>5, <3>1, <3>2, <3>3
  <2>2. CASE ~(i + 1 <= n)
    BY <2>2
  <2>. QED BY <2>1, <2>2
<1>6. Nat \subseteq T
  <2> HIDE DEF T
  <2>. QED BY <1>4, <1>5, NatInduct
<1>. QED BY <1>1, <1>2, <1>6, TotalType

\* Cutting a text adds no units.
LEMMA UnitsCut ==
    ASSUME NEW a \in Seq(TextAtoms), NEW m \in 0..Len(a)
    PROVE  SubSeq(a, 1, m) \in Seq(TextAtoms) /\ Units(SubSeq(a, 1, m)) <= Units(a)
<1> DEFINE b == SubSeq(a, 1, m)
           c == SubSeq(a, m + 1, Len(a))
<1>1. b \in Seq(TextAtoms) /\ c \in Seq(TextAtoms) /\ a = b \o c
  <2>1. /\ b \in Seq(TextAtoms) /\ Len(b) = m /\ \A i \in 1..m : b[i] = a[i]
        /\ Len(a) \in Nat /\ m \in Nat /\ m <= Len(a)
    OBVIOUS
  <2>2. /\ c \in Seq(TextAtoms) /\ Len(c) = Len(a) - m
        /\ \A i \in 1..(Len(a) - m) : c[i] = a[m + i]
    OBVIOUS
  <2>3. /\ b \o c \in Seq(TextAtoms) /\ Len(b \o c) = Len(a)
        /\ \A i \in 1..Len(a) : (b \o c)[i] = IF i <= m THEN b[i] ELSE c[i - m]
    <3> HIDE DEF b, c
    <3>. QED BY <2>1, <2>2
  <2> HIDE DEF b, c
  <2>4. ASSUME NEW i \in 1..Len(a) PROVE (b \o c)[i] = a[i]
    <3>1. CASE i <= m
      <4>1. i \in 1..m
        BY <2>1, <3>1
      <4>. QED BY <2>1, <2>3, <3>1, <4>1
    <3>2. CASE ~(i <= m)
      <4>1. i - m \in 1..(Len(a) - m) /\ m + (i - m) = i
        BY <2>1, <3>2
      <4>2. c[i - m] = a[i]
        BY <2>2, <4>1
      <4>. QED BY <2>3, <3>2, <4>2
    <3>. QED BY <3>1, <3>2
  <2>5. a = b \o c
    <3>. QED BY <2>3, <2>4, SeqEqual
  <2>. QED BY <2>1, <2>2, <2>5
<1>2. Units(a) = Units(b) + Units(c)
  <2> HIDE DEF b, c
  <2>. QED BY <1>1, UnitsConcat
<1>3. Units(b) \in Nat /\ Units(c) \in Nat
  <2> HIDE DEF b, c
  <2>. QED BY <1>1, UnitsType
<1> HIDE DEF b, c
<1>4. Units(b) <= Units(a)
  BY <1>2, <1>3
<1>. QED BY <1>1, <1>4 DEF b

\* j[i] is the first i texts joined.
Joined(j, s, texts, n, A) ==
    /\ j \in [0..n -> Seq(A)]
    /\ j[0] = <<>>
    /\ \A i \in 1..n : j[i] = j[i - 1] \o (IF i = 1 THEN <<>> ELSE s) \o texts[i]

\* Join is the last of the joins of the first i texts.
LEMMA JoinFold ==
    ASSUME NEW A, NEW s \in Seq(A), NEW n \in Nat, NEW texts \in [1..n -> Seq(A)]
    PROVE  \E j : Joined(j, s, texts, n, A) /\ Join(s, texts) = j[n]
<1> DEFINE D == Seq(A)
           at == [i \in DOMAIN texts |-> i]
           F == [p \in D \X (1..n) |-> p[1] \o (IF p[2] = 1 THEN <<>> ELSE s) \o texts[p[2]]]
           Is(g) == g = [u \in SUBSET DOMAIN at |-> IF u = {} THEN <<>>
                            ELSE g[u \ {Max(u)}] \o (IF at[Max(u)] = 1 THEN <<>> ELSE s)
                                     \o texts[at[Max(u)]]]
           it == CHOOSE g : Is(g)
<1>0. DOMAIN at = 1..n /\ \A i \in 1..n : at[i] = i
  OBVIOUS
<1>1. \A a \in D, i \in 1..n : F[<<a, i>>] = a \o (IF i = 1 THEN <<>> ELSE s) \o texts[i]
  OBVIOUS
<1>2. \A a \in D, i \in 1..n : a \o (IF i = 1 THEN <<>> ELSE s) \o texts[i] \in D
  OBVIOUS
<1>3. PICK g \in [SUBSET (1..n) -> D] : LeftFolds(g, n, <<>>, F)
  <2>1. <<>> \in D
    OBVIOUS
  <2> HIDE DEF F, D
  <2>2. \A a \in D, i \in 1..n : F[<<a, i>>] \in D
    BY <1>1, <1>2
  <2>. QED BY <2>1, <2>2, LeftFoldExists
<1>4. Is(g)
  <2>1. ASSUME NEW u \in SUBSET (1..n), u # {}
        PROVE  g[u] = g[u \ {Max(u)}] \o (IF at[Max(u)] = 1 THEN <<>> ELSE s) \o texts[at[Max(u)]]
    <3>1. Max(u) \in 1..n /\ u \ {Max(u)} \in SUBSET (1..n)
      BY <2>1, FirstOnes
    <3>2. at[Max(u)] = Max(u)
      BY <1>0, <3>1
    <3> HIDE DEF F, D, at
    <3>3. g[u] = F[<<g[u \ {Max(u)}], Max(u)>>]
      BY <1>3, <2>1 DEF LeftFolds
    <3>4. g[u \ {Max(u)}] \in D
      BY <1>3, <3>1
    <3>. QED BY <1>1, <3>1, <3>2, <3>3, <3>4
  <2>2. g[{}] = <<>>
    BY <1>3 DEF LeftFolds
  <2>3. DOMAIN g = SUBSET (1..n)
    BY <1>3
  <2>4. SUBSET DOMAIN at = SUBSET (1..n)
    BY <1>0
  <2> HIDE DEF D, at, F
  <2>. QED BY <1>3, <2>1, <2>2, <2>4
<1>5. Is(it)
  <2> HIDE DEF at, F, D
  <2>. QED BY <1>4
<1>6. Join(s, texts) = it[1..n]
  <2>1. Join(s, texts) = FoldLeft(LAMBDA acc, i : acc \o (IF i = 1 THEN <<>> ELSE s) \o texts[i],
                                  <<>>, at)
    BY DEF Join, FoldLeftDomain
  <2>2. FoldLeft(LAMBDA acc, i : acc \o (IF i = 1 THEN <<>> ELSE s) \o texts[i], <<>>, at)
           = it[DOMAIN at]
    <3> HIDE DEF at
    <3>. QED BY DEF FoldLeft, MapThenFoldSet
  <2> HIDE DEF it, at
  <2>. QED BY <1>0, <2>1, <2>2
<1>7. it[{}] = <<>> /\ \A u \in SUBSET (1..n) : u # {} =>
          it[u] = it[u \ {Max(u)}] \o (IF at[Max(u)] = 1 THEN <<>> ELSE s) \o texts[at[Max(u)]]
  <2>1. SUBSET DOMAIN at = SUBSET (1..n)
    BY <1>0
  <2> HIDE DEF it, at
  <2>. QED BY <1>5, <2>1
<1> HIDE DEF it, F, Is
<1>8. it[1..0] = <<>>
  BY <1>7, FirstOnes
<1>9. \A i \in 1..n : it[1..i] = it[1..(i - 1)] \o (IF i = 1 THEN <<>> ELSE s) \o texts[i]
  <2> SUFFICES ASSUME NEW i \in 1..n
               PROVE  it[1..i] = it[1..(i - 1)] \o (IF i = 1 THEN <<>> ELSE s) \o texts[i]
    OBVIOUS
  <2>1. 1..i \in SUBSET (1..n) /\ 1..i # {} /\ Max(1..i) = i /\ (1..i) \ {i} = 1..(i - 1)
    <3>1. i \in 0..n
      OBVIOUS
    <3>. QED BY <3>1, FirstOnes
  <2>2. at[i] = i
    BY <1>0
  <2> HIDE DEF at
  <2>3. it[1..i] = it[(1..i) \ {Max(1..i)}] \o (IF at[Max(1..i)] = 1 THEN <<>> ELSE s)
                       \o texts[at[Max(1..i)]]
    BY <1>7, <2>1
  <2>. QED BY <2>1, <2>2, <2>3
<1> DEFINE h == [i \in 0..n |-> it[1..i]]
<1>10. h[0] = <<>> /\ h[n] = it[1..n]
  BY <1>8
<1>11. \A i \in 1..n : h[i] = h[i - 1] \o (IF i = 1 THEN <<>> ELSE s) \o texts[i]
  <2> SUFFICES ASSUME NEW i \in 1..n
               PROVE  h[i] = h[i - 1] \o (IF i = 1 THEN <<>> ELSE s) \o texts[i]
    OBVIOUS
  <2>1. h[i] = it[1..i] /\ h[i - 1] = it[1..(i - 1)]
    OBVIOUS
  <2> HIDE DEF h
  <2>. QED BY <1>9, <2>1
<1>12. h = [i \in 0..n |-> h[i]] /\ <<>> \in D
  OBVIOUS
<1> HIDE DEF h, D
<1> DEFINE T == {i \in Nat : i <= n => h[i] \in D}
<1>13. 0 \in T
  BY <1>10, <1>12
<1>14. ASSUME NEW i \in Nat, i \in T PROVE i + 1 \in T
  <2>1. CASE i + 1 <= n
    <3> DEFINE k == i + 1
    <3>1. k \in 1..n /\ k - 1 = i /\ i <= n
      BY <2>1
    <3>2. h[i] \in D
      BY <1>14, <3>1
    <3> HIDE DEF k
    <3>3. h[k] = h[i] \o (IF k = 1 THEN <<>> ELSE s) \o texts[k]
      BY <1>11, <3>1
    <3>4. h[k] \in D
      BY <1>2, <3>1, <3>2, <3>3
    <3>. QED BY <3>4 DEF k
  <2>2. CASE ~(i + 1 <= n)
    BY <2>2
  <2>. QED BY <2>1, <2>2
<1>15. Nat \subseteq T
  <2> HIDE DEF T
  <2>. QED BY <1>13, <1>14, NatInduct
<1>16. h \in [0..n -> D]
  <2>1. \A i \in 0..n : h[i] \in D
    BY <1>15
  <2> HIDE DEF T
  <2>. QED BY <1>12, <2>1
<1>. QED BY <1>6, <1>10, <1>11, <1>16 DEF Joined, D

-----------------------------------------------------------------------------
(* Bounds of small sets, stripping, and the copies that fit.               *)

\* The lesser of two.
LEMMA MinPair ==
    ASSUME NEW a \in Int, NEW b \in Int
    PROVE  Min({a, b}) \in {a, b} /\ Min({a, b}) <= a /\ Min({a, b}) <= b
<1>1. \E x \in {a, b} : \A y \in {a, b} : x <= y
  OBVIOUS
<1>2. Min({a, b}) \in {a, b} /\ \A y \in {a, b} : Min({a, b}) <= y
  BY <1>1 DEF Min
<1>. QED BY <1>2

\* The greater of two.
LEMMA MaxPair ==
    ASSUME NEW a \in Int, NEW b \in Int
    PROVE  Max({a, b}) \in {a, b} /\ a <= Max({a, b}) /\ b <= Max({a, b})
<1>1. \E x \in {a, b} : \A y \in {a, b} : x >= y
  OBVIOUS
<1>2. Max({a, b}) \in {a, b} /\ \A y \in {a, b} : Max({a, b}) >= y
  BY <1>1 DEF Max
<1>. QED BY <1>2

\* The least of some numbers is one of them.
LEMMA MinIn ==
    ASSUME NEW n \in Nat, NEW s \in SUBSET (1..n), s # {}
    PROVE  Min(s) \in s
<1>1. s \in SUBSET Nat
  OBVIOUS
<1>2. \E x \in s : \A y \in s : x <= y
  BY <1>1, Least
<1>. QED BY <1>2 DEF Min

\* Stripping leaves a part of the text.
LEMMA StripPart ==
    ASSUME NEW A, NEW text \in Seq(A)
    PROVE  /\ Strip(text) \in Seq(A)
           /\ Len(Strip(text)) <= Len(text)
           /\ \A k \in 1..Len(Strip(text)) : \E m \in 1..Len(text) : Strip(text)[k] = text[m]
<1> DEFINE ink == {i \in DOMAIN text : content[text[i]] \notin Blanks}
           n == Len(text)
<1>0. n \in Nat /\ DOMAIN text = 1..n /\ ink \in SUBSET (1..n)
  OBVIOUS
<1>1. CASE ink = {}
  <2>1. Strip(text) = <<>>
    BY <1>1 DEF Strip
  <2>. QED BY <2>1
<1>2. CASE ink # {}
  <2> DEFINE a == Min(ink)
             b == Max(ink)
  <2>1. a \in 1..n /\ b \in 1..n
    <3> HIDE DEF ink, n
    <3>1. a \in ink /\ b \in ink
      BY <1>0, <1>2, MinIn, MaxOf
    <3>. QED BY <1>0, <3>1
  <2>2. Strip(text) = SubSeq(text, a, b)
    BY <1>2 DEF Strip
  <2> HIDE DEF a, b, ink
  <2>3. \A i \in a..b : i \in 1..n /\ text[i] \in A
    BY <2>1
  <2>4. a \in Int /\ b \in Int
    BY <2>1
  <2> DEFINE r == SubSeq(text, a, b)
  <2>5. /\ r \in Seq(A)
        /\ Len(r) = IF a <= b THEN b - a + 1 ELSE 0
        /\ \A i \in 1..(b - a + 1) : r[i] = text[a + i - 1]
    BY <2>3, <2>4, SubSeqProperties
  <2>6. Len(r) <= n
    <3> HIDE DEF r
    <3>. QED BY <2>1, <2>5
  <2>7. ASSUME NEW k \in 1..Len(r) PROVE \E m \in 1..n : r[k] = text[m]
    <3> HIDE DEF r, n
    <3>1. k \in 1..(b - a + 1) /\ a + k - 1 \in 1..n
      BY <1>0, <2>1, <2>5
    <3>. QED BY <2>5, <3>1
  <2> HIDE DEF r
  <2>. QED BY <2>2, <2>5, <2>6, <2>7 DEF r
<1>. QED BY <1>1, <1>2

\* As many whole copies as the budget holds, with a separator between each
\* two, and one in any case.
LEMMA CopiesFit ==
    ASSUME NEW size \in Nat, repeat \in 1..MaxRepeat
    PROVE  /\ Copies(size) \in 1..repeat
           /\ \/ Copies(size) = 1
              \/ size = 0
              \/ Copies(size) * (size + 1) <= MaxSpoken + 1
<1> DEFINE q == (MaxSpoken + 1) \div (size + 1)
<1>0. MaxSpoken \in Nat /\ MaxRepeat \in Nat /\ repeat \in Nat \ {0}
  BY RenderingAssumption
<1>1. q \in Nat /\ q * (size + 1) <= MaxSpoken + 1
  BY <1>0
<1>2. CASE size = 0
  BY <1>0, <1>2 DEF Copies
<1>3. CASE size # 0
  <2> DEFINE m == Min({repeat, q})
             c == Max({1, m})
  <2>1. Copies(size) = c
    BY <1>3 DEF Copies
  <2> HIDE DEF q
  <2>0. repeat \in Int /\ q \in Int /\ 1 \in Int
    BY <1>0, <1>1
  <2>2. m \in {repeat, q} /\ m <= repeat /\ m <= q
    BY <2>0, MinPair
  <2> HIDE DEF m
  <2>3. m \in Int
    BY <1>0, <1>1, <2>2
  <2>4. c \in {1, m} /\ 1 <= c
    BY <2>0, <2>3, MaxPair
  <2> HIDE DEF c
  <2>5. c \in 1..repeat
    BY <1>0, <2>2, <2>3, <2>4
  <2>6. c = 1 \/ c * (size + 1) <= MaxSpoken + 1
    <3>1. CASE c = m
      <4>1. m * (size + 1) <= q * (size + 1)
        BY <1>1, <2>2, <2>3
      <4>2. m * (size + 1) \in Int /\ q * (size + 1) \in Int
        BY <1>1, <2>3
      <4>. QED BY <1>0, <1>1, <3>1, <4>1, <4>2
    <3>. QED BY <2>4, <3>1
  <2>. QED BY <2>1, <2>5, <2>6
<1>. QED BY <1>2, <1>3

-----------------------------------------------------------------------------
(* FlattenSeq, part by part.                                               *)

\* f[i] is the first i pieces one after the other.
Flattens(f, pieces, n, A) ==
    /\ f \in [1..n -> Seq(A)]
    /\ \A i \in 1..n : f[i] = IF i = 1 THEN pieces[i] ELSE f[i - 1] \o pieces[i]

\* FlattenSeq is the last of the concatenations of the first i pieces.
LEMMA FlattenFold ==
    ASSUME NEW A, NEW pieces \in Seq(Seq(A)), Len(pieces) # 0
    PROVE  \E f : Flattens(f, pieces, Len(pieces), A) /\ FlattenSeq(pieces) = f[Len(pieces)]
<1> DEFINE n == Len(pieces)
           D == Seq(A)
           F == [p \in D \X (1..n) |-> IF p[2] = 1 THEN pieces[p[2]] ELSE p[1] \o pieces[p[2]]]
           Is(f) == f = [i \in 1..n |-> IF i = 1 THEN pieces[i] ELSE f[i - 1] \o pieces[i]]
           it == CHOOSE f : Is(f)
<1>0. n \in Nat /\ pieces \in [1..n -> D]
  OBVIOUS
<1>1. \A a \in D, i \in 1..n : (IF i = 1 THEN pieces[i] ELSE a \o pieces[i]) \in D
  OBVIOUS
<1>2. \A a \in D, i \in 1..n : F[<<a, i>>] = IF i = 1 THEN pieces[i] ELSE a \o pieces[i]
  OBVIOUS
<1>3. PICK g \in [SUBSET (1..n) -> D] : LeftFolds(g, n, <<>>, F)
  <2>1. <<>> \in D
    OBVIOUS
  <2> HIDE DEF F, D, n
  <2>2. \A a \in D, i \in 1..n : F[<<a, i>>] \in D
    BY <1>1, <1>2
  <2>. QED BY <1>0, <2>1, <2>2, LeftFoldExists
<1> DEFINE f == [i \in 1..n |-> g[1..i]]
<1>4. f \in [1..n -> D] /\ \A i \in 1..n : f[i] = IF i = 1 THEN pieces[i] ELSE f[i - 1] \o pieces[i]
  <2>1. \A i \in 1..n : f[i] = g[1..i]
    OBVIOUS
  <2>2. \A i \in 1..n : 1..i \in SUBSET (1..n) /\ 1..i # {} /\ Max(1..i) = i
                        /\ (1..i) \ {i} = 1..(i - 1) /\ 1..(i - 1) \in SUBSET (1..n)
    <3>1. \A i \in 1..n : i \in 0..n /\ i - 1 \in 0..n
      BY <1>0
    <3> HIDE DEF n
    <3>. QED BY <1>0, <3>1, FirstOnes
  <2>3. \A i \in 1..n : i # 1 => i - 1 \in 1..n
    BY <1>0
  <2> HIDE DEF F, D, n
  <2>4. ASSUME NEW i \in 1..n
        PROVE  g[1..i] = IF i = 1 THEN pieces[i] ELSE g[1..(i - 1)] \o pieces[i]
    <3>1. g[1..i] = F[<<g[1..(i - 1)], i>>]
      BY <1>3, <2>2 DEF LeftFolds
    <3>2. g[1..(i - 1)] \in D
      BY <1>3, <2>2
    <3>. QED BY <1>2, <3>1, <3>2
  <2>5. f \in [1..n -> D]
    BY <1>3, <2>2
  <2> HIDE DEF f
  <2>. QED BY <2>1, <2>3, <2>4, <2>5
<1>5. Is(f)
  <2> HIDE DEF D, F, n
  <2>1. f = [i \in 1..n |-> f[i]]
    OBVIOUS
  <2> HIDE DEF f
  <2>. QED BY <1>4, <2>1
<1>6. Is(it)
  <2> HIDE DEF f, n
  <2>. QED BY <1>5
<1>7. FlattenSeq(pieces) = it[n]
  BY DEF FlattenSeq
<1>8. \A i \in 1..n : it[i] = IF i = 1 THEN pieces[i] ELSE it[i - 1] \o pieces[i]
  <2> HIDE DEF it, n
  <2>. QED BY <1>6
<1>9. it = [i \in 1..n |-> it[i]]
  <2> HIDE DEF it, n
  <2>. QED BY <1>6
<1> HIDE DEF it, Is, f, F, D
<1> DEFINE T == {i \in Nat : i \in 1..n => it[i] \in D}
<1>10. 0 \in T
  OBVIOUS
<1>11. ASSUME NEW i \in Nat, i \in T PROVE i + 1 \in T
  <2>1. CASE i + 1 \in 1..n
    <3> DEFINE k == i + 1
    <3>1. k \in 1..n /\ k - 1 = i /\ (k # 1 => i \in 1..n)
      BY <1>0, <2>1
    <3> HIDE DEF k, n
    <3>2. k # 1 => it[i] \in D
      BY <1>11, <3>1
    <3>3. it[k] = IF k = 1 THEN pieces[k] ELSE it[i] \o pieces[k]
      BY <1>8, <3>1
    <3>4. pieces[k] \in D
      BY <1>0, <3>1
    <3>5. k # 1 => it[k] \in D
      <4>1. k # 1 => (IF k = 1 THEN pieces[k] ELSE it[i] \o pieces[k]) \in D
        BY <1>1, <3>1, <3>2
      <4>. QED BY <3>3, <4>1
    <3>6. it[k] \in D
      BY <3>3, <3>4, <3>5
    <3>. QED BY <3>6 DEF k
  <2>2. CASE i + 1 \notin 1..n
    BY <2>2
  <2>. QED BY <2>1, <2>2
<1>12. Nat \subseteq T
  <2> HIDE DEF T
  <2>. QED BY <1>10, <1>11, NatInduct
<1>13. it \in [1..n -> D]
  <2>1. \A i \in 1..n : it[i] \in D
    BY <1>12
  <2> HIDE DEF T, n
  <2>. QED BY <1>9, <2>1
<1>. QED BY <1>7, <1>8, <1>13 DEF Flattens, D

\* FlattenSeq of texts is a text.
LEMMA FlattenType ==
    ASSUME NEW A, NEW pieces \in Seq(Seq(A))
    PROVE  FlattenSeq(pieces) \in Seq(A)
<1>1. CASE Len(pieces) = 0
  <2>1. FlattenSeq(pieces) = pieces /\ pieces = <<>>
    BY <1>1 DEF FlattenSeq
  <2>2. <<>> \in Seq(A)
    OBVIOUS
  <2>. QED BY <2>1, <2>2
<1>2. CASE Len(pieces) # 0
  <2> DEFINE n == Len(pieces)
  <2>1. n \in 1..n
    BY <1>2
  <2>2. PICK f : Flattens(f, pieces, n, A) /\ FlattenSeq(pieces) = f[n]
    BY <1>2, FlattenFold
  <2> HIDE DEF n
  <2>. QED BY <2>1, <2>2 DEF Flattens
<1>. QED BY <1>1, <1>2

\* One part more.
LEMMA FlattenAppend ==
    ASSUME NEW A, NEW pieces \in Seq(Seq(A)), NEW x \in Seq(A)
    PROVE  FlattenSeq(Append(pieces, x)) = FlattenSeq(pieces) \o x
<1> DEFINE n == Len(pieces)
           more == Append(pieces, x)
           k == n + 1
<1>1. /\ more \in Seq(Seq(A)) /\ Len(more) = k /\ n \in Nat /\ k \in Nat /\ k # 0 /\ k - 1 = n
      /\ more[k] = x /\ \A i \in 1..n : more[i] = pieces[i]
  OBVIOUS
<1>2. PICK g : Flattens(g, more, k, A) /\ FlattenSeq(more) = g[k]
  <2> HIDE DEF more, k, n
  <2>. QED BY <1>1, FlattenFold
<1>3. CASE n = 0
  <2>1. FlattenSeq(pieces) = <<>>
    BY <1>3 DEF FlattenSeq
  <2>2. k = 1 /\ k \in 1..k
    BY <1>3
  <2> HIDE DEF k, more
  <2>3. g[k] = x
    BY <1>1, <1>2, <2>2 DEF Flattens
  <2>. QED BY <1>2, <2>1, <2>3, ConcatEmptySeq DEF more
<1>4. CASE n # 0
  <2>1. PICK f : Flattens(f, pieces, n, A) /\ FlattenSeq(pieces) = f[n]
    <3>. QED BY <1>4, FlattenFold
  <2>0. \A i \in 1..n : i \in 1..k
    BY <1>1
  <2>4. k \in 1..k /\ k # 1 /\ n \in 1..n
    BY <1>1, <1>4
  <2> HIDE DEF k, more, n
  <2> DEFINE T == {i \in Nat : i \in 1..n => g[i] = f[i]}
  <2>2. ASSUME NEW i \in Nat, i \in T PROVE i + 1 \in T
    <3> DEFINE j == i + 1
    <3>1. CASE j \in 1..n
      <4>1. j - 1 = i /\ (j # 1 => i \in 1..n)
        BY <1>1, <3>1
      <4>2. j \in 1..k
        BY <2>0, <3>1
      <4> HIDE DEF j
      <4>3. f[j] = IF j = 1 THEN pieces[j] ELSE f[i] \o pieces[j]
        BY <2>1, <3>1, <4>1 DEF Flattens
      <4>4. g[j] = IF j = 1 THEN more[j] ELSE g[i] \o more[j]
        BY <1>2, <4>1, <4>2 DEF Flattens
      <4>5. more[j] = pieces[j]
        BY <1>1, <3>1
      <4>6. j # 1 => g[i] = f[i]
        BY <2>2, <4>1
      <4>7. g[j] = f[j]
        BY <4>3, <4>4, <4>5, <4>6
      <4>. QED BY <4>7 DEF j
    <3>2. CASE j \notin 1..n
      BY <3>2
    <3>. QED BY <3>1, <3>2
  <2>3. Nat \subseteq T
    <3>1. 0 \in T
      OBVIOUS
    <3> HIDE DEF T
    <3>. QED BY <2>2, <3>1, NatInduct
  <2>5. g[n] = f[n]
    BY <1>1, <2>3, <2>4
  <2>6. g[k] = g[n] \o x
    BY <1>1, <1>2, <2>4 DEF Flattens
  <2>. QED BY <1>2, <2>1, <2>5, <2>6 DEF more
<1>. QED BY <1>3, <1>4

-----------------------------------------------------------------------------
(* What split_segments makes of a content, tag by tag.                     *)

SpeechType == [kind : {"speech"}, text : Seq(Positions) \ {<<>>}]
EffectType ==
    [kind : {"effect"}, at : {i \in Positions : content[i] \in Tags}, count : 1..MaxEffects]
SegmentType == SpeechType \cup EffectType

IsSpeech(segs, s) == segs[s].kind = "speech"

\* How much each segment says, with and without the full stop it may be given.
Lens(segs) == [i \in DOMAIN segs |-> IF segs[i].kind = "speech" THEN Len(segs[i].text) ELSE 0]
Spend(segs) ==
    [i \in DOMAIN segs |->
        IF segs[i].kind = "speech" THEN Len(Punctuated(segs[i].text)) ELSE 0]

\* No position in the texts of two segments.
Apart(segs) ==
    \A s, t \in DOMAIN segs :
        s # t /\ IsSpeech(segs, s) /\ IsSpeech(segs, t) =>
            \A k \in DOMAIN segs[s].text, m \in DOMAIN segs[t].text :
                segs[s].text[k] # segs[t].text[m]

\* What the first i positions have been split into, while a of them wait in
\* the text of the next segment.
WellSplit(segs, i, a) ==
    /\ segs \in Seq(SegmentType)
    /\ Apart(segs)
    /\ \A s \in DOMAIN segs : IsSpeech(segs, s) =>
          \A k \in DOMAIN segs[s].text : segs[s].text[k] <= i
    /\ Total(Lens(segs)) + a <= i
    /\ Total(Spend(segs)) + 2 * a <= 2 * i

SoFar(acc, i) ==
    /\ WellSplit(acc.segments, i, Len(acc.text))
    /\ acc.text \in Seq(Positions)
    /\ \A k \in DOMAIN acc.text :
          /\ acc.text[k] <= i
          /\ \A s \in DOMAIN acc.segments : IsSpeech(acc.segments, s) =>
                \A m \in DOMAIN acc.segments[s].text :
                    acc.segments[s].text[m] # acc.text[k]
    /\ acc.effects \in 0..MaxEffects

\* _with_terminal_punctuation adds at most one full stop, at the end, and
\* none to an empty text.
LEMMA PunctuatedLen ==
    ASSUME NEW A, NEW text \in Seq(A), NEW B, A \subseteq B, Dot \in B
    PROVE  /\ Punctuated(text) \in Seq(B)
           /\ Len(text) <= Len(Punctuated(text))
           /\ Len(Punctuated(text)) <= 2 * Len(text)
           /\ Len(Punctuated(text)) <= Len(text) + 1
           /\ \A k \in 1..Len(text) : Punctuated(text)[k] = text[k]
           /\ text = <<>> => Punctuated(text) = <<>>
<1>1. text \in Seq(B)
  OBVIOUS
<1>2. CASE Punctuated(text) = text
  BY <1>1, <1>2
<1>3. CASE Punctuated(text) # text
  <2>1. Punctuated(text) = Append(text, Dot) /\ text # <<>>
    BY <1>3 DEF Punctuated
  <2>2. Len(text) \in Nat /\ Len(text) >= 1
    BY <2>1
  <2>3. /\ Append(text, Dot) \in Seq(B) /\ Len(Append(text, Dot)) = Len(text) + 1
        /\ \A k \in 1..Len(text) : Append(text, Dot)[k] = text[k]
    BY <1>1
  <2>. QED BY <2>1, <2>2, <2>3
<1>. QED BY <1>2, <1>3

\* What segments say is counted in naturals.
LEMMA CountsOfSegments ==
    ASSUME NEW segs \in Seq(SegmentType)
    PROVE  /\ Lens(segs) \in [1..Len(segs) -> Nat]
           /\ Spend(segs) \in [1..Len(segs) -> Nat]
           /\ Total(Lens(segs)) \in Nat /\ Total(Spend(segs)) \in Nat
<1> DEFINE n == Len(segs)
<1>1. n \in Nat /\ DOMAIN segs = 1..n
  OBVIOUS
<1>2. ASSUME NEW i \in 1..n, segs[i].kind = "speech"
      PROVE  Len(segs[i].text) \in Nat /\ Len(Punctuated(segs[i].text)) \in Nat
  <2>1. segs[i].text \in Seq(Positions)
    BY <1>2 DEF SegmentType, SpeechType, EffectType
  <2>2. Punctuated(segs[i].text) \in Seq(Positions \cup {Dot})
    BY <2>1, PunctuatedLen
  <2>. QED BY <2>1, <2>2
<1> HIDE DEF n
<1>3. Lens(segs) \in [1..n -> Nat]
  BY <1>1, <1>2 DEF Lens
<1>4. Spend(segs) \in [1..n -> Nat]
  BY <1>1, <1>2 DEF Spend
<1>5. Total(Lens(segs)) \in Nat
  BY <1>1, <1>3, TotalType
<1>6. Total(Spend(segs)) \in Nat
  BY <1>1, <1>4, TotalType
<1>. QED BY <1>3, <1>4, <1>5, <1>6 DEF n

\* One segment more.
LEMMA AppendCounts ==
    ASSUME NEW segs \in Seq(SegmentType), NEW x \in SegmentType
    PROVE  /\ Total(Lens(Append(segs, x))) =
                  Total(Lens(segs)) + IF x.kind = "speech" THEN Len(x.text) ELSE 0
           /\ Total(Spend(Append(segs, x))) =
                  Total(Spend(segs)) + IF x.kind = "speech" THEN Len(Punctuated(x.text)) ELSE 0
<1> DEFINE n == Len(segs)
           more == Append(segs, x)
<1>1. /\ n \in Nat /\ DOMAIN segs = 1..n /\ more \in Seq(SegmentType) /\ Len(more) = n + 1
      /\ DOMAIN more = 1..(n + 1) /\ more[n + 1] = x /\ \A i \in 1..n : more[i] = segs[i]
      /\ n + 1 \in 1..(n + 1) /\ \A i \in 1..n : i \in 1..(n + 1)
  OBVIOUS
<1> HIDE DEF n, more
<1>2. /\ Lens(segs) \in [1..n -> Nat] /\ Lens(more) \in [1..(n + 1) -> Nat]
      /\ Spend(segs) \in [1..n -> Nat] /\ Spend(more) \in [1..(n + 1) -> Nat]
  BY <1>1, CountsOfSegments DEF n
<1>3. \A i \in 1..n : Lens(more)[i] = Lens(segs)[i]
  BY <1>1 DEF Lens
<1>4. \A i \in 1..n : Spend(more)[i] = Spend(segs)[i]
  BY <1>1 DEF Spend
<1>5. Lens(more)[n + 1] = IF x.kind = "speech" THEN Len(x.text) ELSE 0
  BY <1>1 DEF Lens
<1>6. Spend(more)[n + 1] = IF x.kind = "speech" THEN Len(Punctuated(x.text)) ELSE 0
  BY <1>1 DEF Spend
<1>7. Total(Lens(more)) = Total(Lens(segs)) + Lens(more)[n + 1]
  BY <1>1, <1>2, <1>3, TotalNext
<1>8. Total(Spend(more)) = Total(Spend(segs)) + Spend(more)[n + 1]
  BY <1>1, <1>2, <1>4, TotalNext
<1>. QED BY <1>5, <1>6, <1>7, <1>8 DEF more

\* Flushing the text read so far leaves segments that are well split.
LEMMA FlushedWell ==
    ASSUME NEW acc, NEW i \in Nat, SoFar(acc, i)
    PROVE  WellSplit(Flushed(acc), i, 0)
<1> DEFINE segs == acc.segments
           text == acc.text
           strip == Strip(text)
           n == Len(segs)
<1>1. segs \in Seq(SegmentType) /\ text \in Seq(Positions) /\ n \in Nat /\ DOMAIN segs = 1..n
      /\ Len(text) \in Nat /\ DOMAIN text = 1..Len(text)
  BY DEF SoFar, WellSplit
<1>2. /\ strip \in Seq(Positions) /\ Len(strip) <= Len(text)
      /\ \A k \in 1..Len(strip) : \E m \in 1..Len(text) : strip[k] = text[m]
  <2> HIDE DEF text
  <2>. QED BY <1>1, StripPart
<1>3. Total(Lens(segs)) \in Nat /\ Total(Spend(segs)) \in Nat
  BY <1>1, CountsOfSegments
<1>4. CASE strip = <<>>
  <2>1. Flushed(acc) = segs
    BY <1>4 DEF Flushed
  <2>2. WellSplit(segs, i, Len(text))
    BY DEF SoFar
  <2> HIDE DEF segs, text
  <2>. QED BY <1>1, <1>3, <2>1, <2>2 DEF WellSplit
<1>5. CASE strip # <<>>
  <2> DEFINE x == [kind |-> "speech", text |-> strip]
             more == Append(segs, x)
  <2>1. Flushed(acc) = more
    BY <1>5 DEF Flushed
  <2>2. x \in SegmentType /\ x.kind = "speech" /\ x.text = strip /\ DOMAIN strip = 1..Len(strip)
        /\ Len(strip) \in Nat
    <3> HIDE DEF strip
    <3>. QED BY <1>2, <1>5 DEF SegmentType, SpeechType
  <2>3. \A k \in DOMAIN strip : \E m \in DOMAIN text : strip[k] = text[m]
    BY <1>1, <1>2, <2>2
  <2>4. \A k \in DOMAIN text :
          /\ text[k] <= i
          /\ \A s \in DOMAIN segs : IsSpeech(segs, s) =>
                \A m \in DOMAIN segs[s].text : segs[s].text[m] # text[k]
    BY DEF SoFar
  <2>5. WellSplit(segs, i, Len(text))
    BY DEF SoFar
  <2>6. /\ Punctuated(strip) \in Seq(Positions \cup {Dot})
        /\ Len(Punctuated(strip)) <= 2 * Len(strip)
    <3> HIDE DEF strip
    <3>. QED BY <1>2, PunctuatedLen
  <2> HIDE DEF segs, text, strip, n, x
  <2>7. /\ Total(Lens(more)) = Total(Lens(segs)) + Len(strip)
        /\ Total(Spend(more)) = Total(Spend(segs)) + Len(Punctuated(strip))
    BY <1>1, <2>2, AppendCounts
  <2>8. /\ more \in Seq(SegmentType) /\ DOMAIN more = 1..(n + 1) /\ more[n + 1] = x
        /\ \A k \in 1..n : more[k] = segs[k]
    BY <1>1, <2>2 DEF n
  <2> HIDE DEF more
  <2>9. \A k \in 1..(n + 1) : k \in 1..n \/ k = n + 1
    BY <1>1
  <2>10. Apart(more)
    <3> SUFFICES ASSUME NEW s \in 1..(n + 1), NEW t \in 1..(n + 1), s # t,
                        IsSpeech(more, s), IsSpeech(more, t),
                        NEW k \in DOMAIN more[s].text, NEW m \in DOMAIN more[t].text
                 PROVE  more[s].text[k] # more[t].text[m]
      BY <2>8 DEF Apart
    <3>1. CASE s \in 1..n /\ t \in 1..n
      <4>1. Apart(segs) /\ DOMAIN segs = 1..n
        BY <1>1, <2>5 DEF WellSplit
      <4>2. more[s] = segs[s] /\ more[t] = segs[t] /\ s \in DOMAIN segs /\ t \in DOMAIN segs
        BY <2>8, <3>1, <4>1
      <4>3. IsSpeech(segs, s) /\ IsSpeech(segs, t)
        BY <4>2 DEF IsSpeech
      <4>4. k \in DOMAIN segs[s].text /\ m \in DOMAIN segs[t].text
        BY <4>2
      <4> HIDE DEF segs
      <4>5. segs[s].text[k] # segs[t].text[m]
        BY <4>1, <4>2, <4>3, <4>4 DEF Apart
      <4>. QED BY <4>2, <4>5
    <3>2. CASE s = n + 1 /\ t \in 1..n
      <4>1. PICK j \in DOMAIN text : strip[k] = text[j]
        BY <2>2, <2>3, <2>8, <3>2
      <4>. QED BY <1>1, <2>2, <2>4, <2>8, <3>2, <4>1 DEF IsSpeech
    <3>3. CASE s \in 1..n /\ t = n + 1
      <4>1. PICK j \in DOMAIN text : strip[m] = text[j]
        BY <2>2, <2>3, <2>8, <3>3
      <4>. QED BY <1>1, <2>2, <2>4, <2>8, <3>3, <4>1 DEF IsSpeech
    <3>. QED BY <2>9, <3>1, <3>2, <3>3
  <2>11. ASSUME NEW s \in DOMAIN more, IsSpeech(more, s), NEW k \in DOMAIN more[s].text
         PROVE  more[s].text[k] <= i
    <3>1. CASE s \in 1..n
      <4>. QED BY <1>1, <2>5, <2>8, <2>11, <3>1 DEF WellSplit, IsSpeech
    <3>2. CASE s = n + 1
      BY <2>2, <2>3, <2>4, <2>8, <2>11, <3>2
    <3>. QED BY <2>8, <2>9, <3>1, <3>2
  <2>12. Total(Lens(segs)) + Len(text) <= i /\ Total(Spend(segs)) + 2 * Len(text) <= 2 * i
    BY <2>5 DEF WellSplit
  <2>13. Len(Punctuated(strip)) \in Nat
    BY <2>6
  <2>14. Total(Lens(more)) + 0 <= i
    BY <1>1, <1>2, <1>3, <2>2, <2>7, <2>12
  <2>15. Total(Spend(more)) + 2 * 0 <= 2 * i
    BY <1>1, <1>2, <1>3, <2>2, <2>6, <2>7, <2>12, <2>13
  <2>. QED BY <2>1, <2>8, <2>10, <2>11, <2>14, <2>15 DEF WellSplit
<1>. QED BY <1>4, <1>5

AccType == [segments : Seq(SegmentType), text : Seq(Positions), effects : 0..MaxEffects]

ContentType == content \in Seq(Tokens) /\ Len(content) <= MaxLen

\* Positions are from 1 on, and the added atoms are none of them.
LEMMA PositionsAre ==
    ASSUME ContentType
    PROVE  /\ Len(content) \in Nat /\ Positions = 1..Len(content)
           /\ Positions \subseteq Nat \ {0} /\ Positions \subseteq Int
           /\ Dot \notin Positions /\ Powtarzam \notin Positions /\ Space \notin Positions
BY DEF ContentType, Positions, Dot, Powtarzam, Space

\* What a tag may still play.
LEMMA CountLeft ==
    ASSUME ContentType, NEW i \in Positions, content[i] \in Tags,
           NEW e \in 0..MaxEffects
    PROVE  LET count == Min({CountOf[content[i]], MaxEffects - e})
           IN  count \in 0..MaxEffects /\ e + count \in 0..MaxEffects
<1> DEFINE c == CountOf[content[i]]
           b == MaxEffects - e
<1>1. c \in Int /\ b \in Int /\ c >= 1 /\ b >= 0 /\ e \in Int /\ MaxEffects \in Int
  BY RenderingAssumption
<1>2. b <= MaxEffects /\ e + b = MaxEffects
  BY <1>1
<1> HIDE DEF c, b
<1>3. Min({c, b}) \in {c, b} /\ Min({c, b}) <= c /\ Min({c, b}) <= b
  BY <1>1, MinPair
<1>4. Min({c, b}) \in 0..MaxEffects /\ e + Min({c, b}) \in 0..MaxEffects
  <2> DEFINE m == Min({c, b})
  <2> HIDE DEF m
  <2>1. m \in {c, b} /\ m <= c /\ m <= b
    BY <1>3 DEF m
  <2>2. e >= 0
    OBVIOUS
  <2>3. m \in 0..MaxEffects
    BY <1>1, <1>2, <2>1
  <2>4. e + m \in 0..MaxEffects
    BY <1>1, <1>2, <2>1, <2>2
  <2>. QED BY <2>3, <2>4 DEF m
<1>. QED BY <1>4 DEF c, b

\* Flushing gives segments.
LEMMA FlushedType ==
    ASSUME NEW acc \in AccType
    PROVE  Flushed(acc) \in Seq(SegmentType)
<1>1. acc.segments \in Seq(SegmentType) /\ acc.text \in Seq(Positions)
  BY DEF AccType
<1>2. Strip(acc.text) \in Seq(Positions)
  BY <1>1, StripPart
<1>3. CASE Strip(acc.text) = <<>>
  BY <1>1, <1>3 DEF Flushed
<1>4. CASE Strip(acc.text) # <<>>
  <2>1. [kind |-> "speech", text |-> Strip(acc.text)] \in SegmentType
    BY <1>2, <1>4 DEF SegmentType, SpeechType
  <2>2. Flushed(acc) = Append(acc.segments, [kind |-> "speech", text |-> Strip(acc.text)])
    BY <1>4 DEF Flushed
  <2>. QED BY <1>1, <2>1, <2>2
<1>. QED BY <1>3, <1>4

\* One position more.
LEMMA SplitStep ==
    ASSUME ContentType, NEW acc \in AccType, NEW i \in Positions
    PROVE  /\ SplitAt(acc, i) \in AccType
           /\ SoFar(acc, i - 1) => SoFar(SplitAt(acc, i), i)
<1>0. /\ i \in Nat /\ i - 1 \in Nat
      /\ acc.segments \in Seq(SegmentType) /\ acc.text \in Seq(Positions)
      /\ acc.effects \in 0..MaxEffects
  BY PositionsAre DEF AccType
<1>1. CASE content[i] \notin Tags
  <2> DEFINE text == Append(acc.text, i)
             new == SplitAt(acc, i)
             n == Len(acc.text)
  <2>1. new = [acc EXCEPT !.text = text]
    BY <1>1 DEF SplitAt
  <2>2. /\ text \in Seq(Positions) /\ Len(text) = n + 1 /\ DOMAIN text = 1..(n + 1)
        /\ n \in Nat /\ DOMAIN acc.text = 1..n
        /\ text[n + 1] = i /\ \A k \in 1..n : text[k] = acc.text[k]
    BY <1>0
  <2> HIDE DEF text, n
  <2>3. new.segments = acc.segments /\ new.text = text /\ new.effects = acc.effects
        /\ new \in AccType
    BY <1>0, <2>1, <2>2 DEF AccType
  <2> HIDE DEF new
  <2>4. ASSUME SoFar(acc, i - 1) PROVE SoFar(new, i)
    <3> DEFINE segs == acc.segments
    <3>1. /\ WellSplit(segs, i - 1, n)
          /\ \A k \in 1..n :
                /\ acc.text[k] <= i - 1
                /\ \A s \in DOMAIN segs : IsSpeech(segs, s) =>
                      \A m \in DOMAIN segs[s].text : segs[s].text[m] # acc.text[k]
      BY <2>2, <2>4 DEF SoFar, n
    <3>2. Total(Lens(segs)) \in Nat /\ Total(Spend(segs)) \in Nat
      BY <1>0, CountsOfSegments
    <3>3. \A s \in DOMAIN segs : IsSpeech(segs, s) =>
              segs[s].text \in Seq(Positions)
      BY <1>0 DEF IsSpeech, SegmentType, SpeechType, EffectType
    <3>4. \A s \in DOMAIN segs : IsSpeech(segs, s) =>
              \A m \in DOMAIN segs[s].text : segs[s].text[m] <= i - 1 /\ segs[s].text[m] \in Int
      <4>1. \A s \in DOMAIN segs : IsSpeech(segs, s) =>
              \A m \in DOMAIN segs[s].text : segs[s].text[m] \in Positions
        BY <3>3
      <4>2. Positions \subseteq Int
        BY PositionsAre
      <4>. QED BY <3>1, <4>1, <4>2 DEF WellSplit
    <3> HIDE DEF segs
    <3>5. WellSplit(segs, i, n + 1)
      <4>1. \A s \in DOMAIN segs : IsSpeech(segs, s) =>
                \A m \in DOMAIN segs[s].text : segs[s].text[m] <= i
        BY <1>0, <3>4
      <4>2. Total(Lens(segs)) + (n + 1) <= i /\ Total(Spend(segs)) + 2 * (n + 1) <= 2 * i
        <5>1. Total(Lens(segs)) + n <= i - 1 /\ Total(Spend(segs)) + 2 * n <= 2 * (i - 1)
          BY <3>1 DEF WellSplit
        <5>2. i \in Int /\ n \in Int
          BY <1>0, <2>2
        <5> DEFINE a == Total(Lens(segs))
                   b == Total(Spend(segs))
        <5>3. a \in Int /\ b \in Int /\ a + n <= i - 1 /\ b + 2 * n <= 2 * (i - 1)
          BY <3>2, <5>1
        <5> HIDE DEF a, b, n
        <5>4. a + (n + 1) <= i /\ b + 2 * (n + 1) <= 2 * i
          BY <5>2, <5>3
        <5>. QED BY <5>4 DEF a, b
      <4>. QED BY <3>1, <4>1, <4>2 DEF WellSplit
    <3>6. ASSUME NEW k \in 1..(n + 1)
          PROVE  /\ text[k] <= i
                 /\ \A s \in DOMAIN segs : IsSpeech(segs, s) =>
                       \A m \in DOMAIN segs[s].text : segs[s].text[m] # text[k]
      <4>1. CASE k = n + 1
        <5>1. text[k] = i /\ i \in Nat
          BY <1>0, <2>2, <4>1
        <5>2. ASSUME NEW s \in DOMAIN segs, IsSpeech(segs, s), NEW m \in DOMAIN segs[s].text
              PROVE  segs[s].text[m] # i
          <6>1. segs[s].text[m] <= i - 1 /\ segs[s].text[m] \in Int
            BY <3>4, <5>2
          <6>. QED BY <5>1, <6>1
        <5>3. i <= i
          BY <5>1
        <5>. QED BY <5>1, <5>2, <5>3
      <4>2. CASE k # n + 1
        <5>1. k \in 1..n
          BY <2>2, <4>2
        <5>2. text[k] = acc.text[k] /\ acc.text[k] \in Positions
          BY <1>0, <2>2, <5>1
        <5>3. acc.text[k] <= i
          <6>1. acc.text[k] \in Int
            BY <5>2, PositionsAre
          <6>. QED BY <1>0, <3>1, <5>1, <6>1
        <5>. QED BY <3>1, <5>1, <5>2, <5>3
      <4>. QED BY <4>1, <4>2
    <3>. QED BY <1>0, <2>2, <2>3, <3>5, <3>6 DEF SoFar, segs
  <2>. QED BY <2>3, <2>4 DEF new
<1>2. CASE content[i] \in Tags
  <2> DEFINE count == Min({CountOf[content[i]], MaxEffects - acc.effects})
             flushed == Flushed(acc)
             x == [kind |-> "effect", at |-> i, count |-> count]
             more == IF count = 0 THEN flushed ELSE Append(flushed, x)
             new == SplitAt(acc, i)
  <2>1. new = [segments |-> more, text |-> <<>>, effects |-> acc.effects + count]
    BY <1>2 DEF SplitAt
  <2>2. count \in 0..MaxEffects /\ acc.effects + count \in 0..MaxEffects
    BY <1>0, <1>2, CountLeft
  <2>3. flushed \in Seq(SegmentType)
    BY FlushedType
  <2> HIDE DEF count, flushed
  <2>4. count # 0 => x \in SegmentType /\ x.kind = "effect"
    <3>1. count # 0 => count \in 1..MaxEffects
      BY <2>2
    <3>. QED BY <1>2, <3>1 DEF SegmentType, EffectType
  <2>5. more \in Seq(SegmentType)
    BY <2>3, <2>4
  <2>6. new \in AccType /\ new.segments = more /\ new.text = <<>>
        /\ new.effects = acc.effects + count
    <3> HIDE DEF more
    <3>1. <<>> \in Seq(Positions)
      OBVIOUS
    <3>. QED BY <2>1, <2>2, <2>5, <3>1 DEF AccType
  <2>7. ASSUME SoFar(acc, i - 1) PROVE SoFar(new, i)
    <3>1. WellSplit(flushed, i - 1, 0)
      BY <1>0, <2>7, FlushedWell DEF flushed
    <3>2. WellSplit(more, i, 0)
      <4>0. Total(Lens(flushed)) \in Nat /\ Total(Spend(flushed)) \in Nat
        BY <2>3, CountsOfSegments
      <4>5. \A s \in DOMAIN flushed : IsSpeech(flushed, s) =>
                \A k \in DOMAIN flushed[s].text : flushed[s].text[k] <= i
        <5>1. \A s \in DOMAIN flushed : IsSpeech(flushed, s) =>
                  flushed[s].text \in Seq(Positions)
          BY <2>3 DEF IsSpeech, SegmentType, SpeechType, EffectType
        <5>2. \A s \in DOMAIN flushed : IsSpeech(flushed, s) =>
                \A k \in DOMAIN flushed[s].text :
                    flushed[s].text[k] <= i - 1 /\ flushed[s].text[k] \in Int
          <6>1. \A s \in DOMAIN flushed : IsSpeech(flushed, s) =>
                \A k \in DOMAIN flushed[s].text : flushed[s].text[k] \in Positions
            BY <5>1
          <6>2. Positions \subseteq Int
            BY PositionsAre
          <6>. QED BY <3>1, <6>1, <6>2 DEF WellSplit
        <5>. QED BY <1>0, <5>2
      <4>1. CASE count = 0
        <5>1. Total(Lens(flushed)) + 0 <= i /\ Total(Spend(flushed)) + 2 * 0 <= 2 * i
          <6>1. Total(Lens(flushed)) + 0 <= i - 1 /\ Total(Spend(flushed)) + 2 * 0 <= 2 * (i - 1)
            BY <3>1 DEF WellSplit
          <6>. QED BY <1>0, <4>0, <6>1
        <5>. QED BY <3>1, <4>1, <4>5, <5>1 DEF WellSplit
      <4>2. CASE count # 0
        <5> DEFINE n == Len(flushed)
                   longer == Append(flushed, x)
        <5>1. x \in SegmentType /\ x.kind = "effect"
          BY <2>4, <4>2
        <5> HIDE DEF x
        <5>2. /\ n \in Nat /\ DOMAIN flushed = 1..n
              /\ longer \in Seq(SegmentType) /\ DOMAIN longer = 1..(n + 1) /\ longer[n + 1] = x
              /\ \A k \in 1..n : longer[k] = flushed[k]
          BY <2>3, <5>1
        <5>3. Total(Lens(longer)) = Total(Lens(flushed)) + 0
              /\ Total(Spend(longer)) = Total(Spend(flushed)) + 0
          BY <2>3, <5>1, AppendCounts
        <5> HIDE DEF longer, n
        <5>4. \A s \in 1..(n + 1) : IsSpeech(longer, s) =>
                  s \in 1..n /\ IsSpeech(flushed, s) /\ longer[s] = flushed[s]
          <6>1. \A s \in 1..(n + 1) : s \in 1..n \/ s = n + 1
            BY <5>2
          <6>. QED BY <5>1, <5>2, <6>1 DEF IsSpeech
        <5>5. Apart(longer)
          <6>1. Apart(flushed)
            BY <3>1 DEF WellSplit
          <6>. QED BY <5>2, <5>4, <6>1 DEF Apart
        <5>6. Total(Lens(longer)) + 0 <= i /\ Total(Spend(longer)) + 2 * 0 <= 2 * i
          <6>1. Total(Lens(flushed)) + 0 <= i - 1 /\ Total(Spend(flushed)) + 2 * 0 <= 2 * (i - 1)
            BY <3>1 DEF WellSplit
          <6>. QED BY <1>0, <4>0, <5>3, <6>1
        <5>7. \A s \in DOMAIN longer : IsSpeech(longer, s) =>
                \A k \in DOMAIN longer[s].text : longer[s].text[k] <= i
          BY <4>5, <5>2, <5>4
        <5>8. more = longer
          BY <4>2 DEF longer
        <5> HIDE DEF more
        <5>. QED BY <5>2, <5>5, <5>6, <5>7, <5>8 DEF WellSplit
      <4>. QED BY <4>1, <4>2
    <3> HIDE DEF more, new
    <3>3. Len(<<>>) = 0 /\ DOMAIN <<>> = {} /\ <<>> \in Seq(Positions)
      OBVIOUS
    <3>. QED BY <2>2, <2>6, <3>2, <3>3 DEF SoFar
  <2>. QED BY <2>6, <2>7
<1>. QED BY <1>1, <1>2

-----------------------------------------------------------------------------
(* split_segments as a whole.                                              *)

Start == [segments |-> <<>>, text |-> <<>>, effects |-> 0]

\* split_segments reads the content position by position.
LEMMA SplitFold ==
    ASSUME ContentType, NEW n, n = Len(content)
    PROVE  \E h : /\ h \in [0..n -> AccType]
                  /\ h[0] = Start
                  /\ \A i \in 1..n : h[i] = SplitAt(h[i - 1], i)
                  /\ SplitSegments = Flushed(h[n])
<1> DEFINE D == AccType
           at == [i \in DOMAIN content |-> i]
           F == [p \in D \X (1..n) |-> SplitAt(p[1], p[2])]
           Is(g) == g = [u \in SUBSET DOMAIN at |-> IF u = {} THEN Start
                            ELSE SplitAt(g[u \ {Max(u)}], at[Max(u)])]
           it == CHOOSE g : Is(g)
<1>0. n \in Nat /\ DOMAIN content = 1..n /\ Positions = 1..n
  BY PositionsAre DEF Positions
<1>1. DOMAIN at = 1..n /\ \A i \in 1..n : at[i] = i
  BY <1>0
<1> HIDE DEF at
<1>2. \A a \in D, i \in 1..n : F[<<a, i>>] = SplitAt(a, i)
  OBVIOUS
<1>3. \A a \in D, i \in 1..n : SplitAt(a, i) \in D
  BY <1>0, SplitStep
<1>4. PICK g \in [SUBSET (1..n) -> D] : LeftFolds(g, n, Start, F)
  <2>1. Start \in D
    <3>1. <<>> \in Seq(SegmentType) /\ <<>> \in Seq(Positions)
      OBVIOUS
    <3>2. 0 \in 0..MaxEffects
      BY RenderingAssumption
    <3>. QED BY <3>1, <3>2 DEF AccType, Start
  <2> HIDE DEF F, D
  <2>2. \A a \in D, i \in 1..n : F[<<a, i>>] \in D
    BY <1>2, <1>3
  <2>. QED BY <1>0, <2>1, <2>2, LeftFoldExists
<1>5. Is(g)
  <2> HIDE DEF F, D
  <2>1. ASSUME NEW u \in SUBSET (1..n), u # {}
        PROVE  g[u] = SplitAt(g[u \ {Max(u)}], at[Max(u)])
    <3>1. Max(u) \in 1..n /\ u \ {Max(u)} \in SUBSET (1..n)
      BY <1>0, <2>1, FirstOnes
    <3>2. at[Max(u)] = Max(u)
      BY <1>1, <3>1
    <3>3. g[u] = F[<<g[u \ {Max(u)}], Max(u)>>]
      BY <1>4, <2>1 DEF LeftFolds
    <3>4. g[u \ {Max(u)}] \in D
      BY <1>4, <3>1
    <3>. QED BY <1>2, <3>1, <3>2, <3>3, <3>4
  <2>2. g[{}] = Start
    BY <1>4 DEF LeftFolds
  <2>3. SUBSET DOMAIN at = SUBSET (1..n)
    BY <1>1
  <2>. QED BY <1>4, <2>1, <2>2, <2>3
<1>6. Is(it)
  <2> HIDE DEF F, D
  <2>. QED BY <1>5
<1>7. SplitSegments = Flushed(it[1..n])
  <2>1. SplitSegments = Flushed(FoldLeft(SplitAt, Start, at))
    BY DEF SplitSegments, FoldLeftDomain, Start, at
  <2>2. FoldLeft(SplitAt, Start, at) = it[DOMAIN at]
    BY DEF FoldLeft, MapThenFoldSet
  <2> HIDE DEF it
  <2>. QED BY <1>1, <2>1, <2>2
<1>8. it[{}] = Start /\ \A u \in SUBSET (1..n) : u # {} =>
          it[u] = SplitAt(it[u \ {Max(u)}], at[Max(u)])
  <2>1. SUBSET DOMAIN at = SUBSET (1..n)
    BY <1>1
  <2> HIDE DEF it
  <2>. QED BY <1>6, <2>1
<1> HIDE DEF it, F, Is, D
<1>9. it[1..0] = Start
  BY <1>0, <1>8, FirstOnes
<1>10. \A i \in 1..n : it[1..i] = SplitAt(it[1..(i - 1)], i)
  <2> SUFFICES ASSUME NEW i \in 1..n PROVE it[1..i] = SplitAt(it[1..(i - 1)], i)
    OBVIOUS
  <2>1. 1..i \in SUBSET (1..n) /\ 1..i # {} /\ Max(1..i) = i /\ (1..i) \ {i} = 1..(i - 1)
    <3>1. i \in 0..n
      BY <1>0
    <3>. QED BY <1>0, <3>1, FirstOnes
  <2>2. at[i] = i
    BY <1>1
  <2>3. it[1..i] = SplitAt(it[(1..i) \ {Max(1..i)}], at[Max(1..i)])
    BY <1>8, <2>1
  <2>. QED BY <2>1, <2>2, <2>3
<1> DEFINE h == [i \in 0..n |-> it[1..i]]
<1>11. h[0] = Start /\ h[n] = it[1..n]
  BY <1>0, <1>9
<1>12. \A i \in 1..n : h[i] = SplitAt(h[i - 1], i)
  <2> SUFFICES ASSUME NEW i \in 1..n PROVE h[i] = SplitAt(h[i - 1], i)
    OBVIOUS
  <2>1. h[i] = it[1..i] /\ h[i - 1] = it[1..(i - 1)]
    BY <1>0
  <2> HIDE DEF h
  <2>. QED BY <1>10, <2>1
<1>13. h = [i \in 0..n |-> h[i]]
  OBVIOUS
<1>14. Start \in D
    <2>1. <<>> \in Seq(SegmentType) /\ <<>> \in Seq(Positions)
      OBVIOUS
    <2>2. 0 \in 0..MaxEffects
      BY RenderingAssumption
    <2>. QED BY <2>1, <2>2 DEF AccType, Start, D
<1> HIDE DEF h
<1> DEFINE T == {i \in Nat : i <= n => h[i] \in D}
<1>15. 0 \in T
  BY <1>11, <1>14
<1>16. ASSUME NEW i \in Nat, i \in T PROVE i + 1 \in T
  <2>1. CASE i + 1 <= n
    <3> DEFINE k == i + 1
    <3>1. k \in 1..n /\ k - 1 = i /\ i <= n
      BY <1>0, <2>1
    <3>2. h[i] \in D
      BY <1>16, <3>1
    <3> HIDE DEF k
    <3>3. h[k] = SplitAt(h[i], k)
      BY <1>12, <3>1
    <3>4. h[k] \in D
      BY <1>3, <3>1, <3>2, <3>3
    <3>. QED BY <3>4 DEF k
  <2>2. CASE ~(i + 1 <= n)
    BY <2>2
  <2>. QED BY <2>1, <2>2
<1>17. Nat \subseteq T
  <2> HIDE DEF T
  <2>. QED BY <1>15, <1>16, NatInduct
<1>18. h \in [0..n -> AccType]
  <2>1. \A i \in 0..n : h[i] \in D
    BY <1>0, <1>17
  <2> HIDE DEF T
  <2>. QED BY <1>13, <2>1 DEF D
<1>. QED BY <1>7, <1>11, <1>12, <1>18

\* What split_segments makes of a content.
LEMMA SplitWell ==
    ASSUME ContentType
    PROVE  WellSplit(SplitSegments, Len(content), 0)
<1> DEFINE n == Len(content)
<1>0. n \in Nat /\ Positions = 1..n
  BY PositionsAre
<1> HIDE DEF n
<1>1. PICK h : /\ h \in [0..n -> AccType]
               /\ h[0] = Start
               /\ \A i \in 1..n : h[i] = SplitAt(h[i - 1], i)
               /\ SplitSegments = Flushed(h[n])
  BY SplitFold DEF n
<1> DEFINE T == {i \in Nat : i <= n => SoFar(h[i], i)}
<1>2. 0 \in T
  <2>1. /\ <<>> \in Seq(SegmentType) /\ <<>> \in Seq(Positions) /\ Len(<<>>) = 0
        /\ DOMAIN <<>> = {} /\ 0 \in 0..MaxEffects
    BY RenderingAssumption
  <2>2. Total(Lens(<<>>)) = 0
    <3>1. DOMAIN Lens(<<>>) = {}
      BY DEF Lens
    <3>. QED BY <3>1, TotalEmpty
  <2>3. Total(Spend(<<>>)) = 0
    <3>1. DOMAIN Spend(<<>>) = {}
      BY DEF Spend
    <3>. QED BY <3>1, TotalEmpty
  <2>4. WellSplit(<<>>, 0, 0)
    <3>1. Total(Lens(<<>>)) + 0 <= 0 /\ Total(Spend(<<>>)) + 2 * 0 <= 2 * 0
      BY <2>2, <2>3
    <3>2. Apart(<<>>)
      BY <2>1 DEF Apart
    <3>. QED BY <2>1, <3>1, <3>2 DEF WellSplit
  <2>5. Start.segments = <<>> /\ Start.text = <<>> /\ Start.effects = 0
    BY DEF Start
  <2>6. SoFar(Start, 0)
    <3> HIDE DEF T
    <3>. QED BY <2>1, <2>4, <2>5 DEF SoFar
  <2>. QED BY <1>1, <2>6
<1>3. ASSUME NEW i \in Nat, i \in T PROVE i + 1 \in T
  <2>1. CASE i + 1 <= n
    <3> DEFINE k == i + 1
    <3>1. k \in 1..n /\ k - 1 = i /\ i <= n /\ i \in 0..n
      BY <1>0, <2>1
    <3>2. SoFar(h[i], i)
      BY <1>3, <3>1
    <3> HIDE DEF k
    <3>3. h[k] = SplitAt(h[i], k) /\ h[i] \in AccType /\ k \in Positions
      BY <1>0, <1>1, <3>1
    <3>4. SoFar(h[k], k)
      BY <3>1, <3>2, <3>3, SplitStep
    <3>. QED BY <3>4 DEF k
  <2>2. CASE ~(i + 1 <= n)
    BY <2>2
  <2>. QED BY <2>1, <2>2
<1>4. Nat \subseteq T
  <2> HIDE DEF T
  <2>. QED BY <1>2, <1>3, NatInduct
<1>5. SoFar(h[n], n)
  BY <1>0, <1>4
<1>. QED BY <1>0, <1>1, <1>5, FlushedWell DEF n

-----------------------------------------------------------------------------
(* What joining texts adds up to.                                          *)

\* All of these are texts over A, and what they weigh is bounded.
Fits(f, s, texts, n, A, u) ==
    /\ u \in Nat
    /\ f \in [A -> Nat]
    /\ Weigh(f, s) <= 1
    /\ \A i \in 1..n : Weigh(f, texts[i]) <= u

\* Join of texts is a text.
LEMMA JoinType ==
    ASSUME NEW A, NEW s \in Seq(A), NEW n \in Nat, NEW texts \in [1..n -> Seq(A)]
    PROVE  Join(s, texts) \in Seq(A)
<1>1. PICK j : Joined(j, s, texts, n, A) /\ Join(s, texts) = j[n]
  BY JoinFold
<1>. QED BY <1>1 DEF Joined

\* n texts of at most u units, with a separator of one between each two.
LEMMA JoinFits ==
    ASSUME NEW A, NEW s \in Seq(A), NEW n \in Nat \ {0}, NEW texts \in [1..n -> Seq(A)],
           NEW f, NEW u, Fits(f, s, texts, n, A, u)
    PROVE  Weigh(f, Join(s, texts)) + 1 <= n * (u + 1)
<1>0. /\ u \in Nat /\ f \in [A -> Nat] /\ Weigh(f, s) <= 1 /\ Weigh(f, s) \in Nat
      /\ \A i \in 1..n : Weigh(f, texts[i]) <= u /\ Weigh(f, texts[i]) \in Nat
  BY WeighType DEF Fits
<1>1. PICK j : Joined(j, s, texts, n, A) /\ Join(s, texts) = j[n]
  BY JoinFold
<1>2. /\ \A i \in 0..n : j[i] \in Seq(A)
      /\ j[0] = <<>>
      /\ \A i \in 1..n : j[i] = j[i - 1] \o (IF i = 1 THEN <<>> ELSE s) \o texts[i]
  BY <1>1 DEF Joined
<1>3. ASSUME NEW i \in 1..n
      PROVE  Weigh(f, j[i]) = Weigh(f, j[i - 1]) + (IF i = 1 THEN 0 ELSE Weigh(f, s))
                                 + Weigh(f, texts[i])
  <2> DEFINE sep == IF i = 1 THEN <<>> ELSE s
  <2>1. j[i - 1] \in Seq(A) /\ sep \in Seq(A) /\ texts[i] \in Seq(A)
    BY <1>2
  <2>2. Weigh(f, sep) = IF i = 1 THEN 0 ELSE Weigh(f, s)
    BY WeighEmpty
  <2>4. j[i] = (j[i - 1] \o sep) \o texts[i]
    BY <1>2
  <2> HIDE DEF sep
  <2>5. j[i - 1] \o sep \in Seq(A)
    BY <2>1
  <2>6. Weigh(f, j[i]) = Weigh(f, j[i - 1] \o sep) + Weigh(f, texts[i])
    BY <1>0, <2>1, <2>4, <2>5, WeighConcat, ZenonT(40)
  <2>7. Weigh(f, j[i - 1] \o sep) = Weigh(f, j[i - 1]) + Weigh(f, sep)
    BY <1>0, <2>1, WeighConcat, ZenonT(40)
  <2>. QED BY <2>2, <2>6, <2>7
<1>4. \A i \in 0..n : Weigh(f, j[i]) \in Nat
  BY <1>0, <1>2, WeighType
<1> DEFINE T == {i \in Nat : i + 1 <= n => Weigh(f, j[i + 1]) + 1 <= (i + 1) * (u + 1)}
<1>5. 0 \in T
  <2>1. 1 \in 1..n /\ 1 - 1 = 0 /\ 0 + 1 = 1 /\ 1 * (u + 1) = u + 1
    BY <1>0
  <2>2. Weigh(f, j[0]) = 0
    BY <1>2, WeighEmpty
  <2>3. Weigh(f, j[1]) = 0 + 0 + Weigh(f, texts[1])
    BY <1>3, <2>1, <2>2
  <2>. QED BY <1>0, <2>1, <2>3
<1>6. ASSUME NEW i \in Nat, i \in T PROVE i + 1 \in T
  <2>1. CASE i + 2 <= n
    <3> DEFINE k == i + 1
               l == i + 2
    <3>1. l \in 1..n /\ l - 1 = k /\ k \in 0..n /\ l # 1 /\ k + 1 = l /\ k <= n /\ k \in Nat
      BY <2>1
    <3>2. Weigh(f, j[k]) + 1 <= k * (u + 1)
      BY <1>6, <3>1
    <3>3. l * (u + 1) = k * (u + 1) + (u + 1)
      BY <1>0
    <3>7. k * (u + 1) \in Int
      BY <1>0
    <3> HIDE DEF k, l
    <3>4. Weigh(f, j[l]) = Weigh(f, j[k]) + Weigh(f, s) + Weigh(f, texts[l])
      BY <1>3, <3>1
    <3>5. Weigh(f, texts[l]) <= u /\ Weigh(f, texts[l]) \in Nat /\ Weigh(f, j[k]) \in Nat
      BY <1>0, <1>4, <3>1
    <3>6. Weigh(f, j[l]) + 1 <= l * (u + 1)
      BY <1>0, <3>2, <3>3, <3>4, <3>5, <3>7, SMTT(20)
    <3>8. l = (i + 1) + 1
      BY DEF l
    <3>9. Weigh(f, j[(i + 1) + 1]) + 1 <= ((i + 1) + 1) * (u + 1)
      BY <3>6, <3>8
    <3>. QED BY <3>9
  <2>2. CASE ~(i + 2 <= n)
    BY <2>2
  <2>. QED BY <2>1, <2>2
<1>7. Nat \subseteq T
  <2> HIDE DEF T
  <2>. QED BY <1>5, <1>6, NatInduct
<1>8. Weigh(f, j[n]) + 1 <= n * (u + 1)
  <2>1. n - 1 \in Nat /\ (n - 1) + 1 = n /\ n <= n
    OBVIOUS
  <2>2. n - 1 \in T
    BY <1>7, <2>1
  <2>. QED BY <2>1, <2>2
<1>. QED BY <1>1, <1>8

\* Joined by what weighs nothing, the texts weigh what they weigh together.
Bounds(f, s, texts, n, A, w) ==
    /\ f \in [A -> Nat]
    /\ Weigh(f, s) = 0
    /\ AreCounts(w, n)
    /\ \A i \in 1..n : Weigh(f, texts[i]) <= w[i]

\* Texts joined by what weighs nothing weigh no more than together.
LEMMA JoinSum ==
    ASSUME NEW A, NEW s \in Seq(A), NEW n \in Nat, NEW texts \in [1..n -> Seq(A)],
           NEW f, NEW w, Bounds(f, s, texts, n, A, w)
    PROVE  Weigh(f, Join(s, texts)) <= Total(w)
<1>0. /\ f \in [A -> Nat] /\ Weigh(f, s) = 0 /\ w \in [1..n -> Nat]
      /\ \A i \in 1..n : Weigh(f, texts[i]) <= w[i] /\ Weigh(f, texts[i]) \in Nat
  BY WeighType DEF Bounds, AreCounts
<1>1. PICK j : Joined(j, s, texts, n, A) /\ Join(s, texts) = j[n]
  BY JoinFold
<1>2. /\ \A i \in 0..n : j[i] \in Seq(A)
      /\ j[0] = <<>>
      /\ \A i \in 1..n : j[i] = j[i - 1] \o (IF i = 1 THEN <<>> ELSE s) \o texts[i]
  BY <1>1 DEF Joined
<1>3. ASSUME NEW i \in 1..n
      PROVE  Weigh(f, j[i]) = Weigh(f, j[i - 1]) + Weigh(f, texts[i])
  <2> DEFINE sep == IF i = 1 THEN <<>> ELSE s
  <2>1. j[i - 1] \in Seq(A) /\ sep \in Seq(A) /\ texts[i] \in Seq(A)
    BY <1>2
  <2>2. Weigh(f, sep) = 0
    BY <1>0, WeighEmpty
  <2>4. j[i] = (j[i - 1] \o sep) \o texts[i]
    BY <1>2
  <2> HIDE DEF sep
  <2>5. j[i - 1] \o sep \in Seq(A)
    BY <2>1
  <2>6. Weigh(f, j[i]) = Weigh(f, j[i - 1] \o sep) + Weigh(f, texts[i])
    BY <1>0, <2>1, <2>4, <2>5, WeighConcat
  <2>7. Weigh(f, j[i - 1] \o sep) = Weigh(f, j[i - 1]) + Weigh(f, sep)
    BY <1>0, <2>1, WeighConcat
  <2>8. Weigh(f, j[i - 1]) \in Nat
    BY <1>0, <2>1, WeighType
  <2>. QED BY <2>2, <2>6, <2>7, <2>8
<1>4. \A i \in 0..n : Weigh(f, j[i]) \in Nat
  BY <1>0, <1>2, WeighType
<1>9. PICK p : Partial(p, w, n) /\ Total(w) = p[n]
  BY <1>0, TotalFold
<1>10. p[0] = 0 /\ (\A i \in 0..n : p[i] \in Nat) /\ \A i \in 1..n : p[i] = p[i - 1] + w[i]
  BY <1>9 DEF Partial
<1> DEFINE T == {i \in Nat : i <= n => Weigh(f, j[i]) <= p[i]}
<1>5. 0 \in T
  BY <1>2, <1>10, WeighEmpty
<1>6. ASSUME NEW i \in Nat, i \in T PROVE i + 1 \in T
  <2>1. CASE i + 1 <= n
    <3> DEFINE k == i + 1
    <3>1. k \in 1..n /\ k - 1 = i /\ i \in 0..n /\ i <= n /\ k \in 0..n
      BY <2>1
    <3>2. Weigh(f, j[i]) <= p[i]
      BY <1>6, <3>1
    <3> HIDE DEF k
    <3>3. Weigh(f, j[k]) = Weigh(f, j[i]) + Weigh(f, texts[k]) /\ p[k] = p[i] + w[k]
      BY <1>3, <1>10, <3>1
    <3>4. /\ Weigh(f, texts[k]) <= w[k] /\ Weigh(f, texts[k]) \in Nat /\ Weigh(f, j[i]) \in Nat
          /\ w[k] \in Nat /\ p[i] \in Nat
      BY <1>0, <1>4, <1>10, <3>1
    <3>5. Weigh(f, j[k]) <= p[k]
      BY <3>2, <3>3, <3>4
    <3>. QED BY <3>5 DEF k
  <2>2. CASE ~(i + 1 <= n)
    BY <2>2
  <2>. QED BY <2>1, <2>2
<1>7. Nat \subseteq T
  <2> HIDE DEF T
  <2>. QED BY <1>5, <1>6, NatInduct
<1>. QED BY <1>1, <1>7, <1>9

\* What is joined begins as the first text does.
LEMMA JoinFirst ==
    ASSUME NEW A, NEW s \in Seq(A), NEW n \in Nat \ {0}, NEW texts \in [1..n -> Seq(A)],
           texts[1] # <<>>
    PROVE  Len(Join(s, texts)) >= 1 /\ Join(s, texts)[1] = texts[1][1]
<1>1. PICK j : Joined(j, s, texts, n, A) /\ Join(s, texts) = j[n]
  BY JoinFold
<1>2. /\ \A i \in 0..n : j[i] \in Seq(A)
      /\ j[0] = <<>>
      /\ \A i \in 1..n : j[i] = j[i - 1] \o (IF i = 1 THEN <<>> ELSE s) \o texts[i]
  BY <1>1 DEF Joined
<1>0. \A i \in 1..n : texts[i] \in Seq(A)
  OBVIOUS
<1> DEFINE Begins(a) == Len(a) >= 1 /\ a[1] = texts[1][1]
           T == {i \in Nat : i + 1 <= n => Begins(j[i + 1])}
<1>8. ASSUME NEW a \in Seq(A), NEW b \in Seq(A), Begins(a) PROVE Begins(a \o b)
  BY <1>8
<1>3. 0 \in T
  <2>1. 1 \in 1..n /\ 1 - 1 = 0 /\ texts[1] \in Seq(A)
    BY <1>0
  <2>2. j[1] = <<>> \o <<>> \o texts[1]
    BY <1>2, <2>1
  <2>3. <<>> \o <<>> \o texts[1] = texts[1]
    BY <2>1, ConcatEmptySeq
  <2>. QED BY <2>1, <2>2, <2>3
<1>4. ASSUME NEW i \in Nat, i \in T PROVE i + 1 \in T
  <2>1. CASE i + 2 <= n
    <3> DEFINE k == i + 1
               l == i + 2
    <3>1. l \in 1..n /\ l - 1 = k /\ k \in 0..n /\ l # 1 /\ l = (i + 1) + 1 /\ i + 1 <= n
      BY <2>1
    <3>2. Begins(j[k])
      BY <1>4, <3>1
    <3> HIDE DEF k, l
    <3>3. j[l] = j[k] \o s \o texts[l] /\ j[k] \in Seq(A) /\ texts[l] \in Seq(A)
      BY <1>0, <1>2, <3>1
    <3>4. Begins(j[l])
      <4> HIDE DEF Begins
      <4>1. j[k] \o s \in Seq(A) /\ Begins(j[k] \o s)
        BY <1>8, <3>2, <3>3
      <4>2. Begins((j[k] \o s) \o texts[l])
        BY <1>8, <3>3, <4>1
      <4>. QED BY <3>3, <4>2
    <3>. QED BY <3>1, <3>4
  <2>2. CASE ~(i + 2 <= n)
    BY <2>2
  <2>. QED BY <2>1, <2>2
<1>5. Nat \subseteq T
  <2> HIDE DEF T
  <2>. QED BY <1>3, <1>4, NatInduct
<1>6. n - 1 \in Nat /\ (n - 1) + 1 = n /\ n <= n
  OBVIOUS
<1>7. Begins(j[n])
  BY <1>5, <1>6
<1>. QED BY <1>1, <1>7

-----------------------------------------------------------------------------
(* The texts a plain message is made of.                                   *)

\* A truncated text fits the budget, says no more and begins alike.
LEMMA TruncatedFacts ==
    ASSUME NEW x \in Seq(TextAtoms)
    PROVE  /\ Truncated(x) \in Seq(TextAtoms)
           /\ Units(Truncated(x)) \in Nat
           /\ Units(Truncated(x)) <= MaxSpoken
           /\ Units(Truncated(x)) <= Units(x)
           /\ Len(x) >= 1 /\ MaxSpoken >= 1 =>
                 Len(Truncated(x)) >= 1 /\ Truncated(x)[1] = x[1]
<1> DEFINE n == Len(x)
           m == Min({n, MaxSpoken})
           r == SubSeq(x, 1, m)
<1>0. n \in Nat /\ MaxSpoken \in Nat /\ n \in Int /\ MaxSpoken \in Int
  BY RenderingAssumption
<1>1. m \in {n, MaxSpoken} /\ m <= n /\ m <= MaxSpoken
  <2> HIDE DEF n
  <2>. QED BY <1>0, MinPair
<1>2. m \in 0..n
  <2> HIDE DEF m, n
  <2>. QED BY <1>0, <1>1
<1>3. r \in Seq(TextAtoms) /\ Units(r) <= Units(x)
  <2> HIDE DEF m
  <2>. QED BY <1>2, UnitsCut
<1>4. Len(r) = m /\ (m >= 1 => r[1] = x[1])
  <2> HIDE DEF m
  <2>. QED BY <1>2
<1>5. Units(r) \in Nat /\ Units(r) <= m
  <2> HIDE DEF m, r
  <2>. QED BY <1>3, <1>4, UnitsType
<1> HIDE DEF m, n
<1>6. Units(r) <= MaxSpoken
  BY <1>0, <1>1, <1>2, <1>5
<1>7. n >= 1 /\ MaxSpoken >= 1 => m >= 1
  BY <1>1
<1> HIDE DEF r
<1>8. Truncated(x) = r
  BY DEF Truncated, r, m, n
<1>. QED BY <1>3, <1>4, <1>5, <1>6, <1>7, <1>8 DEF n

AllSpeech == \A s \in DOMAIN segments : IsSpeech(segments, s)

\* The text of a speech segment.
LEMMA TextOf ==
    ASSUME ContentType, segments \in Seq(SegmentType),
           NEW s \in 1..Len(segments), IsSpeech(segments, s)
    PROVE  /\ segments[s].text \in Seq(Positions) /\ segments[s].text \in Seq(TextAtoms)
           /\ Len(segments[s].text) >= 1 /\ segments[s].text[1] \in Positions
           /\ 1 \in DOMAIN segments[s].text
           /\ Punctuated(segments[s].text) \in Seq(TextAtoms)
           /\ Len(Punctuated(segments[s].text)) >= 1
           /\ Punctuated(segments[s].text)[1] = segments[s].text[1]
           /\ Units(Punctuated(segments[s].text)) \in Nat
           /\ Units(Punctuated(segments[s].text)) <= Spend(segments)[s]
           /\ Units(segments[s].text) <= Lens(segments)[s]
<1> DEFINE text == segments[s].text
<1>1. text \in Seq(Positions) /\ text # <<>>
  BY DEF IsSpeech, SegmentType, SpeechType, EffectType
<1>2. Len(text) \in Nat /\ Len(text) >= 1 /\ text[1] \in Positions /\ 1 \in DOMAIN text
  <2> HIDE DEF text
  <2>. QED BY <1>1
<1>3. Positions \subseteq TextAtoms /\ Dot \in TextAtoms
  BY DEF TextAtoms
<1>4. text \in Seq(TextAtoms)
  <2> HIDE DEF text
  <2>. QED BY <1>1, <1>3
<1>5. /\ Punctuated(text) \in Seq(TextAtoms)
      /\ Len(text) <= Len(Punctuated(text))
      /\ \A k \in 1..Len(text) : Punctuated(text)[k] = text[k]
  <2> HIDE DEF text
  <2>. QED BY <1>1, <1>3, PunctuatedLen
<1>6. Units(Punctuated(text)) \in Nat /\ Units(Punctuated(text)) <= Len(Punctuated(text))
      /\ Units(text) <= Len(text) /\ Len(Punctuated(text)) \in Nat
  <2> HIDE DEF text
  <2>. QED BY <1>4, <1>5, UnitsType
<1>7. DOMAIN segments = 1..Len(segments)
  OBVIOUS
<1>8. Spend(segments)[s] = Len(Punctuated(text)) /\ Lens(segments)[s] = Len(text)
  BY <1>7 DEF Spend, Lens, IsSpeech
<1>9. Len(Punctuated(text)) >= 1 /\ Punctuated(text)[1] = text[1]
  <2> HIDE DEF text
  <2>. QED BY <1>2, <1>5, <1>6
<1> HIDE DEF text
<1>10. QED
  BY <1>1, <1>2, <1>4, <1>5, <1>6, <1>8, <1>9 DEF text

\* What a plain message says once.
LEMMA SpokenFacts ==
    ASSUME ContentType, WellSplit(segments, Len(content), 0), AllSpeech
    PROVE  /\ Spoken \in Seq(TextAtoms)
           /\ Units(Spoken) \in Nat /\ Units(Spoken) <= MaxSpoken
           /\ Spoken # <<>> => /\ Len(Spoken) >= 1 /\ Spoken[1] \in Positions
                               /\ MaxSpoken >= 1
<1> DEFINE n == Len(segments)
           texts == [i \in DOMAIN segments |-> segments[i].text]
           J == Join(<<Space>>, texts)
<1>0. segments \in Seq(SegmentType) /\ n \in Nat /\ DOMAIN segments = 1..n
  BY DEF WellSplit
<1>1. \A s \in 1..n : IsSpeech(segments, s)
  BY <1>0 DEF AllSpeech
<1>2. texts \in [1..n -> Seq(TextAtoms)]
  <2>1. \A s \in 1..n : segments[s].text \in Seq(TextAtoms)
    BY <1>0, <1>1, TextOf
  <2> HIDE DEF n
  <2>. QED BY <1>0, <2>1
<1>3. <<Space>> \in Seq(TextAtoms) /\ Space \in TextAtoms /\ Dot \in TextAtoms
  BY DEF TextAtoms
<1>4. Ink \in [TextAtoms -> Nat] /\ Weigh(Ink, <<Space>>) = 0
  <2>1. Ink \in [TextAtoms -> Nat] /\ Ink[Space] = 0
    BY <1>3 DEF Ink
  <2>. QED BY <1>3, <2>1, WeighOne
<1>5. Bounds(Ink, <<Space>>, texts, n, TextAtoms, Lens(segments))
  <2>1. AreCounts(Lens(segments), n)
    BY <1>0, CountsOfSegments DEF AreCounts
  <2>2. \A i \in 1..n : Weigh(Ink, texts[i]) <= Lens(segments)[i]
    <3> SUFFICES ASSUME NEW i \in 1..n PROVE Weigh(Ink, texts[i]) <= Lens(segments)[i]
      OBVIOUS
    <3>1. texts[i] = segments[i].text
      BY <1>0
    <3>2. segments[i].text \in Seq(TextAtoms) /\ Units(segments[i].text) <= Lens(segments)[i]
      BY <1>0, <1>1, TextOf
    <3>3. Units(segments[i].text) = Weigh(Ink, segments[i].text)
      BY <3>2, UnitsWeigh
    <3>. QED BY <3>1, <3>2, <3>3
  <2> HIDE DEF n, texts
  <2>. QED BY <1>4, <2>1, <2>2 DEF Bounds
<1>6. J \in Seq(TextAtoms)
  <2> HIDE DEF n, texts
  <2>. QED BY <1>0, <1>2, <1>3, JoinType
<1>7. Weigh(Ink, J) <= Total(Lens(segments))
  <2> HIDE DEF n, texts
  <2>. QED BY <1>0, <1>2, <1>3, <1>5, JoinSum
<1>8. Spoken = Punctuated(J)
  BY DEF Spoken
<1>9. Total(Lens(segments)) \in Nat /\ Total(Lens(segments)) <= Len(content)
  <2>1. Total(Lens(segments)) \in Nat
    BY <1>0, CountsOfSegments
  <2>2. Total(Lens(segments)) + 0 <= Len(content)
    BY DEF WellSplit
  <2>. QED BY <2>1, <2>2
<1>10. CASE n = 0
  <2>1. J = <<>>
    <3>1. PICK j : Joined(j, <<Space>>, texts, n, TextAtoms) /\ J = j[n]
      <4> HIDE DEF n, texts
      <4>. QED BY <1>0, <1>2, <1>3, JoinFold
    <3> HIDE DEF n, texts
    <3>. QED BY <1>10, <3>1 DEF Joined
  <2>2. Spoken = <<>>
    BY <1>8, <2>1 DEF Punctuated
  <2>3. Units(<<>>) = 0 /\ <<>> \in Seq(TextAtoms) /\ MaxSpoken \in Nat
    BY UnitsEmpty, RenderingAssumption
  <2>. QED BY <2>2, <2>3
<1>11. CASE n # 0
  <2>1. 1 \in 1..n /\ n \in Nat \ {0}
    BY <1>0, <1>11
  <2>2. segments[1].text[1] \in Positions /\ Len(segments[1].text) >= 1 /\ segments[1].text # <<>>
    <3>1. Len(segments[1].text) >= 1 /\ segments[1].text[1] \in Positions
      BY <1>0, <1>1, <2>1, TextOf
    <3>2. Len(<<>>) = 0
      OBVIOUS
    <3>. QED BY <3>1, <3>2
  <2>3. texts[1] = segments[1].text
    BY <1>0, <2>1
  <2>4. Len(J) >= 1 /\ J[1] = segments[1].text[1]
    <3> HIDE DEF texts, n
    <3>1. texts[1] # <<>>
      BY <2>2, <2>3
    <3>2. Len(J) >= 1 /\ J[1] = texts[1][1]
      BY <1>2, <1>3, <2>1, <3>1, JoinFirst
    <3>. QED BY <2>3, <3>2
  <2>5. Len(content) >= 1 /\ Len(content) <= MaxLen /\ Len(content) \in Nat
    BY <2>2, PositionsAre DEF ContentType
  <2>6. Weigh(Ink, J) + 1 <= MaxSpoken /\ Weigh(Ink, J) \in Nat /\ MaxSpoken >= 1
    <3>1. MaxLen \in Nat /\ MaxSpoken \in Nat /\ MaxSpoken >= 2 * MaxLen
      BY RenderingAssumption
    <3>2. Weigh(Ink, J) \in Nat
      <4> HIDE DEF J
      <4>. QED BY <1>4, <1>6, WeighType
    <3> HIDE DEF J
    <3>. QED BY <1>7, <1>9, <2>5, <3>1, <3>2
  <2> HIDE DEF J, texts, n
  <2>7. Punctuated(J) = J \/ Punctuated(J) = Append(J, Dot)
    BY DEF Punctuated
  <2>8. Weigh(Ink, Append(J, Dot)) = Weigh(Ink, J) + 1
    <3>1. Ink[Dot] = 1
      BY <1>3 DEF Ink, Dot, Space
    <3>. QED BY <1>3, <1>4, <1>6, <3>1, WeighAppend
  <2>9. /\ Punctuated(J) \in Seq(TextAtoms) /\ Len(Punctuated(J)) >= 1
        /\ Punctuated(J)[1] = J[1]
    BY <1>3, <1>6, <2>4, <2>7
  <2>10. Units(Punctuated(J)) = Weigh(Ink, Punctuated(J))
    BY <2>9, UnitsWeigh
  <2>11. Weigh(Ink, Punctuated(J)) \in Nat /\ Weigh(Ink, Punctuated(J)) <= MaxSpoken
    <3>1. CASE Punctuated(J) = J
      BY <2>6, <3>1, RenderingAssumption
    <3>2. CASE Punctuated(J) = Append(J, Dot)
      BY <2>6, <2>8, <3>2, RenderingAssumption
    <3>. QED BY <2>7, <3>1, <3>2
  <2>. QED BY <1>8, <2>2, <2>4, <2>6, <2>9, <2>10, <2>11
<1>. QED BY <1>10, <1>11

-----------------------------------------------------------------------------
(* The runs of a pass.                                                     *)

\* What the first k segments say, and what those from a to b say.
PrefixOf(w, k) == Total([i \in 1..k |-> w[i]])
Prefix(k) == PrefixOf(Spend(segments), k)
Slice(a, b) == Total([i \in 1..(b - a + 1) |-> Spend(segments)[a + i - 1]])

\* What the first segments say, up to what one copy says.
LEMMA PrefixFacts ==
    ASSUME segments \in Seq(SegmentType)
    PROVE  /\ Prefix(0) = 0
           /\ \A k \in 0..Len(segments) : Prefix(k) \in Nat
           /\ Prefix(Len(segments)) = SpokenPerCopy
           /\ SpokenPerCopy \in Nat
<1> DEFINE n == Len(segments)
           w == Spend(segments)
<1>0. n \in Nat /\ DOMAIN segments = 1..n
  OBVIOUS
<1>1. w \in [1..n -> Nat] /\ Total(w) \in Nat
  BY CountsOfSegments
<1>2. SpokenPerCopy = Total(w)
  BY DEF SpokenPerCopy, Spend
<1> HIDE DEF n, w
<1>3. Prefix(n) = Total(w)
  <2>1. [i \in 1..n |-> w[i]] = w
    BY <1>1
  <2>. QED BY <2>1 DEF Prefix, PrefixOf, w
<1>4. ASSUME NEW k \in 0..n PROVE Prefix(k) \in Nat
  <2>1. k \in Nat /\ \A i \in 1..k : i \in 1..n
    BY <1>0
  <2>2. [i \in 1..k |-> w[i]] \in [1..k -> Nat]
    BY <1>1, <2>1
  <2>3. Total([i \in 1..k |-> w[i]]) \in Nat
    BY <2>1, <2>2, TotalType
  <2>. QED BY <2>3 DEF Prefix, PrefixOf, w
<1>5. Prefix(0) = 0
  <2> DEFINE v == [i \in 1..0 |-> w[i]]
  <2>1. DOMAIN v = {}
    OBVIOUS
  <2>2. Total(v) = 0
    <3> HIDE DEF v
    <3>. QED BY <2>1, TotalEmpty
  <2>. QED BY <2>2 DEF Prefix, PrefixOf, w
<1>. QED BY <1>1, <1>2, <1>3, <1>4, <1>5 DEF n

\* A prefix and the segments after it.
LEMMA PrefixSlice ==
    ASSUME segments \in Seq(SegmentType),
           NEW a \in 1..Len(segments), NEW b \in a..Len(segments)
    PROVE  /\ Slice(a, b) \in Nat
           /\ Prefix(b) = Prefix(a - 1) + Slice(a, b)
<1> DEFINE n == Len(segments)
           w == Spend(segments)
           m == a - 1
           l == b - a + 1
           u == [i \in 1..m |-> w[i]]
           v == [i \in 1..l |-> w[a + i - 1]]
           t == [i \in 1..b |-> w[i]]
<1>0. n \in Nat /\ w \in [1..n -> Nat]
  BY CountsOfSegments
<1>1. /\ m \in Nat /\ l \in Nat /\ b \in Nat /\ b = m + l
      /\ \A i \in 1..m : i \in 1..b /\ i \in 1..n
      /\ \A i \in 1..l : a + i - 1 = m + i /\ m + i \in 1..b /\ m + i \in 1..n
      /\ \A i \in 1..b : i \in 1..n
  BY <1>0
<1> HIDE DEF w, n, m, l
<1>2. u \in [1..m -> Nat] /\ v \in [1..l -> Nat] /\ t \in [1..b -> Nat]
  <2>1. \A i \in 1..m : w[i] \in Nat
    BY <1>0, <1>1
  <2>2. \A i \in 1..l : w[a + i - 1] \in Nat
    BY <1>0, <1>1
  <2>3. \A i \in 1..b : w[i] \in Nat
    BY <1>0, <1>1
  <2>. QED BY <2>1, <2>2, <2>3
<1>3. Agree(u, t, m)
  BY <1>1 DEF Agree
<1>4. EndsIn(t, b, v, l, m)
  BY <1>1 DEF EndsIn
<1>5. AreCounts(u, m) /\ AreCounts(v, l) /\ AreCounts(t, b)
  <2> HIDE DEF u, v, t
  <2>. QED BY <1>1, <1>2 DEF AreCounts
<1>6. Total(t) = Total(u) + Total(v) /\ Total(v) \in Nat
  <2> HIDE DEF u, v, t
  <2>1. Total(v) \in Nat
    BY <1>1, <1>2, TotalType
  <2>. QED BY <1>3, <1>4, <1>5, <2>1, TotalConcat
<1>7. Prefix(b) = Total(t)
  BY DEF Prefix, PrefixOf, w
<1>8. Prefix(a - 1) = Total(u)
  BY DEF Prefix, PrefixOf, w, m
<1>9. Slice(a, b) = Total(v)
  BY DEF Slice, w, l
<1>. QED BY <1>6, <1>7, <1>8, <1>9

\* One segment is a slice.
LEMMA SliceOne ==
    ASSUME segments \in Seq(SegmentType), NEW a \in 1..Len(segments)
    PROVE  Slice(a, a) = Spend(segments)[a]
<1> DEFINE w == Spend(segments)
           v == [i \in 1..(a - a + 1) |-> w[a + i - 1]]
           none == [i \in 1..0 |-> 0]
<1>0. w[a] \in Nat
  BY CountsOfSegments
<1>1. a - a + 1 = 1 /\ a + 1 - 1 = a /\ 0 + 1 = 1 /\ 1..1 = {1} /\ a \in Int
  OBVIOUS
<1> HIDE DEF w
<1>2. v \in [1..1 -> Nat] /\ v[1] = w[a]
  BY <1>0, <1>1
<1>3. none \in [1..0 -> Nat] /\ \A i \in 1..0 : v[i] = none[i]
  OBVIOUS
<1>4. Total(none) = 0
  BY TotalEmpty
<1>5. Total(v) = Total(none) + v[1]
  <2> HIDE DEF v, none
  <2>. QED BY <1>1, <1>2, <1>3, TotalNext
<1>6. Slice(a, a) = Total(v)
  BY DEF Slice, w
<1>. QED BY <1>0, <1>2, <1>4, <1>5, <1>6 DEF w

\* The end of the speech that begins here.
LEMMA RunEndFacts ==
    ASSUME segments \in Seq(SegmentType), next \in 1..Len(segments), IsSpeech(segments, next)
    PROVE  /\ RunEnd \in next..Len(segments)
           /\ \A j \in next..RunEnd : IsSpeech(segments, j)
<1> DEFINE S == {i \in next..Len(segments) : \A j \in next..i : segments[j].kind = "speech"}
           n == Len(segments)
<1>0. n \in Nat
  OBVIOUS
<1>1. next \in S
  <2>1. next \in next..n /\ \A j \in next..next : j = next
    BY <1>0
  <2>. QED BY <2>1 DEF IsSpeech
<1>2. S \in SUBSET (1..n) /\ S # {}
  <2>1. S \in SUBSET (1..n)
    BY <1>0
  <2>. QED BY <1>1, <2>1
<1>3. RunEnd = Max(S)
  BY DEF RunEnd
<1>4. Max(S) \in S
  <2> HIDE DEF S, n
  <2>. QED BY <1>0, <1>2, MaxOf
<1>5. RunEnd \in S
  BY <1>3, <1>4
<1>. QED BY <1>5 DEF IsSpeech

\* The text asked for where RenderSpeech stands, and the last segment of it.
RunTo == IF concatenable THEN next ELSE RunEnd
RunText == IF concatenable THEN Punctuated(segments[next].text)
           ELSE Truncated(Join(<<Space>>, TextsOf(next, RunTo)))

\* The text asked for a run of speech says no more than its segments do,
\* and begins as the first of them.
LEMMA RunTextFacts ==
    ASSUME ContentType, segments \in Seq(SegmentType),
           next \in 1..Len(segments), IsSpeech(segments, next)
    PROVE  /\ RunTo \in next..Len(segments)
           /\ RunText \in Seq(TextAtoms)
           /\ Units(RunText) \in Nat /\ Units(RunText) <= Slice(next, RunTo)
           /\ Len(RunText) >= 1 /\ RunText[1] = segments[next].text[1]
<1> DEFINE n == Len(segments)
<1>0. n \in Nat /\ next \in 1..n /\ next \in next..n
  OBVIOUS
<1> HIDE DEF n
<1>1. CASE concatenable
  <2>1. RunTo = next /\ RunText = Punctuated(segments[next].text)
    BY <1>1 DEF RunTo, RunText
  <2>2. Slice(next, next) = Spend(segments)[next]
    BY SliceOne
  <2>. QED BY <1>0, <2>1, <2>2, TextOf DEF n
<1>2. CASE ~concatenable
  <2> DEFINE b == RunEnd
             l == b - next + 1
             texts == TextsOf(next, b)
             J == Join(<<Space>>, texts)
             w == [i \in 1..l |-> Spend(segments)[next + i - 1]]
  <2>0. b \in next..n /\ \A j \in next..b : IsSpeech(segments, j)
    BY RunEndFacts DEF n
  <2>1. RunTo = b /\ RunText = Truncated(J)
    BY <1>2 DEF RunTo, RunText
  <2> HIDE DEF b
  <2>2. /\ l \in Nat \ {0} /\ b \in 1..n
        /\ \A i \in 1..l : next + i - 1 \in 1..n /\ next + i - 1 \in next..b
        /\ 1 \in 1..l /\ next + 1 - 1 = next
    BY <1>0, <2>0
  <2>3. \A i \in 1..l : texts[i] = Punctuated(segments[next + i - 1].text)
    BY DEF TextsOf
  <2>4. DOMAIN texts = 1..l /\ texts = [i \in 1..l |-> texts[i]]
    BY DEF TextsOf
  <2> HIDE DEF texts, l
  <2>5. ASSUME NEW i \in 1..l
        PROVE  /\ texts[i] \in Seq(TextAtoms)
               /\ Units(texts[i]) <= Spend(segments)[next + i - 1]
               /\ Len(texts[i]) >= 1
               /\ texts[i][1] = segments[next + i - 1].text[1]
    <3> DEFINE s == next + i - 1
    <3>1. s \in 1..n /\ IsSpeech(segments, s) /\ texts[i] = Punctuated(segments[s].text)
      BY <2>0, <2>2, <2>3
    <3> HIDE DEF s
    <3>2. /\ Punctuated(segments[s].text) \in Seq(TextAtoms)
          /\ Units(Punctuated(segments[s].text)) <= Spend(segments)[s]
          /\ Len(Punctuated(segments[s].text)) >= 1
          /\ Punctuated(segments[s].text)[1] = segments[s].text[1]
      BY <3>1, TextOf DEF n
    <3>. QED BY <3>1, <3>2 DEF s
  <2>6. texts \in [1..l -> Seq(TextAtoms)]
    BY <2>4, <2>5
  <2>7. w \in [1..l -> Nat] /\ \A i \in 1..l : w[i] = Spend(segments)[next + i - 1]
    <3>1. Spend(segments) \in [1..n -> Nat]
      BY CountsOfSegments DEF n
    <3>. QED BY <2>2, <3>1
  <2>8. <<Space>> \in Seq(TextAtoms) /\ Ink \in [TextAtoms -> Nat] /\ Weigh(Ink, <<Space>>) = 0
    <3>1. Space \in TextAtoms
      BY DEF TextAtoms
    <3>2. Ink \in [TextAtoms -> Nat] /\ Ink[Space] = 0
      BY <3>1 DEF Ink
    <3>. QED BY <3>1, <3>2, WeighOne
  <2> HIDE DEF w
  <2>9. Bounds(Ink, <<Space>>, texts, l, TextAtoms, w)
    <3>1. AreCounts(w, l)
      BY <2>2, <2>7 DEF AreCounts
    <3>2. \A i \in 1..l : Weigh(Ink, texts[i]) <= w[i]
      BY <2>5, <2>7, UnitsWeigh
    <3>. QED BY <2>8, <3>1, <3>2 DEF Bounds
  <2>10. J \in Seq(TextAtoms)
    BY <2>2, <2>6, <2>8, JoinType
  <2>11. Weigh(Ink, J) <= Total(w)
    BY <2>2, <2>6, <2>8, <2>9, JoinSum
  <2>12. Len(J) >= 1 /\ J[1] = texts[1][1]
    <3>1. texts[1] # <<>>
      <4>1. Len(texts[1]) >= 1
        BY <2>2, <2>5
      <4>2. Len(<<>>) = 0
        OBVIOUS
      <4>. QED BY <4>1, <4>2
    <3>2. l \in Nat \ {0} /\ <<Space>> \in Seq(TextAtoms)
      BY <2>2, <2>8
    <3>. QED BY <2>6, <3>1, <3>2, JoinFirst
  <2>13. texts[1][1] = segments[next].text[1]
    <3>1. texts[1][1] = segments[next + 1 - 1].text[1]
      BY <2>2, <2>5
    <3>. QED BY <2>2, <3>1
  <2> HIDE DEF J
  <2>14. Slice(next, b) = Total(w)
    BY DEF Slice, w, l
  <2>15. Units(J) = Weigh(Ink, J)
    BY <2>10, UnitsWeigh
  <2>16. MaxSpoken >= 1
    <3>1. segments[next].text[1] \in Positions
      BY <1>0, TextOf DEF n
    <3>2. Len(content) >= 1 /\ Len(content) <= MaxLen /\ Len(content) \in Nat
      BY <3>1, PositionsAre DEF ContentType
    <3>. QED BY <3>2, RenderingAssumption
  <2>17. Total(w) \in Nat /\ Units(J) \in Nat
    BY <2>2, <2>7, <2>10, TotalType, UnitsType
  <2>18. /\ Truncated(J) \in Seq(TextAtoms) /\ Units(Truncated(J)) \in Nat
         /\ Units(Truncated(J)) <= Units(J)
         /\ Len(Truncated(J)) >= 1 /\ Truncated(J)[1] = J[1]
    BY <2>10, <2>12, <2>16, TruncatedFacts
  <2>19. Units(Truncated(J)) <= Total(w)
    BY <2>11, <2>15, <2>17, <2>18
  <2>. QED BY <2>0, <2>1, <2>12, <2>13, <2>14, <2>18, <2>19 DEF n
<1>. QED BY <1>1, <1>2

-----------------------------------------------------------------------------
(* The inductive invariant.                                                *)

ItemType == [kind : {"speech", "effect"}, audio : Seq(TextAtoms)]
SpokenOf(its) ==
    Total([i \in DOMAIN its |-> IF its[i].kind = "speech" THEN Units(its[i].audio) ELSE 0])

TypeInv ==
    /\ ContentType
    /\ repeat \in 1..MaxRepeat
    /\ concatenable \in BOOLEAN
    /\ pc \in {"split", "plain", "plainSeparator", "pass", "separator", "done", "raised"}
    /\ segments \in Seq(SegmentType)
    /\ next \in 1..(Len(segments) + 1)
    /\ first \in 0..Len(segments)
    /\ \A n \in DOMAIN decoded : decoded[n] \in Outcomes
    /\ parts \in Seq(Seq(TextAtoms))
    /\ items \in Seq(ItemType)
    /\ outcome \in [0..Len(segments) -> Outcomes]

Stages ==
    /\ pc = "split" => /\ segments = <<>> /\ next = 1 /\ first = 0
                       /\ parts = <<>> /\ items = <<>>
                       /\ DOMAIN decoded = {}
    /\ pc # "split" => WellSplit(segments, Len(content), 0)
    /\ pc \in {"plain", "plainSeparator"} => items = <<>> /\ AllSpeech
    /\ pc = "plainSeparator" =>
          /\ Joins /\ Spoken # <<>>
          /\ Len(parts) = 1 /\ parts[1] \in {Spoken, <<>>}
    /\ pc = "pass" => /\ first = 0 => parts = <<>> /\ DOMAIN decoded = {}
                      /\ first # 0 => first <= next

\* What the run being rendered says so far.
RunUnits == IF first # 0 /\ IsSpeech(segments, first) THEN Units(FlattenSeq(parts)) ELSE 0

Budget ==
    /\ pc = "pass" => SpokenOf(items) + RunUnits <= Prefix(next - 1)
    /\ pc = "separator" => SpokenOf(items) <= SpokenPerCopy /\ Copies(SpokenPerCopy) > 1
    /\ pc = "done" => SpokenOf(items) <= MaxSpoken

RInv == TypeInv /\ Stages /\ Budget

\* What does not change when these do not.
LEMMA Frozen ==
    ASSUME UNCHANGED <<inputs, segments>>
    PROVE  /\ content' = content /\ repeat' = repeat /\ concatenable' = concatenable
           /\ segments' = segments
           /\ ContentType' <=> ContentType
           /\ Positions' = Positions /\ TextAtoms' = TextAtoms
           /\ SegmentType' = SegmentType /\ ItemType' = ItemType
           /\ Spend(segments)' = Spend(segments)
           /\ WellSplit(segments, Len(content), 0)' <=> WellSplit(segments, Len(content), 0)
           /\ AllSpeech' <=> AllSpeech
           /\ Spoken' = Spoken /\ (Joins' <=> Joins)
           /\ SpokenPerCopy' = SpokenPerCopy /\ Copies(SpokenPerCopy)' = Copies(SpokenPerCopy)
<1>1. content' = content /\ repeat' = repeat /\ concatenable' = concatenable /\ segments' = segments
  BY DEF inputs
<1>2. ContentType' <=> ContentType
  BY <1>1 DEF ContentType
<1>3. Positions' = Positions /\ TextAtoms' = TextAtoms
  BY <1>1 DEF Positions, TextAtoms
<1>4. SegmentType' = SegmentType
  BY <1>1, <1>3 DEF SegmentType, SpeechType, EffectType
<1>5. ItemType' = ItemType
  BY <1>3 DEF ItemType
<1>6. Spend(segments)' = Spend(segments)
  BY <1>1 DEF Spend, Punctuated
<1>7. WellSplit(segments, Len(content), 0)' <=> WellSplit(segments, Len(content), 0)
  BY <1>1, <1>4, <1>6 DEF WellSplit
<1>8. AllSpeech' <=> AllSpeech
  BY <1>1 DEF AllSpeech
<1>9. Spoken' = Spoken
  BY <1>1 DEF Spoken, Punctuated
<1>10. Joins' <=> Joins
  BY <1>1, <1>9 DEF Joins, Copies
<1>11. SpokenPerCopy' = SpokenPerCopy
  BY <1>1, <1>6 DEF SpokenPerCopy, Spend
<1>12. Copies(SpokenPerCopy)' = Copies(SpokenPerCopy)
  BY <1>1, <1>11 DEF Copies
<1>. QED BY <1>1, <1>2, <1>3, <1>4, <1>5, <1>6, <1>7, <1>8, <1>9, <1>10, <1>11, <1>12

-----------------------------------------------------------------------------
(* Every step keeps the types.                                             *)

\* An engine's answer is a part of what it was asked for.
LEMMA AudioType ==
    ASSUME NEW A, NEW text \in Seq(A), NEW how
    PROVE  /\ Audio(text, how) \in Seq(A)
           /\ Audio(text, how) \in {text, <<>>}
BY DEF Audio

\* The types stay when the message and its segments do.
LEMMA TypesFrozen ==
    ASSUME TypeInv, UNCHANGED <<inputs, segments>>
    PROVE  /\ ContentType' /\ repeat' \in 1..MaxRepeat /\ concatenable' \in BOOLEAN
           /\ segments' \in Seq(SegmentType') /\ Len(segments') = Len(segments)
           /\ TextAtoms' = TextAtoms /\ ItemType' = ItemType
BY Frozen DEF TypeInv

\* The separator is a text, and so is nothing.
LEMMA PowtarzamType == <<Powtarzam>> \in Seq(TextAtoms) /\ <<>> \in Seq(TextAtoms)
<1>1. Powtarzam \in TextAtoms
  BY DEF TextAtoms
<1>. QED BY <1>1

\* A text makes an item.
LEMMA SpeechItemType ==
    ASSUME NEW a \in Seq(TextAtoms)
    PROVE  SpeechItem(a) \in ItemType /\ <<SpeechItem(a)>> \in Seq(ItemType)
<1>1. SpeechItem(a) \in ItemType
  BY DEF SpeechItem, ItemType
<1>. QED BY <1>1

\* What a plain message asks for, when there is anything to say.
LEMMA PlainTextFacts ==
    ASSUME TypeInv, WellSplit(segments, Len(content), 0), AllSpeech, Spoken # <<>>
    PROVE  /\ PlainText \in Seq(TextAtoms)
           /\ Units(PlainText) \in Nat /\ Units(PlainText) <= MaxSpoken
           /\ Len(PlainText) >= 1 /\ PlainText[1] \in Positions
           /\ concatenable => PlainText = Spoken
<1>0. ContentType /\ repeat \in 1..MaxRepeat /\ repeat \in Nat \ {0}
  BY RenderingAssumption DEF TypeInv
<1>1. /\ Spoken \in Seq(TextAtoms)
      /\ Units(Spoken) \in Nat /\ Units(Spoken) <= MaxSpoken
      /\ Len(Spoken) >= 1 /\ Spoken[1] \in Positions /\ MaxSpoken >= 1
  BY <1>0, SpokenFacts
<1>2. CASE repeat = 1 \/ concatenable
  <2>1. PlainText = Spoken
    BY <1>2 DEF PlainText
  <2>. QED BY <1>1, <2>1
<1>3. CASE ~(repeat = 1 \/ concatenable)
  <2> DEFINE texts == [i \in 1..repeat |-> Spoken]
             J == Join(<<Powtarzam>>, texts)
  <2>1. PlainText = Truncated(J)
    BY <1>3 DEF PlainText
  <2>2. /\ texts \in [1..repeat -> Seq(TextAtoms)] /\ texts[1] = Spoken
        /\ <<Powtarzam>> \in Seq(TextAtoms) /\ repeat \in Nat
    BY <1>0, <1>1, PowtarzamType
  <2> HIDE DEF texts
  <2>3. J \in Seq(TextAtoms)
    BY <2>2, JoinType
  <2>4. Len(J) >= 1 /\ J[1] = texts[1][1]
    <3>1. texts[1] # <<>>
      BY <2>2
    <3>2. texts \in [1..repeat -> Seq(TextAtoms)] /\ <<Powtarzam>> \in Seq(TextAtoms)
      BY <2>2
    <3>. QED BY <1>0, <3>1, <3>2, JoinFirst
  <2> HIDE DEF J
  <2>5. /\ Truncated(J) \in Seq(TextAtoms)
        /\ Units(Truncated(J)) \in Nat /\ Units(Truncated(J)) <= MaxSpoken
        /\ Len(Truncated(J)) >= 1 /\ Truncated(J)[1] = J[1]
    BY <1>1, <2>3, <2>4, TruncatedFacts
  <2>. QED BY <1>1, <1>3, <2>1, <2>2, <2>4, <2>5
<1>. QED BY <1>2, <1>3

\* The run of speech rendered where the pass stands.
LEMMA RenderSpeechIs ==
    ASSUME TypeInv, RenderSpeech
    PROVE  /\ next \in 1..Len(segments) /\ IsSpeech(segments, next) /\ pc = "pass"
           /\ first # 0 => IsSpeech(segments, first)
           /\ asked' = Append(asked, next..RunTo)
           /\ next' = RunTo + 1
           /\ \E how \in Outcomes :
                 /\ parts' = IF how = "refused" THEN parts ELSE Append(parts, Audio(RunText, how))
                 /\ outcome' = [i \in DOMAIN outcome |->
                                   IF i \in next..RunTo THEN how ELSE outcome[i]]
           /\ first' = Open
           /\ UNCHANGED <<inputs, pc, segments, decoded, items>>
<1>1. next \in 1..Len(segments) /\ IsSpeech(segments, next) /\ pc = "pass"
      /\ (first # 0 => IsSpeech(segments, first))
  BY DEF RenderSpeech, InRun, TypeInv, IsSpeech
<1>. QED BY <1>1 DEF RenderSpeech, RunText, RunTo

\* No step leaves the types.
LEMMA TypeStep ==
    ASSUME TypeInv, Stages, RNext
    PROVE  TypeInv'
<1>0. /\ ContentType /\ segments \in Seq(SegmentType) /\ Len(segments) \in Nat
      /\ DOMAIN segments = 1..Len(segments)
      /\ next \in 1..(Len(segments) + 1) /\ first \in 0..Len(segments)
      /\ parts \in Seq(Seq(TextAtoms)) /\ items \in Seq(ItemType)
      /\ outcome \in [0..Len(segments) -> Outcomes]
      /\ \A n \in DOMAIN decoded : decoded[n] \in Outcomes
      /\ repeat \in 1..MaxRepeat /\ repeat \in Nat \ {0}
  BY DEF TypeInv
<1>1. CASE Split
  <2>1. segments' \in Seq(SegmentType)
    <3>1. WellSplit(SplitSegments, Len(content), 0)
      BY <1>0, SplitWell
    <3>. QED BY <1>1, <3>1 DEF Split, WellSplit
  <2>2. content' = content /\ repeat' = repeat /\ concatenable' = concatenable
    BY <1>1 DEF Split, inputs
  <2>3. /\ Positions' = Positions /\ TextAtoms' = TextAtoms /\ SegmentType' = SegmentType
        /\ ItemType' = ItemType /\ ContentType'
    BY <1>0, <2>2 DEF Positions, TextAtoms, SegmentType, SpeechType, EffectType, ItemType,
                      ContentType
  <2>4. next = 1 /\ first = 0 /\ parts' = parts /\ items' = items
        /\ next' = next /\ first' = first /\ decoded' = decoded
    BY <1>1 DEF Split, Stages, runVars
  <2>5. outcome' \in [0..Len(segments') -> Outcomes]
    BY <1>1 DEF Split, Outcomes
  <2>6. pc' \in {"plain", "pass"}
    BY <1>1 DEF Split
  <2>7. next' \in 1..(Len(segments') + 1) /\ first' \in 0..Len(segments')
    BY <2>1, <2>4
  <2>. QED BY <1>0, <2>1, <2>2, <2>3, <2>4, <2>5, <2>6, <2>7 DEF TypeInv
<1>2. CASE PlainNothing
  <2>1. UNCHANGED <<inputs, segments>> /\ UNCHANGED <<runVars, items, asked, outcome>> /\ pc' = "done"
    BY <1>2 DEF PlainNothing
  <2>. QED BY <1>0, <2>1, TypesFrozen DEF TypeInv, runVars
<1>3. CASE PlainBody
  <2>0. WellSplit(segments, Len(content), 0) /\ AllSpeech /\ Spoken # <<>>
    BY <1>3 DEF PlainBody, Stages
  <2>1. PlainText \in Seq(TextAtoms)
    BY <2>0, PlainTextFacts
  <2>2. UNCHANGED <<inputs, segments>> /\ next' = next /\ first' = first /\ decoded' = decoded
    BY <1>3 DEF PlainBody
  <2>4. PICK how \in {"sound", "silent"} :
          /\ outcome' = [outcome EXCEPT ![1] = how]
          /\ \/ /\ parts' = <<Audio(PlainText, how)>>
                /\ pc' = "plainSeparator"
                /\ UNCHANGED items
             \/ /\ items' = <<SpeechItem(Audio(PlainText, how))>>
                /\ pc' = "done"
                /\ UNCHANGED parts
    BY <1>3 DEF PlainBody
  <2>5. Audio(PlainText, how) \in Seq(TextAtoms)
    BY <2>1, AudioType
  <2>6. outcome' \in [0..Len(segments) -> Outcomes]
    BY <1>0, <2>4 DEF Outcomes
  <2>7. /\ <<Audio(PlainText, how)>> \in Seq(Seq(TextAtoms))
        /\ <<SpeechItem(Audio(PlainText, how))>> \in Seq(ItemType)
    BY <2>5, SpeechItemType
  <2>8. parts' \in Seq(Seq(TextAtoms)) /\ items' \in Seq(ItemType) /\ pc' \in {"plainSeparator", "done"}
    BY <1>0, <2>4, <2>7
  <2>. QED BY <1>0, <2>2, <2>6, <2>8, TypesFrozen DEF TypeInv
<1>4. CASE PlainSeparator
  <2>0. Len(parts) = 1
    BY <1>4 DEF PlainSeparator, Stages
  <2>1. parts[1] \in Seq(TextAtoms)
    <3>1. parts \in Seq(Seq(TextAtoms)) /\ 1 \in 1..Len(parts)
      BY <1>0, <2>0
    <3>. QED BY <3>1
  <2>2. PICK how \in {"sound", "silent"} :
          /\ outcome' = [outcome EXCEPT ![0] = how]
          /\ items' = <<SpeechItem(Join(Audio(<<Powtarzam>>, how),
                            [i \in 1..Copies(Len(Spoken)) |-> parts[1]]))>>
    BY <1>4 DEF PlainSeparator
  <2> DEFINE c == Copies(Len(Spoken))
             sep == Audio(<<Powtarzam>>, how)
             texts == [i \in 1..c |-> parts[1]]
  <2>3. c \in Nat
    <3>0. WellSplit(segments, Len(content), 0) /\ AllSpeech
      BY <1>4 DEF PlainSeparator, Stages
    <3>1. Len(Spoken) \in Nat
      BY <1>0, <3>0, SpokenFacts
    <3>2. c \in 1..repeat
      BY <1>0, <3>1, CopiesFit
    <3>. QED BY <1>0, <3>2
  <2>4. sep \in Seq(TextAtoms)
    BY PowtarzamType, AudioType
  <2>5. texts \in [1..c -> Seq(TextAtoms)]
    BY <2>1
  <2> HIDE DEF c, sep, texts
  <2>6. Join(sep, texts) \in Seq(TextAtoms)
    BY <2>3, <2>4, <2>5, JoinType
  <2>7. items' \in Seq(ItemType)
    BY <2>2, <2>6, SpeechItemType DEF c, sep, texts
  <2>8. UNCHANGED <<inputs, segments>> /\ UNCHANGED runVars /\ pc' = "done"
    BY <1>4 DEF PlainSeparator
  <2>10. outcome' \in [0..Len(segments) -> Outcomes]
    BY <1>0, <2>2 DEF Outcomes
  <2>. QED BY <1>0, <2>7, <2>8, <2>10, TypesFrozen DEF TypeInv, runVars
<1>5. CASE PlainRaises
  <2>1. UNCHANGED <<inputs, segments>> /\ UNCHANGED <<runVars, items>> /\ pc' = "done"
    BY <1>5 DEF PlainRaises
  <2>3. outcome' \in [0..Len(segments) -> Outcomes]
    BY <1>0, <1>5 DEF PlainRaises, Outcomes
  <2>. QED BY <1>0, <2>1, <2>3, TypesFrozen DEF TypeInv, runVars
<1>6. CASE DecodeEffect
  <2>1. /\ UNCHANGED <<inputs, segments>> /\ UNCHANGED <<pc, next, parts, items, outcome>>
        /\ first' = Open
        /\ next \in 1..Len(segments) /\ segments[next].kind = "effect"
    BY <1>0, <1>6 DEF DecodeEffect, InRun
  <2>2. Open \in 0..Len(segments) /\ Open \in Nat
    BY <1>0, <2>1 DEF Open
  <2>5. \A n \in DOMAIN decoded' : decoded'[n] \in Outcomes
    BY <1>0, <1>6 DEF DecodeEffect
  <2>. QED BY <1>0, <2>1, <2>2, <2>5, TypesFrozen DEF TypeInv
<1>7. CASE DecodeRaises
  <2>1. UNCHANGED <<inputs, segments>> /\ UNCHANGED <<runVars, items, asked, outcome>> /\ pc' = "raised"
    BY <1>7 DEF DecodeRaises
  <2>. QED BY <1>0, <2>1, TypesFrozen DEF TypeInv, runVars
<1>8. CASE AddClip
  <2> DEFINE how == decoded[EffectName]
  <2>1. /\ UNCHANGED <<inputs, segments>> /\ UNCHANGED <<pc, first, decoded, items, asked>>
        /\ next' = next + 1 /\ next \in 1..Len(segments) /\ segments[next].kind = "effect"
        /\ EffectName \in DOMAIN decoded
        /\ parts' = IF how = "refused" THEN parts ELSE Append(parts, Clip(how))
        /\ outcome' = [outcome EXCEPT ![next] = how]
    BY <1>0, <1>8 DEF AddClip, InRun
  <2>2. how \in Outcomes
    BY <1>0, <2>1
  <2>3. Clip(how) \in Seq(TextAtoms)
    <3> DEFINE at == segments[next].at
               n == segments[next].count
               played == [i \in 1..n |-> at]
    <3>1. at \in TextAtoms /\ n \in Nat
      <4>1. segments[next] \in EffectType
        BY <1>0, <2>1 DEF SegmentType, SpeechType
      <4>2. at \in Positions /\ n \in 1..MaxEffects
        BY <4>1 DEF EffectType
      <4>. QED BY <4>2 DEF TextAtoms
    <3> HIDE DEF at, n, how
    <3>2. played \in Seq(TextAtoms)
      BY <3>1
    <3>. QED BY <3>2, AudioType DEF Clip, at, n
  <2> HIDE DEF how
  <2>4. parts' \in Seq(Seq(TextAtoms))
    BY <1>0, <2>1, <2>3
  <2>5. outcome' \in [0..Len(segments) -> Outcomes]
    BY <1>0, <2>1, <2>2
  <2>6. next' \in 1..(Len(segments) + 1)
    BY <1>0, <2>1
  <2>. QED BY <1>0, <2>1, <2>4, <2>5, <2>6, TypesFrozen DEF TypeInv
<1>9. CASE RenderSpeech
  <2>1. /\ next \in 1..Len(segments) /\ IsSpeech(segments, next)
        /\ next' = RunTo + 1 /\ first' = Open
        /\ UNCHANGED <<inputs, segments>> /\ UNCHANGED <<pc, decoded, items>>
    BY <1>9, RenderSpeechIs
  <2>2. PICK how \in Outcomes :
                 /\ parts' = IF how = "refused" THEN parts ELSE Append(parts, Audio(RunText, how))
                 /\ outcome' = [i \in DOMAIN outcome |->
                                   IF i \in next..RunTo THEN how ELSE outcome[i]]
    BY <1>9, RenderSpeechIs
  <2>3. RunTo \in next..Len(segments) /\ RunText \in Seq(TextAtoms)
    BY <1>0, <2>1, RunTextFacts
  <2>4. Audio(RunText, how) \in Seq(TextAtoms)
    BY <2>3, AudioType
  <2>5. parts' \in Seq(Seq(TextAtoms))
    BY <1>0, <2>2, <2>4
  <2>6. outcome' \in [0..Len(segments) -> Outcomes]
    BY <1>0, <2>2
  <2>7. next' \in 1..(Len(segments) + 1) /\ first' \in 0..Len(segments)
    BY <1>0, <2>1, <2>3 DEF Open
  <2>. QED BY <1>0, <2>1, <2>5, <2>6, <2>7, TypesFrozen DEF TypeInv
<1>10. CASE EndRun
  <2>1. /\ UNCHANGED <<inputs, segments>> /\ UNCHANGED <<pc, next, asked, outcome>>
        /\ first' = 0 /\ parts' = <<>> /\ decoded' = [n \in {} |-> "sound"] /\ first # 0
        /\ items' = IF parts = <<>> THEN items
                    ELSE Append(items, [kind |-> segments[first].kind,
                                        audio |-> FlattenSeq(parts)])
    BY <1>10 DEF EndRun
  <2>2. [kind |-> segments[first].kind, audio |-> FlattenSeq(parts)] \in ItemType
    <3>1. FlattenSeq(parts) \in Seq(TextAtoms)
      BY <1>0, FlattenType
    <3>2. segments[first].kind \in {"speech", "effect"}
      <4>1. first \in 1..Len(segments)
        BY <1>0, <2>1
      <4>2. segments[first] \in SegmentType
        BY <1>0, <4>1
      <4>. QED BY <4>2 DEF SegmentType, SpeechType, EffectType
    <3>. QED BY <3>1, <3>2 DEF ItemType
  <2>3. items' \in Seq(ItemType)
    BY <1>0, <2>1, <2>2
  <2>4. <<>> \in Seq(Seq(TextAtoms)) /\ 0 \in 0..Len(segments)
        /\ \A n \in DOMAIN decoded' : decoded'[n] \in Outcomes
    BY <1>0, <2>1
  <2>. QED BY <1>0, <2>1, <2>3, <2>4, TypesFrozen DEF TypeInv
<1>11. CASE EndPass
  <2>1. UNCHANGED <<inputs, segments>> /\ UNCHANGED <<runVars, items, asked, outcome>>
        /\ pc' \in {"done", "separator"}
    BY <1>11 DEF EndPass
  <2>. QED BY <1>0, <2>1, TypesFrozen DEF TypeInv, runVars
<1>12. CASE Separator
  <2>1. UNCHANGED <<inputs, segments>> /\ UNCHANGED runVars /\ pc' = "done"
    BY <1>12 DEF Separator
  <2>2. PICK how \in Outcomes :
          /\ items' = Join(IF how = "refused" THEN <<>>
                           ELSE <<SpeechItem(Audio(<<Powtarzam>>, how))>>,
                           [i \in 1..Copies(SpokenPerCopy) |-> items])
          /\ outcome' = [outcome EXCEPT ![0] = how]
    BY <1>12 DEF Separator
  <2> DEFINE between == IF how = "refused" THEN <<>>
                        ELSE <<SpeechItem(Audio(<<Powtarzam>>, how))>>
             c == Copies(SpokenPerCopy)
             copies == [i \in 1..c |-> items]
  <2>3. between \in Seq(ItemType)
    <3>1. Audio(<<Powtarzam>>, how) \in Seq(TextAtoms)
      BY PowtarzamType, AudioType
    <3>2. <<SpeechItem(Audio(<<Powtarzam>>, how))>> \in Seq(ItemType)
      BY <3>1, SpeechItemType
    <3>3. <<>> \in Seq(ItemType)
      OBVIOUS
    <3>. QED BY <3>2, <3>3
  <2>4. c \in Nat
    <3>1. SpokenPerCopy \in Nat
      BY <1>0, PrefixFacts
    <3>2. c \in 1..repeat
      BY <1>0, <3>1, CopiesFit
    <3>. QED BY <1>0, <3>2
  <2>5. copies \in [1..c -> Seq(ItemType)]
    BY <1>0
  <2> HIDE DEF between, c, copies
  <2>6. Join(between, copies) \in Seq(ItemType)
    BY <2>3, <2>4, <2>5, JoinType
  <2>7. items' \in Seq(ItemType)
    BY <2>2, <2>6 DEF between, c, copies
  <2>9. outcome' \in [0..Len(segments) -> Outcomes]
    BY <1>0, <2>2
  <2>. QED BY <1>0, <2>1, <2>7, <2>9, TypesFrozen DEF TypeInv, runVars
<1>. QED BY <1>1, <1>2, <1>3, <1>4, <1>5, <1>6, <1>7, <1>8, <1>9, <1>10, <1>11, <1>12 DEF RNext

-----------------------------------------------------------------------------
(* Every step keeps what a stage says of the state.                        *)

\* Where a run is rendered.
LEMMA RunKind ==
    ASSUME TypeInv, NEW kind, InRun(kind)
    PROVE  /\ pc = "pass" /\ next \in 1..Len(segments) /\ segments[next].kind = kind
           /\ Open # 0 /\ Open \in 1..Len(segments) /\ segments[Open].kind = kind
           /\ Stages => Open <= next
<1>1. /\ pc = "pass" /\ next \in 1..Len(segments) /\ segments[next].kind = kind
      /\ first # 0 => segments[first].kind = kind
      /\ first \in 0..Len(segments)
  BY DEF InRun, TypeInv
<1>. QED BY <1>1 DEF Open, Stages

\* No step breaks what holds at the stage it leads to.
LEMMA StagesStep ==
    ASSUME TypeInv, Stages, RNext
    PROVE  Stages'
<1>0. /\ ContentType /\ segments \in Seq(SegmentType) /\ Len(segments) \in Nat
      /\ DOMAIN segments = 1..Len(segments)
      /\ next \in 1..(Len(segments) + 1) /\ first \in 0..Len(segments)
  BY DEF TypeInv
<1>a. pc \in {"plain", "plainSeparator", "pass", "separator"} => WellSplit(segments, Len(content), 0)
  BY DEF Stages
<1>1. CASE Split
  <2>1. WellSplit(SplitSegments, Len(content), 0)
    BY <1>0, SplitWell
  <2>2. content' = content /\ segments' = SplitSegments
    BY <1>1 DEF Split, inputs
  <2>3. SegmentType' = SegmentType
    BY <2>2 DEF Positions, SegmentType, SpeechType, EffectType
  <2>4. Spend(segments)' = Spend(SplitSegments)
    BY <2>2 DEF Spend, Punctuated
  <2>5. WellSplit(segments, Len(content), 0)'
    BY <2>1, <2>2, <2>3, <2>4 DEF WellSplit
  <2>6. /\ next' = 1 /\ first' = 0 /\ parts' = <<>> /\ items' = <<>>
        /\ DOMAIN decoded' = {}
    BY <1>1 DEF Split, Stages, runVars
  <2>7. pc' \in {"plain", "pass"}
    BY <1>1 DEF Split
  <2>8. pc' = "plain" => AllSpeech'
    <3>1. \A s \in DOMAIN segments' : segments'[s] \in SegmentType
      BY <2>1, <2>2 DEF WellSplit
    <3>2. pc' = "plain" => \A s \in DOMAIN segments' : segments'[s].kind # "effect"
      BY <1>1 DEF Split
    <3>. QED BY <3>1, <3>2 DEF AllSpeech, IsSpeech, SegmentType, SpeechType, EffectType
  <2>. QED BY <2>5, <2>6, <2>7, <2>8 DEF Stages
<1>2. CASE PlainNothing
  <2>1. UNCHANGED <<inputs, segments>> /\ pc' = "done" /\ pc = "plain"
    BY <1>2 DEF PlainNothing
  <2>. QED BY <1>a, <2>1, Frozen DEF Stages
<1>3. CASE PlainBody
  <2>0. WellSplit(segments, Len(content), 0) /\ AllSpeech /\ Spoken # <<>>
        /\ items = <<>>
    BY <1>3 DEF PlainBody, Stages
  <2>1. PlainText \in Seq(TextAtoms) /\ (concatenable => PlainText = Spoken)
    BY <2>0, PlainTextFacts
  <2>2. UNCHANGED <<inputs, segments>>
    BY <1>3 DEF PlainBody
  <2>3. PICK how \in {"sound", "silent"} :
             \/ /\ Joins
                /\ parts' = <<Audio(PlainText, how)>>
                /\ pc' = "plainSeparator"
                /\ UNCHANGED items
             \/ pc' = "done"
    BY <1>3 DEF PlainBody
  <2>5. CASE pc' = "done"
    BY <2>0, <2>2, <2>5, Frozen DEF Stages
  <2>6. CASE pc' # "done"
    <3>1. Joins /\ parts' = <<Audio(PlainText, how)>> /\ pc' = "plainSeparator" /\ items' = items
      BY <2>3, <2>6
    <3>2. Len(parts') = 1 /\ parts'[1] \in {PlainText, <<>>} /\ PlainText = Spoken
      <4>1. Audio(PlainText, how) \in {PlainText, <<>>}
        BY <2>1, AudioType
      <4>. QED BY <2>1, <3>1, <4>1 DEF Joins
    <3>3. /\ Spoken' = Spoken /\ Joins' /\ AllSpeech'
          /\ WellSplit(segments, Len(content), 0)'
      BY <2>0, <2>2, <3>1, Frozen
    <3>. QED BY <2>0, <3>1, <3>2, <3>3 DEF Stages
  <2>. QED BY <2>5, <2>6
<1>4. CASE PlainSeparator
  <2>1. UNCHANGED <<inputs, segments>> /\ pc' = "done" /\ pc = "plainSeparator"
    BY <1>4 DEF PlainSeparator
  <2>. QED BY <1>a, <2>1, Frozen DEF Stages
<1>5. CASE PlainRaises
  <2>1. UNCHANGED <<inputs, segments>> /\ pc' = "done" /\ pc \in {"plain", "plainSeparator"}
    BY <1>5 DEF PlainRaises
  <2>. QED BY <1>a, <2>1, Frozen DEF Stages
<1>6. CASE DecodeEffect
  <2>1. UNCHANGED <<inputs, segments>> /\ pc' = "pass" /\ pc = "pass" /\ first' = Open /\ next' = next
    BY <1>6 DEF DecodeEffect, InRun
  <2>2. Open # 0 /\ Open <= next
    BY <1>6, RunKind DEF DecodeEffect
  <2>. QED BY <1>a, <2>1, <2>2, Frozen DEF Stages
<1>7. CASE DecodeRaises
  <2>1. UNCHANGED <<inputs, segments>> /\ pc' = "raised" /\ pc = "pass"
    BY <1>7 DEF DecodeRaises, InRun
  <2>. QED BY <1>a, <2>1, Frozen DEF Stages
<1>8. CASE AddClip
  <2>1. /\ UNCHANGED <<inputs, segments>> /\ pc' = "pass" /\ pc = "pass"
        /\ first' = first /\ next' = next + 1 /\ EffectName \in DOMAIN decoded
    BY <1>8 DEF AddClip, InRun
  <2>2. first # 0 /\ first <= next
    BY <2>1 DEF Stages
  <2>3. first' # 0 /\ first' <= next'
    BY <1>0, <2>1, <2>2
  <2>. QED BY <1>a, <2>1, <2>3, Frozen DEF Stages
<1>9. CASE RenderSpeech
  <2>1. /\ UNCHANGED <<inputs, segments>> /\ pc' = "pass" /\ pc = "pass"
        /\ first' = Open /\ next' = RunTo + 1
        /\ next \in 1..Len(segments) /\ IsSpeech(segments, next)
    BY <1>9, RenderSpeechIs
  <2>2. Open # 0 /\ Open <= next /\ Open \in 1..Len(segments)
    BY <1>9, RunKind DEF RenderSpeech
  <2>3. RunTo \in next..Len(segments)
    BY <1>0, <2>1, RunTextFacts
  <2>4. first' # 0 /\ first' <= next'
    BY <1>0, <2>1, <2>2, <2>3
  <2>. QED BY <1>a, <2>1, <2>4, Frozen DEF Stages
<1>10. CASE EndRun
  <2>1. /\ UNCHANGED <<inputs, segments>> /\ pc' = "pass" /\ pc = "pass"
        /\ first' = 0 /\ parts' = <<>> /\ DOMAIN decoded' = {}
    BY <1>10 DEF EndRun
  <2>. QED BY <1>a, <2>1, Frozen DEF Stages
<1>11. CASE EndPass
  <2>1. UNCHANGED <<inputs, segments>> /\ pc' \in {"done", "separator"} /\ pc = "pass"
    BY <1>11 DEF EndPass, PassOver
  <2>. QED BY <1>a, <2>1, Frozen DEF Stages
<1>12. CASE Separator
  <2>1. UNCHANGED <<inputs, segments>> /\ pc' = "done" /\ pc = "separator"
    BY <1>12 DEF Separator
  <2>. QED BY <1>a, <2>1, Frozen DEF Stages
<1>. QED BY <1>1, <1>2, <1>3, <1>4, <1>5, <1>6, <1>7, <1>8, <1>9, <1>10, <1>11, <1>12 DEF RNext

-----------------------------------------------------------------------------
(* Every step keeps to the budget.                                         *)

Voice == [it \in ItemType |-> IF it.kind = "speech" THEN Units(it.audio) ELSE 0]

\* What items say is a weight too.
LEMMA SpokenWeigh ==
    ASSUME NEW its \in Seq(ItemType)
    PROVE  /\ Voice \in [ItemType -> Nat]
           /\ SpokenOf(its) = Weigh(Voice, its)
           /\ SpokenOf(its) \in Nat
<1>1. Voice \in [ItemType -> Nat]
  <2>1. \A it \in ItemType : Units(it.audio) \in Nat
    <3>1. TAKE it \in ItemType
    <3>2. it.audio \in Seq(TextAtoms)
      BY DEF ItemType
    <3>. QED BY <3>2, UnitsType
  <2>. QED BY <2>1 DEF Voice
<1>2. SpokenOf(its) = Weigh(Voice, its)
  <2>1. \A i \in DOMAIN its : its[i] \in ItemType
    OBVIOUS
  <2>2. [i \in DOMAIN its |-> IF its[i].kind = "speech" THEN Units(its[i].audio) ELSE 0]
            = Weights(Voice, its)
    BY <2>1 DEF Weights, Voice
  <2>. QED BY <2>2 DEF SpokenOf, Weigh
<1>. QED BY <1>1, <1>2, WeighType

\* No items say nothing.
LEMMA SpokenEmpty == SpokenOf(<<>>) = 0
<1>1. <<>> \in Seq(ItemType)
  OBVIOUS
<1>. QED BY <1>1, SpokenWeigh, WeighEmpty

\* One item says what its audio has.
LEMMA SpokenOne ==
    ASSUME NEW a \in Seq(TextAtoms)
    PROVE  SpokenOf(<<SpeechItem(a)>>) = Units(a)
<1>1. SpeechItem(a) \in ItemType /\ <<SpeechItem(a)>> \in Seq(ItemType)
  BY SpeechItemType
<1>2. SpokenOf(<<SpeechItem(a)>>) = Weigh(Voice, <<SpeechItem(a)>>)
  BY <1>1, SpokenWeigh
<1>3. Weigh(Voice, <<SpeechItem(a)>>) = Voice[SpeechItem(a)]
  <2>1. Voice \in [ItemType -> Nat]
    BY <1>1, SpokenWeigh
  <2>. QED BY <1>1, <2>1, WeighOne
<1>4. Voice[SpeechItem(a)] = Units(a)
  BY <1>1 DEF Voice, SpeechItem
<1>. QED BY <1>2, <1>3, <1>4

\* An item more says its audio more, if it is speech.
LEMMA SpokenAppend ==
    ASSUME NEW its \in Seq(ItemType), NEW it \in ItemType
    PROVE  SpokenOf(Append(its, it)) =
               SpokenOf(its) + IF it.kind = "speech" THEN Units(it.audio) ELSE 0
<1>1. Append(its, it) \in Seq(ItemType)
  OBVIOUS
<1>2. Voice \in [ItemType -> Nat] /\ SpokenOf(its) = Weigh(Voice, its)
      /\ SpokenOf(Append(its, it)) = Weigh(Voice, Append(its, it))
  BY <1>1, SpokenWeigh
<1>3. Weigh(Voice, Append(its, it)) = Weigh(Voice, its) + Voice[it]
  BY <1>2, WeighAppend
<1>. QED BY <1>2, <1>3 DEF Voice

\* The copies of a plain message stay within the budget.
LEMMA CopiesOfText ==
    ASSUME NEW size \in Nat \ {0}, repeat \in 1..MaxRepeat, Copies(size) > 1,
           NEW sep \in Seq(TextAtoms), Len(sep) <= 1,
           NEW text \in Seq(TextAtoms), Units(text) <= size
    PROVE  Units(Join(sep, [i \in 1..Copies(size) |-> text])) <= MaxSpoken
<1> DEFINE c == Copies(size)
           texts == [i \in 1..c |-> text]
           J == Join(sep, texts)
<1>0. repeat \in Nat /\ MaxSpoken \in Nat
  BY RenderingAssumption
<1>1. c \in Nat \ {0} /\ c * (size + 1) <= MaxSpoken + 1
  <2>1. /\ c \in 1..repeat
        /\ c = 1 \/ size = 0 \/ c * (size + 1) <= MaxSpoken + 1
    BY CopiesFit
  <2>2. c > 1
    OBVIOUS
  <2> HIDE DEF c
  <2>. QED BY <1>0, <2>1, <2>2
<1>2. texts \in [1..c -> Seq(TextAtoms)] /\ \A i \in 1..c : texts[i] = text
  OBVIOUS
<1> HIDE DEF c, texts
<1>3. Fits(Ink, sep, texts, c, TextAtoms, size)
  <2>1. Ink \in [TextAtoms -> Nat] /\ Weigh(Ink, text) = Units(text) /\ Weigh(Ink, sep) = Units(sep)
    BY UnitsWeigh
  <2>2. Weigh(Ink, sep) <= 1
    <3>1. Units(sep) \in Nat /\ Units(sep) <= Len(sep)
      BY UnitsType
    <3>2. Len(sep) \in Nat
      OBVIOUS
    <3>. QED BY <2>1, <3>1, <3>2
  <2>. QED BY <1>2, <2>1, <2>2 DEF Fits
<1>4. J \in Seq(TextAtoms)
  <2>1. c \in Nat
    BY <1>1
  <2>. QED BY <1>2, <2>1, JoinType
<1>5. Weigh(Ink, J) + 1 <= c * (size + 1)
  BY <1>1, <1>2, <1>3, JoinFits
<1> HIDE DEF J
<1>6. Units(J) = Weigh(Ink, J) /\ Units(J) \in Nat
  BY <1>4, UnitsWeigh, UnitsType
<1>7. Units(J) <= MaxSpoken
  <2> DEFINE p == c * (size + 1)
  <2>1. p \in Int
    BY <1>1
  <2>2. Weigh(Ink, J) + 1 <= p /\ p <= MaxSpoken + 1
    BY <1>1, <1>5
  <2> HIDE DEF p
  <2>. QED BY <1>0, <1>6, <2>1, <2>2
<1>. QED BY <1>7 DEF J, c, texts

\* The copies of one pass, and the separators between them, do too.
LEMMA CopiesOfPass ==
    ASSUME NEW size \in Nat, repeat \in 1..MaxRepeat, Copies(size) > 1,
           NEW sep \in Seq(ItemType), SpokenOf(sep) <= 1,
           NEW its \in Seq(ItemType), SpokenOf(its) <= size
    PROVE  SpokenOf(Join(sep, [i \in 1..Copies(size) |-> its])) <= MaxSpoken
<1> DEFINE c == Copies(size)
           texts == [i \in 1..c |-> its]
           J == Join(sep, texts)
<1>0. repeat \in Nat /\ MaxSpoken \in Nat /\ repeat <= MaxRepeat /\ MaxRepeat \in Nat
      /\ MaxSpoken >= MaxRepeat - 1
  BY RenderingAssumption
<1>1. c \in Nat \ {0} /\ c <= repeat /\ (size = 0 \/ c * (size + 1) <= MaxSpoken + 1)
  <2>1. /\ c \in 1..repeat
        /\ c = 1 \/ size = 0 \/ c * (size + 1) <= MaxSpoken + 1
    BY CopiesFit
  <2>2. c > 1
    OBVIOUS
  <2> HIDE DEF c
  <2>. QED BY <1>0, <2>1, <2>2
<1>2. texts \in [1..c -> Seq(ItemType)] /\ \A i \in 1..c : texts[i] = its
  OBVIOUS
<1> HIDE DEF c, texts
<1>3. Fits(Voice, sep, texts, c, ItemType, size)
  <2>1. Voice \in [ItemType -> Nat] /\ Weigh(Voice, its) = SpokenOf(its)
        /\ Weigh(Voice, sep) = SpokenOf(sep)
    BY SpokenWeigh
  <2>. QED BY <1>2, <2>1 DEF Fits
<1>4. J \in Seq(ItemType)
  <2>1. c \in Nat
    BY <1>1
  <2>. QED BY <1>2, <2>1, JoinType
<1>5. Weigh(Voice, J) + 1 <= c * (size + 1)
  BY <1>1, <1>2, <1>3, JoinFits
<1> HIDE DEF J
<1>6. SpokenOf(J) = Weigh(Voice, J) /\ SpokenOf(J) \in Nat
  BY <1>4, SpokenWeigh
<1>7. c * (size + 1) <= MaxSpoken + 1
  <2>1. CASE size = 0
    <3>1. c * (size + 1) = c
      BY <1>1, <2>1
    <3>. QED BY <1>0, <1>1, <3>1
  <2>2. CASE size # 0
    BY <1>1, <2>2
  <2>. QED BY <2>1, <2>2
<1>8. SpokenOf(J) <= MaxSpoken
  <2> DEFINE p == c * (size + 1)
  <2>1. p \in Int
    BY <1>1
  <2>2. Weigh(Voice, J) + 1 <= p /\ p <= MaxSpoken + 1
    BY <1>5, <1>7
  <2> HIDE DEF p
  <2>. QED BY <1>0, <1>6, <2>1, <2>2
<1>. QED BY <1>8 DEF J, c, texts

\* What is in the run while its items, and the prefix, stay as they are.
LEMMA BudgetFrozen ==
    ASSUME UNCHANGED <<inputs, segments>>, NEW k
    PROVE  PrefixOf(Spend(segments)', k) = Prefix(k)
BY Frozen DEF Prefix

\* What the run and the items say is counted in naturals.
LEMMA RunUnitsType ==
    ASSUME TypeInv
    PROVE  /\ RunUnits \in Nat /\ SpokenOf(items) \in Nat
           /\ \A k \in 0..Len(segments) : Prefix(k) \in Nat
<1>1. Units(FlattenSeq(parts)) \in Nat
  <2>1. parts \in Seq(Seq(TextAtoms))
    BY DEF TypeInv
  <2>. QED BY <2>1, FlattenType, UnitsType
<1>2. items \in Seq(ItemType) /\ segments \in Seq(SegmentType)
  BY DEF TypeInv
<1>. QED BY <1>1, <1>2, SpokenWeigh, PrefixFacts DEF RunUnits

\* A part more, and what the run then says.
LEMMA RunGrows ==
    ASSUME TypeInv, Stages, pc = "pass", NEW x \in Seq(TextAtoms),
           first # 0 => IsSpeech(segments, first)
    PROVE  Units(FlattenSeq(Append(parts, x))) = RunUnits + Units(x)
<1>1. parts \in Seq(Seq(TextAtoms)) /\ FlattenSeq(parts) \in Seq(TextAtoms)
  <2>1. parts \in Seq(Seq(TextAtoms))
    BY DEF TypeInv
  <2>. QED BY <2>1, FlattenType
<1>2. Units(FlattenSeq(Append(parts, x))) = Units(FlattenSeq(parts)) + Units(x)
  <2>1. FlattenSeq(Append(parts, x)) = FlattenSeq(parts) \o x
    BY <1>1, FlattenAppend
  <2>. QED BY <1>1, <2>1, UnitsConcat
<1>3. RunUnits = Units(FlattenSeq(parts))
  <2>1. CASE first # 0
    BY <2>1 DEF RunUnits
  <2>2. CASE first = 0
    <3>1. parts = <<>>
      BY <2>2 DEF Stages
    <3>2. FlattenSeq(<<>>) = <<>>
      BY DEF FlattenSeq
    <3>. QED BY <2>2, <3>1, <3>2, UnitsEmpty DEF RunUnits
  <2>. QED BY <2>1, <2>2
<1>. QED BY <1>2, <1>3

\* No step takes what is spoken out of the budget.
LEMMA BudgetStep ==
    ASSUME TypeInv, Stages, Budget, RNext
    PROVE  Budget'
<1>0. /\ ContentType /\ segments \in Seq(SegmentType) /\ Len(segments) \in Nat
      /\ next \in 1..(Len(segments) + 1) /\ first \in 0..Len(segments)
      /\ parts \in Seq(Seq(TextAtoms)) /\ items \in Seq(ItemType)
      /\ repeat \in 1..MaxRepeat /\ MaxSpoken \in Nat
  BY RenderingAssumption DEF TypeInv
<1>a. /\ RunUnits \in Nat /\ SpokenOf(items) \in Nat
      /\ \A k \in 0..Len(segments) : Prefix(k) \in Nat
  BY RunUnitsType
<1>b. pc = "pass" => SpokenOf(items) + RunUnits <= Prefix(next - 1)
  BY DEF Budget
<1>1. CASE Split
  <2>1. /\ next' = 1 /\ first' = 0 /\ items' = <<>> /\ pc' \in {"plain", "pass"}
        /\ content' = content /\ segments' = SplitSegments
    BY <1>1 DEF Split, Stages, runVars, inputs
  <2>2. SpokenOf(items') = 0 /\ RunUnits' = 0
    BY <2>1, SpokenEmpty DEF RunUnits
  <2>3. PrefixOf(Spend(segments)', 0) = 0
    <3>1. [i \in 1..0 |-> Spend(segments)'[i]] = <<>>
      OBVIOUS
    <3>. QED BY <3>1, TotalEmpty DEF PrefixOf
  <2>. QED BY <2>1, <2>2, <2>3 DEF Budget, Prefix
<1>2. CASE PlainNothing
  <2>1. pc' = "done" /\ items' = <<>>
    BY <1>2 DEF PlainNothing, Stages
  <2>. QED BY <1>0, <2>1, SpokenEmpty DEF Budget
<1>3. CASE PlainBody
  <2>0. WellSplit(segments, Len(content), 0) /\ AllSpeech /\ Spoken # <<>>
    BY <1>3 DEF PlainBody, Stages
  <2>1. PlainText \in Seq(TextAtoms) /\ Units(PlainText) <= MaxSpoken
    BY <2>0, PlainTextFacts
  <2>2. PICK how \in {"sound", "silent"} :
             \/ pc' = "plainSeparator"
             \/ /\ items' = <<SpeechItem(Audio(PlainText, how))>>
                /\ pc' = "done"
    BY <1>3 DEF PlainBody
  <2>3. Audio(PlainText, how) \in Seq(TextAtoms) /\ Audio(PlainText, how) \in {PlainText, <<>>}
    BY <2>1, AudioType
  <2>4. Units(Audio(PlainText, how)) <= MaxSpoken
    BY <1>0, <2>1, <2>3, UnitsEmpty
  <2>5. SpokenOf(<<SpeechItem(Audio(PlainText, how))>>) <= MaxSpoken
    BY <2>3, <2>4, SpokenOne
  <2>. QED BY <2>2, <2>5 DEF Budget
<1>4. CASE PlainSeparator
  <2>0. /\ WellSplit(segments, Len(content), 0) /\ AllSpeech /\ Spoken # <<>> /\ Joins
        /\ Len(parts) = 1 /\ parts[1] \in {Spoken, <<>>}
    BY <1>4 DEF PlainSeparator, Stages
  <2>1. PICK how \in {"sound", "silent"} :
            items' = <<SpeechItem(Join(Audio(<<Powtarzam>>, how),
                            [i \in 1..Copies(Len(Spoken)) |-> parts[1]]))>>
    BY <1>4 DEF PlainSeparator
  <2>2. Spoken \in Seq(TextAtoms) /\ Len(Spoken) \in Nat \ {0} /\ Copies(Len(Spoken)) > 1
    BY <1>0, <2>0, SpokenFacts DEF Joins
  <2> DEFINE size == Len(Spoken)
             sep == Audio(<<Powtarzam>>, how)
             text == parts[1]
             J == Join(sep, [i \in 1..Copies(size) |-> text])
  <2>3. text \in Seq(TextAtoms) /\ Units(text) <= size
    <3>1. Units(Spoken) \in Nat /\ Units(Spoken) <= Len(Spoken)
      BY <2>2, UnitsType
    <3>2. text = Spoken \/ text = <<>>
      BY <2>0
    <3>3. size \in Nat /\ Units(Spoken) <= size
      BY <2>2, <3>1
    <3> HIDE DEF text, size
    <3>4. CASE text = Spoken
      BY <2>2, <3>3, <3>4
    <3>5. CASE text = <<>>
      BY <3>3, <3>5, PowtarzamType, UnitsEmpty
    <3>. QED BY <3>2, <3>4, <3>5
  <2>4. sep \in Seq(TextAtoms) /\ Len(sep) <= 1
    <3>1. sep \in Seq(TextAtoms) /\ sep \in {<<Powtarzam>>, <<>>}
      BY PowtarzamType, AudioType
    <3>2. Len(<<Powtarzam>>) = 1 /\ Len(<<>>) = 0
      OBVIOUS
    <3> HIDE DEF sep
    <3>3. sep \in Seq(TextAtoms)
      BY <3>1
    <3>4. Len(sep) \in {0, 1}
      <4>1. sep = <<Powtarzam>> \/ sep = <<>>
        BY <3>1
      <4>. QED BY <3>2, <4>1, Zenon
    <3>5. Len(sep) <= 1
      <4> DEFINE l == Len(sep)
      <4>1. l \in {0, 1}
        BY <3>4
      <4> HIDE DEF l
      <4>2. l <= 1
        BY <4>1
      <4>. QED BY <4>2 DEF l
    <3>. QED BY <3>3, <3>5
  <2>5. pc' = "done"
    BY <1>4 DEF PlainSeparator
  <2>6. J \in Seq(TextAtoms)
    <3> DEFINE c == Copies(size)
               texts == [i \in 1..c |-> text]
    <3>1. c \in 1..repeat /\ repeat \in Nat
      BY <1>0, <2>2, CopiesFit, RenderingAssumption
    <3>2. c \in Nat /\ texts \in [1..c -> Seq(TextAtoms)]
      BY <2>3, <3>1
    <3> HIDE DEF c, texts, sep
    <3>3. Join(sep, texts) \in Seq(TextAtoms)
      BY <2>4, <3>2, JoinType
    <3>. QED BY <3>3 DEF c, texts
  <2>7. Units(J) <= MaxSpoken
    <3> HIDE DEF size, sep, text
    <3>1. size \in Nat \ {0} /\ Copies(size) > 1
      BY <2>2 DEF size
    <3>. QED BY <1>0, <2>3, <2>4, <3>1, CopiesOfText
  <2>8. items' = <<SpeechItem(J)>>
    BY <2>1
  <2> HIDE DEF J
  <2>9. SpokenOf(items') <= MaxSpoken
    BY <2>6, <2>7, <2>8, SpokenOne
  <2>. QED BY <2>5, <2>9 DEF Budget
<1>5. CASE PlainRaises
  <2>1. pc' = "done" /\ items' = <<>>
    BY <1>5 DEF PlainRaises, Stages
  <2>. QED BY <1>0, <2>1, SpokenEmpty DEF Budget
<1>6. CASE DecodeEffect
  <2>1. UNCHANGED <<inputs, segments>> /\ pc' = "pass" /\ pc = "pass" /\ first' = Open
        /\ next' = next /\ items' = items /\ InRun("effect")
    BY <1>6 DEF DecodeEffect, InRun
  <2>2. segments[Open].kind = "effect"
    BY <2>1, RunKind
  <2>3. segments' = segments
    BY <2>1
  <2>4. RunUnits' = 0
    BY <2>1, <2>2, <2>3 DEF RunUnits, IsSpeech
  <2>5. PrefixOf(Spend(segments)', next' - 1) = Prefix(next - 1)
    BY <2>1, BudgetFrozen
  <2>6. SpokenOf(items') <= Prefix(next - 1)
    <3>1. next - 1 \in 0..Len(segments)
      BY <1>0
    <3>2. Prefix(next - 1) \in Nat
      BY <1>a, <3>1
    <3>. QED BY <1>a, <1>b, <2>1, <3>2
  <2>7. SpokenOf(items') + RunUnits' <= PrefixOf(Spend(segments)', next' - 1)
    BY <1>a, <2>1, <2>4, <2>5, <2>6
  <2>. QED BY <2>1, <2>7 DEF Budget, Prefix
<1>7. CASE DecodeRaises
  <2>1. pc' = "raised"
    BY <1>7 DEF DecodeRaises
  <2>. QED BY <2>1 DEF Budget
<1>8. CASE AddClip
  <2>1. UNCHANGED <<inputs, segments>> /\ pc' = "pass" /\ pc = "pass" /\ first' = first
        /\ next' = next + 1 /\ items' = items /\ InRun("effect") /\ EffectName \in DOMAIN decoded
    BY <1>8 DEF AddClip, InRun
  <2>2. first # 0 /\ segments[first].kind = "effect" /\ next \in 1..Len(segments)
    <3>1. first # 0
      BY <2>1 DEF Stages
    <3>. QED BY <1>0, <2>1, <3>1 DEF InRun
  <2>3. segments' = segments
    BY <2>1
  <2>4. RunUnits' = 0
    BY <2>1, <2>2, <2>3 DEF RunUnits, IsSpeech
  <2>5. PrefixOf(Spend(segments)', next' - 1) = Prefix(next)
    <3>1. next' - 1 = next
      BY <1>0, <2>1
    <3>. QED BY <2>1, <3>1, BudgetFrozen
  <2>6. SpokenOf(items') <= Prefix(next)
    <3>1. next \in next..Len(segments) /\ next - 1 \in 0..Len(segments)
      BY <1>0, <2>2
    <3>2. Slice(next, next) \in Nat /\ Prefix(next) = Prefix(next - 1) + Slice(next, next)
      BY <1>0, <2>2, <3>1, PrefixSlice
    <3>3. Prefix(next - 1) \in Nat
      BY <1>a, <3>1
    <3>. QED BY <1>a, <1>b, <2>1, <3>2, <3>3
  <2>7. SpokenOf(items') + RunUnits' <= PrefixOf(Spend(segments)', next' - 1)
    BY <1>a, <2>1, <2>4, <2>5, <2>6
  <2>. QED BY <2>1, <2>7 DEF Budget, Prefix
<1>9. CASE RenderSpeech
  <2>1. /\ next \in 1..Len(segments) /\ IsSpeech(segments, next) /\ pc = "pass" /\ pc' = "pass"
        /\ first # 0 => IsSpeech(segments, first)
        /\ next' = RunTo + 1
        /\ first' = Open
        /\ UNCHANGED <<inputs, segments>> /\ items' = items
    BY <1>9, RenderSpeechIs
  <2>2. PICK how \in Outcomes :
            parts' = IF how = "refused" THEN parts ELSE Append(parts, Audio(RunText, how))
    BY <1>9, RenderSpeechIs
  <2>3. /\ RunTo \in next..Len(segments) /\ RunText \in Seq(TextAtoms)
        /\ Units(RunText) \in Nat /\ Units(RunText) <= Slice(next, RunTo)
    BY <1>0, <2>1, RunTextFacts
  <2> DEFINE x == IF how = "refused" THEN <<>> ELSE Audio(RunText, how)
  <2>4. x \in Seq(TextAtoms) /\ Units(x) \in Nat /\ Units(x) <= Units(RunText)
    <3>1. Audio(RunText, how) \in Seq(TextAtoms) /\ Audio(RunText, how) \in {RunText, <<>>}
      BY <2>3, AudioType
    <3>2. x = RunText \/ x = <<>>
      BY <3>1
    <3> HIDE DEF x
    <3>3. CASE x = RunText
      BY <2>3, <3>3
    <3>4. CASE x = <<>>
      BY <2>3, <3>4, PowtarzamType, UnitsEmpty
    <3>. QED BY <3>2, <3>3, <3>4
  <2>5. Units(FlattenSeq(parts')) = RunUnits + Units(x)
    <3>1. CASE how = "refused"
      <4>1. parts' = parts /\ x = <<>>
        BY <2>2, <3>1
      <4>2. Units(FlattenSeq(parts)) = RunUnits
        <5>1. CASE first # 0
          BY <2>1, <5>1 DEF RunUnits
        <5>2. CASE first = 0
          <6>1. parts = <<>>
            BY <2>1, <5>2 DEF Stages
          <6>2. FlattenSeq(<<>>) = <<>>
            BY DEF FlattenSeq
          <6>. QED BY <5>2, <6>1, <6>2, UnitsEmpty DEF RunUnits
        <5>. QED BY <5>1, <5>2
      <4>. QED BY <1>a, <4>1, <4>2, UnitsEmpty
    <3>2. CASE how # "refused"
      <4>1. parts' = Append(parts, x)
        BY <2>2, <3>2
      <4> HIDE DEF x
      <4>2. Units(FlattenSeq(Append(parts, x))) = RunUnits + Units(x)
        BY <2>1, <2>4, RunGrows
      <4>. QED BY <4>1, <4>2
    <3>. QED BY <3>1, <3>2
  <2> HIDE DEF x
  <2>6. RunUnits' <= RunUnits + Units(RunText)
    <3>1. RunUnits' \in {Units(FlattenSeq(parts')), 0}
      BY DEF RunUnits
    <3>. QED BY <1>a, <2>3, <2>4, <2>5, <3>1
  <2>6a. RunUnits' \in Nat
    <3>1. RunUnits' \in {Units(FlattenSeq(parts')), 0}
      BY DEF RunUnits
    <3>. QED BY <1>a, <2>4, <2>5, <3>1
  <2>7. PrefixOf(Spend(segments)', next' - 1) = Prefix(RunTo)
    <3>1. next' - 1 = RunTo
      BY <1>0, <2>1, <2>3
    <3>. QED BY <2>1, <3>1, BudgetFrozen
  <2>8. SpokenOf(items') + RunUnits' <= Prefix(RunTo)
    <3>1. next - 1 \in 0..Len(segments)
      BY <1>0
    <3>2. Slice(next, RunTo) \in Nat /\ Prefix(RunTo) = Prefix(next - 1) + Slice(next, RunTo)
      BY <1>0, <2>1, <2>3, PrefixSlice
    <3>3. Prefix(next - 1) \in Nat /\ SpokenOf(items) + RunUnits <= Prefix(next - 1)
      BY <1>a, <1>b, <2>1, <3>1
    <3>4. SpokenOf(items') = SpokenOf(items)
      BY <2>1
    <3>. QED BY <1>a, <2>3, <2>6, <2>6a, <3>2, <3>3, <3>4
  <2>9. SpokenOf(items') + RunUnits' <= PrefixOf(Spend(segments)', next' - 1)
    BY <2>7, <2>8
  <2>. QED BY <2>1, <2>9 DEF Budget, Prefix
<1>10. CASE EndRun
  <2>1. /\ UNCHANGED <<inputs, segments>> /\ pc' = "pass" /\ pc = "pass" /\ next' = next
        /\ first' = 0 /\ first # 0
        /\ items' = IF parts = <<>> THEN items
                    ELSE Append(items, [kind |-> segments[first].kind,
                                        audio |-> FlattenSeq(parts)])
    BY <1>10 DEF EndRun
  <2> DEFINE it == [kind |-> segments[first].kind, audio |-> FlattenSeq(parts)]
  <2>2. it \in ItemType
    <3>1. FlattenSeq(parts) \in Seq(TextAtoms)
      BY <1>0, FlattenType
    <3>2. first \in 1..Len(segments)
      BY <1>0, <2>1
    <3>3. segments[first] \in SegmentType
      BY <1>0, <3>2
    <3>. QED BY <3>1, <3>3 DEF ItemType, SegmentType, SpeechType, EffectType
  <2>3. RunUnits = IF it.kind = "speech" THEN Units(it.audio) ELSE 0
    BY <2>1 DEF RunUnits, IsSpeech
  <2> HIDE DEF it
  <2>4. SpokenOf(items') <= SpokenOf(items) + RunUnits /\ SpokenOf(items') \in Nat
    <3>1. CASE parts = <<>>
      BY <1>a, <2>1, <3>1
    <3>2. CASE parts # <<>>
      <4>1. items' = Append(items, it)
        BY <2>1, <3>2 DEF it
      <4>2. SpokenOf(Append(items, it)) = SpokenOf(items) + RunUnits
        BY <1>0, <2>2, <2>3, SpokenAppend
      <4>. QED BY <1>a, <4>1, <4>2
    <3>. QED BY <3>1, <3>2
  <2>5. RunUnits' = 0
    BY <2>1 DEF RunUnits
  <2>6. PrefixOf(Spend(segments)', next' - 1) = Prefix(next - 1)
    BY <2>1, BudgetFrozen
  <2>7. SpokenOf(items') + RunUnits' <= PrefixOf(Spend(segments)', next' - 1)
    <3>1. next - 1 \in 0..Len(segments)
      BY <1>0
    <3>2. Prefix(next - 1) \in Nat
      BY <1>a, <3>1
    <3>. QED BY <1>a, <1>b, <2>1, <2>4, <2>5, <2>6, <3>2
  <2>. QED BY <2>1, <2>7 DEF Budget, Prefix
<1>11. CASE EndPass
  <2>1. /\ UNCHANGED <<inputs, segments>> /\ pc' = (IF Once THEN "done" ELSE "separator")
        /\ pc = "pass" /\ items' = items /\ first = 0 /\ next > Len(segments)
    BY <1>11 DEF EndPass, PassOver
  <2>2. SpokenOf(items) <= SpokenPerCopy /\ SpokenPerCopy \in Nat
    <3>1. next - 1 = Len(segments)
      BY <1>0, <2>1
    <3>2. Prefix(Len(segments)) = SpokenPerCopy /\ SpokenPerCopy \in Nat
      BY <1>0, PrefixFacts
    <3>. QED BY <1>a, <1>b, <2>1, <3>1, <3>2
  <2>3. SpokenPerCopy <= MaxSpoken
    <3>1. WellSplit(segments, Len(content), 0)
      BY <2>1 DEF Stages
    <3>2. Total(Spend(segments)) + 2 * 0 <= 2 * Len(content)
      BY <3>1 DEF WellSplit
    <3>3. Len(content) \in Nat /\ Len(content) <= MaxLen /\ MaxLen \in Nat /\ MaxSpoken >= 2 * MaxLen
      BY <1>0, RenderingAssumption DEF ContentType
    <3>4. Total(Spend(segments)) = SpokenPerCopy
      BY DEF Spend, SpokenPerCopy
    <3>. QED BY <1>0, <2>2, <3>2, <3>3, <3>4
  <2>4. SpokenOf(items') <= MaxSpoken /\ SpokenOf(items') <= SpokenPerCopy
    BY <1>0, <1>a, <2>1, <2>2, <2>3
  <2>5. SpokenPerCopy' = SpokenPerCopy /\ Copies(SpokenPerCopy)' = Copies(SpokenPerCopy)
    BY <2>1, Frozen
  <2>6. ~Once => Copies(SpokenPerCopy) > 1
    <3>1. Copies(SpokenPerCopy) \in 1..repeat
      BY <1>0, <2>2, CopiesFit
    <3>. QED BY <1>0, <3>1 DEF Once
  <2>. QED BY <2>1, <2>4, <2>5, <2>6 DEF Budget
<1>12. CASE Separator
  <2>1. pc' = "done" /\ pc = "separator"
    BY <1>12 DEF Separator
  <2>2. PICK how \in Outcomes :
            items' = Join(IF how = "refused" THEN <<>>
                           ELSE <<SpeechItem(Audio(<<Powtarzam>>, how))>>,
                           [i \in 1..Copies(SpokenPerCopy) |-> items])
    BY <1>12 DEF Separator
  <2> DEFINE sep == IF how = "refused" THEN <<>>
                    ELSE <<SpeechItem(Audio(<<Powtarzam>>, how))>>
             size == SpokenPerCopy
  <2>3. sep \in Seq(ItemType) /\ SpokenOf(sep) <= 1
    <3>1. Audio(<<Powtarzam>>, how) \in Seq(TextAtoms) /\ Audio(<<Powtarzam>>, how) \in {<<Powtarzam>>, <<>>}
      BY PowtarzamType, AudioType
    <3> DEFINE one == <<SpeechItem(Audio(<<Powtarzam>>, how))>>
    <3>2. one \in Seq(ItemType)
      BY <3>1, SpeechItemType
    <3>3. Units(Audio(<<Powtarzam>>, how)) <= 1
      <4>1. Units(<<Powtarzam>>) \in Nat /\ Units(<<Powtarzam>>) <= Len(<<Powtarzam>>)
        BY PowtarzamType, UnitsType
      <4>2. Len(<<Powtarzam>>) = 1
        OBVIOUS
      <4>. QED BY <3>1, <4>1, <4>2, UnitsEmpty
    <3>4. SpokenOf(one) <= 1
      BY <3>1, <3>3, SpokenOne
    <3> HIDE DEF one
    <3>5. sep \in {one, <<>>} /\ <<>> \in Seq(ItemType)
      BY DEF one
    <3>. QED BY <3>2, <3>4, <3>5, SpokenEmpty
  <2> HIDE DEF sep
  <2>4. size \in Nat /\ Copies(size) > 1 /\ SpokenOf(items) <= size
    <3>1. SpokenPerCopy \in Nat
      BY <1>0, PrefixFacts
    <3>. QED BY <2>1, <3>1 DEF Budget
  <2>5. items' = Join(sep, [i \in 1..Copies(size) |-> items])
    BY <2>2 DEF sep
  <2> HIDE DEF size
  <2>6. SpokenOf(Join(sep, [i \in 1..Copies(size) |-> items])) <= MaxSpoken
    BY <1>0, <2>3, <2>4, CopiesOfPass
  <2>7. SpokenOf(items') <= MaxSpoken
    BY <2>5, <2>6
  <2>. QED BY <2>1, <2>7 DEF Budget
<1>. QED BY <1>1, <1>2, <1>3, <1>4, <1>5, <1>6, <1>7, <1>8, <1>9, <1>10, <1>11, <1>12 DEF RNext

-----------------------------------------------------------------------------
(* The theorems.                                                           *)

\* A content is a sequence of tokens of bounded length.
LEMMA ContentIs == content \in BoundedSeq(Tokens, MaxLen) <=> ContentType
<1>1. MaxLen \in Nat
  BY RenderingAssumption
<1>2. ASSUME content \in BoundedSeq(Tokens, MaxLen) PROVE ContentType
  <2>1. PICK m \in 0..MaxLen : content \in [1..m -> Tokens]
    BY <1>2 DEF BoundedSeq, SeqOf
  <2>2. content \in Seq(Tokens) /\ Len(content) = m
    BY <1>1, <2>1
  <2>. QED BY <1>1, <2>1, <2>2 DEF ContentType
<1>3. ASSUME ContentType PROVE content \in BoundedSeq(Tokens, MaxLen)
  <2>1. Len(content) \in 0..MaxLen /\ content \in [1..Len(content) -> Tokens]
    BY <1>1, <1>3 DEF ContentType
  <2>. QED BY <2>1 DEF BoundedSeq, SeqOf
<1>. QED BY <1>2, <1>3

\* The invariant holds at first.
LEMMA RInvInit ==
    ASSUME RInit
    PROVE  RInv
<1>1. TypeInv
  <2>1. ContentType
    BY ContentIs DEF RInit
  <2>2. segments \in Seq(SegmentType) /\ Len(segments) = 0
        /\ parts \in Seq(Seq(TextAtoms)) /\ items \in Seq(ItemType)
    BY DEF RInit
  <2>3. outcome \in [0..Len(segments) -> Outcomes]
    <3>1. 0..Len(segments) = {0}
      BY <2>2
    <3>. QED BY <3>1 DEF RInit, Outcomes
  <2>4. next \in 1..(Len(segments) + 1) /\ first \in 0..Len(segments)
    BY <2>2 DEF RInit
  <2>5. \A n \in DOMAIN decoded : decoded[n] \in Outcomes
    BY DEF RInit
  <2>. QED BY <2>1, <2>2, <2>3, <2>4, <2>5 DEF TypeInv, RInit
<1>2. Stages
  BY DEF Stages, RInit
<1>3. Budget
  BY DEF Budget, RInit
<1>. QED BY <1>1, <1>2, <1>3 DEF RInv

\* Every step keeps the invariant.
LEMMA RInvStep ==
    ASSUME RInv, [RNext]_rvars
    PROVE  RInv'
<1>1. CASE RNext
  BY <1>1, TypeStep, StagesStep, BudgetStep DEF RInv
<1>2. CASE UNCHANGED rvars
  <2>1. UNCHANGED <<inputs, segments>>
        /\ UNCHANGED <<pc, next, first, decoded, parts, items, outcome>>
    BY <1>2 DEF rvars, runVars
  <2>2. TypeInv'
    BY <2>1, TypesFrozen DEF RInv, TypeInv
  <2>3. Stages'
    BY <2>1, Frozen DEF RInv, Stages
  <2>4. Budget'
    <3>1. RunUnits' = RunUnits
      BY <2>1 DEF RunUnits
    <3>2. PrefixOf(Spend(segments)', next' - 1) = Prefix(next - 1)
      BY <2>1, BudgetFrozen
    <3>3. SpokenPerCopy' = SpokenPerCopy /\ Copies(SpokenPerCopy)' = Copies(SpokenPerCopy)
      BY <2>1, Frozen
    <3>4. SpokenOf(items') = SpokenOf(items) /\ pc' = pc
      BY <2>1
    <3>. QED BY <3>1, <3>2, <3>3, <3>4 DEF RInv, Budget, Prefix
  <2>. QED BY <2>2, <2>3, <2>4 DEF RInv
<1>. QED BY <1>1, <1>2

\* The inductive invariant of rendering: types, what each stage says of
\* the state, and the budget.
THEOREM RInvAlways == RSpec => []RInv
<1>. QED BY RInvInit, RInvStep, PTL DEF RSpec

\* The types of the invariant are those that the runs check.
LEMMA RTypes ==
    ASSUME TypeInv
    PROVE  RTypeOK
<1>1. ASSUME NEW s \in DOMAIN segments
      PROVE  \/ /\ segments[s].kind = "speech"
                /\ segments[s].text \in Seq(Positions) \ {<<>>}
             \/ /\ segments[s].kind = "effect"
                /\ segments[s].at \in Positions
                /\ segments[s].count \in 1..MaxEffects
  <2>1. segments[s] \in SegmentType
    BY DEF TypeInv
  <2>. QED BY <2>1 DEF SegmentType, SpeechType, EffectType
<1>2. \A i \in DOMAIN items :
          items[i].kind \in {"speech", "effect"} /\ items[i].audio \in Seq(TextAtoms)
  <2>1. \A i \in DOMAIN items : items[i] \in ItemType
    BY DEF TypeInv
  <2>. QED BY <2>1 DEF ItemType
<1>3. \A i \in DOMAIN parts : parts[i] \in Seq(TextAtoms)
  BY DEF TypeInv
<1>. QED BY <1>1, <1>2, <1>3, ContentIs DEF TypeInv, RTypeOK

\* Splitting, the plain path, the passes and the repeats keep to their types:
\* no empty text is ever a segment, no effect is played more than MAX_EFFECTS
\* times, and what is heard is made of the content's positions and of the
\* three things the code adds (protocol.py:256-301, announcer.py:274-425).
THEOREM RenderingTypes == RSpec => []RTypeOK
<1>. QED BY RInvAlways, RTypes, PTL DEF RInv

\* However a message is split, repeated and joined, and whatever the engines
\* answer, what is spoken of it fits MAX_SPOKEN_BYTES, separators and added
\* full stops included (announcer.py:46-61): for every content up to the
\* length limit, every repeat count and every budget that the limits allow.
THEOREM SpokenStaysInBudget == RSpec => []SpokenWithinBudget
<1>1. RInv => SpokenWithinBudget
  BY DEF RInv, Budget, SpokenWithinBudget, SpokenUnits, SpokenOf
<1>. QED BY <1>1, RInvAlways, PTL

-----------------------------------------------------------------------------
(* Sequences put together from the pieces that their elements stand for.   *)

\* Induction up to a bound.
LEMMA UpToInduct ==
    ASSUME NEW n \in Nat, NEW T, 0 \in T, \A i \in 1..n : i - 1 \in T => i \in T
    PROVE  \A i \in 0..n : i \in T
<1> DEFINE U == {i \in Nat : i \in 0..n => i \in T}
<1>1. 0 \in U
  OBVIOUS
<1>2. ASSUME NEW i \in Nat, i \in U PROVE i + 1 \in U
  <2>1. CASE i + 1 \in 0..n
    <3>1. i + 1 \in 1..n /\ (i + 1) - 1 = i /\ i \in 0..n
      BY <2>1
    <3>2. i \in T
      BY <1>2, <3>1
    <3>. QED BY <3>1, <3>2
  <2>2. CASE i + 1 \notin 0..n
    BY <2>2
  <2>. QED BY <2>1, <2>2
<1>3. Nat \subseteq U
  <2> HIDE DEF U
  <2>. QED BY <1>1, <1>2, NatInduct
<1>. QED BY <1>3

\* Concatenation, under a name that is only expanded where it matters.
Cat(s, t) == s \o t

\* Two sequences make one.
LEMMA CatType ==
    ASSUME NEW A, NEW s \in Seq(A), NEW t \in Seq(A)
    PROVE  Cat(s, t) \in Seq(A)
BY DEF Cat

\* Nothing adds nothing.
LEMMA CatNothing ==
    ASSUME NEW A, NEW s \in Seq(A)
    PROVE  Cat(s, <<>>) = s /\ Cat(<<>>, s) = s
BY ConcatEmptySeq DEF Cat

\* It does not matter which two come together first.
LEMMA CatAssociative ==
    ASSUME NEW A, NEW s \in Seq(A), NEW t \in Seq(A), NEW u \in Seq(A)
    PROVE  Cat(Cat(s, t), u) = Cat(s, Cat(t, u))
BY ConcatAssociative DEF Cat

\* Appending is concatenation with one thing.
LEMMA CatAppend ==
    ASSUME NEW A, NEW s \in Seq(A), NEW x \in A
    PROVE  Append(s, x) = Cat(s, <<x>>)
BY DEF Cat

\* The first k pieces, one after the other.
Chain(v, k) == FlattenSeq([i \in 1..k |-> v[i]])

\* n pieces of sequences in A.
AreTexts(v, n, A) == n \in Nat /\ v \in [1..n -> Seq(A)]

\* Piece by piece.
LEMMA ChainFacts ==
    ASSUME NEW A, NEW n, NEW v, AreTexts(v, n, A)
    PROVE  /\ Chain(v, 0) = <<>>
           /\ \A k \in 1..n : Chain(v, k) = Cat(Chain(v, k - 1), v[k])
           /\ \A k \in 0..n : Chain(v, k) \in Seq(A)
           /\ Chain(v, n) = FlattenSeq(v)
<1>0. n \in Nat /\ v \in [1..n -> Seq(A)]
  BY DEF AreTexts
<1>1. \A k \in 0..n : [i \in 1..k |-> v[i]] \in Seq(Seq(A))
  <2>1. TAKE k \in 0..n
  <2>2. k \in Nat /\ \A i \in 1..k : v[i] \in Seq(A)
    BY <1>0
  <2>3. [i \in 1..k |-> v[i]] \in [1..k -> Seq(A)]
    BY <2>2
  <2>. QED BY <2>2, <2>3, SeqDef
<1>2. Chain(v, 0) = <<>>
  <2>1. Len([i \in 1..0 |-> v[i]]) = 0 /\ [i \in 1..0 |-> v[i]] = <<>>
    OBVIOUS
  <2>. QED BY <2>1 DEF Chain, FlattenSeq
<1>3. ASSUME NEW k \in 1..n PROVE Chain(v, k) = Cat(Chain(v, k - 1), v[k])
  <2> DEFINE a == [i \in 1..(k - 1) |-> v[i]]
             b == [i \in 1..k |-> v[i]]
  <2>1. k \in 0..n /\ k - 1 \in 0..n /\ v[k] \in Seq(A)
    BY <1>0
  <2>2. a \in Seq(Seq(A)) /\ b \in Seq(Seq(A))
    BY <1>1, <2>1
  <2>3. Len(a) = k - 1 /\ Len(b) = k
    BY <1>0
  <2>4. b = Append(a, v[k])
    <3>1. /\ Append(a, v[k]) \in Seq(Seq(A)) /\ Len(Append(a, v[k])) = k
          /\ Append(a, v[k])[k] = v[k] /\ \A i \in 1..(k - 1) : Append(a, v[k])[i] = a[i]
      <4> HIDE DEF a
      <4>. QED BY <2>1, <2>2, <2>3
    <3>2. \A i \in 1..k : b[i] = Append(a, v[k])[i]
      <4>1. TAKE i \in 1..k
      <4>2. CASE i = k
        BY <3>1, <4>2
      <4>3. CASE i # k
        <5>1. i \in 1..(k - 1)
          BY <4>3
        <5>. QED BY <3>1, <5>1
      <4>. QED BY <4>2, <4>3
    <3> HIDE DEF a, b
    <3>. QED BY <2>2, <2>3, <3>1, <3>2, SeqEqual
  <2> HIDE DEF a, b
  <2>5. FlattenSeq(b) = Cat(FlattenSeq(a), v[k])
    BY <2>1, <2>2, <2>4, FlattenAppend DEF Cat
  <2>. QED BY <2>5 DEF Chain, a, b
<1>4. \A k \in 0..n : Chain(v, k) \in Seq(A)
  BY <1>1, FlattenType DEF Chain
<1>5. [i \in 1..n |-> v[i]] = v
  BY <1>0
<1>. QED BY <1>2, <1>3, <1>4, <1>5 DEF Chain

\* The same, one by one.
LEMMA ChainZero ==
    ASSUME NEW A, NEW n, NEW v, AreTexts(v, n, A)
    PROVE  Chain(v, 0) = <<>>
BY ChainFacts

\* One piece more.
LEMMA ChainNext ==
    ASSUME NEW A, NEW n, NEW v, AreTexts(v, n, A), NEW k \in 1..n
    PROVE  Chain(v, k) = Cat(Chain(v, k - 1), v[k])
BY ChainFacts

\* The same, with a name for the place before.
LEMMA ChainStep ==
    ASSUME NEW A, NEW n, NEW v, AreTexts(v, n, A), NEW k, NEW j, k \in 1..n, j = k - 1
    PROVE  Chain(v, k) = Cat(Chain(v, j), v[k])
BY ChainFacts

\* The first pieces are a sequence too.
LEMMA ChainType ==
    ASSUME NEW A, NEW n, NEW v, AreTexts(v, n, A), NEW k \in 0..n
    PROVE  Chain(v, k) \in Seq(A)
BY ChainFacts

\* All of them are the pieces flattened.
LEMMA ChainAll ==
    ASSUME NEW A, NEW n, NEW v, AreTexts(v, n, A)
    PROVE  Chain(v, n) = FlattenSeq(v)
BY ChainFacts

\* f says what each element of A stands for: a sequence in B.
Reads(f, A, B) == f \in [A -> Seq(B)]

\* What the elements of a sequence stand for, one after the other.
Spread(f, a) == FlattenSeq([k \in DOMAIN a |-> f[a[k]]])

\* What each element stands for.
Pieces(f, a) == [k \in 1..Len(a) |-> f[a[k]]]

\* What a sequence stands for, as a chain of pieces.
LEMMA SpreadChain ==
    ASSUME NEW A, NEW B, NEW f, Reads(f, A, B), NEW a \in Seq(A)
    PROVE  /\ AreTexts(Pieces(f, a), Len(a), B)
           /\ Spread(f, a) = Chain(Pieces(f, a), Len(a))
           /\ Spread(f, a) \in Seq(B)
<1>1. DOMAIN a = 1..Len(a) /\ Len(a) \in Nat /\ \A k \in 1..Len(a) : a[k] \in A
  OBVIOUS
<1>2. AreTexts(Pieces(f, a), Len(a), B)
  BY <1>1 DEF Pieces, AreTexts, Reads
<1>3. Spread(f, a) = FlattenSeq(Pieces(f, a))
  BY <1>1 DEF Spread, Pieces
<1>4. /\ Chain(Pieces(f, a), Len(a)) = FlattenSeq(Pieces(f, a))
      /\ Chain(Pieces(f, a), Len(a)) \in Seq(B)
  <2>1. Len(a) \in 0..Len(a)
    BY <1>1
  <2>. QED BY <1>2, <2>1, ChainFacts
<1>. QED BY <1>2, <1>3, <1>4

\* Nothing stands for nothing.
LEMMA SpreadEmpty ==
    ASSUME NEW f
    PROVE  Spread(f, <<>>) = <<>>
<1>1. [k \in DOMAIN <<>> |-> f[<<>>[k]]] = <<>>
  OBVIOUS
<1>2. FlattenSeq(<<>>) = <<>>
  BY DEF FlattenSeq
<1>. QED BY <1>1, <1>2 DEF Spread

\* From piece m on, v goes on as w begins.
GoesOn(v, m, n, w, l) == m \in 0..n /\ m + l <= n /\ \A i \in 1..l : v[m + i] = w[i]

\* A chain goes on with another.
LEMMA ChainOn ==
    ASSUME NEW A, NEW n, NEW v, AreTexts(v, n, A), NEW l, NEW w, AreTexts(w, l, A),
           NEW m, GoesOn(v, m, n, w, l)
    PROVE  Chain(v, m + l) = Cat(Chain(v, m), Chain(w, l))
<1> DEFINE T == {i \in 0..l : Chain(v, m + i) = Cat(Chain(v, m), Chain(w, i))}
<1>0. n \in Nat /\ l \in Nat /\ m \in Nat /\ m \in 0..n
  BY DEF AreTexts, GoesOn
<1>1. Chain(v, m) \in Seq(A)
  BY <1>0, ChainType
<1>2. 0 \in T
  <2>1. Chain(w, 0) = <<>>
    BY ChainZero
  <2>2. Cat(Chain(v, m), <<>>) = Chain(v, m)
    BY <1>1, CatNothing
  <2>3. m + 0 = m /\ 0 \in 0..l
    BY <1>0
  <2>. QED BY <2>1, <2>2, <2>3
<1>3. ASSUME NEW i \in 1..l, i - 1 \in T PROVE i \in T
  <2> DEFINE k == m + i
             h == i - 1
  <2>1. k \in 1..n /\ k - 1 = m + h /\ i \in 0..l /\ h \in 0..l
    BY <1>0 DEF GoesOn
  <2>2. v[k] = w[i] /\ w[i] \in Seq(A)
    BY DEF GoesOn, AreTexts
  <2>5. Chain(v, m + h) = Cat(Chain(v, m), Chain(w, h))
    BY <1>3
  <2> DEFINE g == m + h
  <2>1a. k \in 1..n /\ g = k - 1
    BY <2>1
  <2> HIDE DEF k, g, T
  <2>3. Chain(v, k) = Cat(Chain(v, g), v[k])
    BY <2>1a, ChainStep
  <2>4. Chain(w, i) = Cat(Chain(w, h), w[i]) /\ Chain(w, h) \in Seq(A)
    <3>1. Chain(w, i) = Cat(Chain(w, i - 1), w[i])
      BY ChainNext
    <3>2. Chain(w, h) \in Seq(A)
      BY <2>1, ChainType
    <3>. QED BY <3>1, <3>2
  <2> HIDE DEF h
  <2>6. Cat(Cat(Chain(v, m), Chain(w, h)), w[i]) = Cat(Chain(v, m), Cat(Chain(w, h), w[i]))
    BY <1>1, <2>2, <2>4, CatAssociative
  <2>7. Chain(v, m + i) = Cat(Chain(v, m), Chain(w, i))
    BY <2>1, <2>2, <2>3, <2>4, <2>5, <2>6 DEF k, g
  <2>. QED BY <2>1, <2>7 DEF T
<1>4. \A i \in 0..l : i \in T
  <2> HIDE DEF T
  <2>. QED BY <1>0, <1>2, <1>3, UpToInduct
<1>5. l \in T
  BY <1>0, <1>4
<1>. QED BY <1>5

\* The pieces of a concatenation.
LEMMA SpreadConcat ==
    ASSUME NEW A, NEW B, NEW f, Reads(f, A, B), NEW a \in Seq(A), NEW b \in Seq(A)
    PROVE  Spread(f, Cat(a, b)) = Cat(Spread(f, a), Spread(f, b))
<1> DEFINE c == Cat(a, b)
           la == Len(a)
           lb == Len(b)
           lc == Len(c)
           pa == Pieces(f, a)
           pb == Pieces(f, b)
           pab == Pieces(f, c)
<1>1. /\ la \in Nat /\ lb \in Nat /\ lc = la + lb /\ c \in Seq(A)
      /\ \A i \in 1..la : c[i] = a[i]
      /\ \A i \in 1..lb : c[la + i] = b[i]
  BY DEF Cat
<1> HIDE DEF c
<1>2. /\ AreTexts(pa, la, B) /\ Spread(f, a) = Chain(pa, la)
      /\ AreTexts(pb, lb, B) /\ Spread(f, b) = Chain(pb, lb)
      /\ AreTexts(pab, lc, B) /\ Spread(f, c) = Chain(pab, lc)
  BY <1>1, SpreadChain
<1>3. \A i \in 1..la : pab[i] = pa[i]
  <2>1. \A i \in 1..la : i \in 1..lc
    BY <1>1
  <2> HIDE DEF la, lc
  <2>. QED BY <1>1, <2>1 DEF Pieces, la, lc
<1>4. \A i \in 1..lb : pab[la + i] = pb[i]
  <2>1. \A i \in 1..lb : la + i \in 1..lc
    BY <1>1
  <2> HIDE DEF la, lb, lc
  <2>. QED BY <1>1, <2>1 DEF Pieces, la, lb, lc
<1> HIDE DEF la, lb, lc, pa, pb, pab
<1>5. Chain(pab, la) = Chain(pa, la)
  <2>1. [i \in 1..la |-> pab[i]] = [i \in 1..la |-> pa[i]]
    BY <1>3
  <2>. QED BY <2>1 DEF Chain
<1>6. Chain(pab, la + lb) = Cat(Chain(pab, la), Chain(pb, lb))
  <2>1. la \in 0..lc /\ la + lb <= lc
    BY <1>1
  <2>2. GoesOn(pab, la, lc, pb, lb)
    BY <1>4, <2>1 DEF GoesOn
  <2>. QED BY <1>2, <2>2, ChainOn
<1>. QED BY <1>1, <1>2, <1>5, <1>6 DEF c

\* What one element stands for.
LEMMA SpreadOne ==
    ASSUME NEW A, NEW B, NEW f, Reads(f, A, B), NEW x \in A
    PROVE  Spread(f, <<x>>) = f[x] /\ f[x] \in Seq(B)
<1> DEFINE v == [k \in 1..1 |-> f[x]]
<1>1. [k \in DOMAIN <<x>> |-> f[<<x>>[k]]] = v
  OBVIOUS
<1>2. AreTexts(v, 1, B) /\ v[1] = f[x] /\ f[x] \in Seq(B)
  BY DEF AreTexts, Reads
<1> HIDE DEF v
<1>3. Chain(v, 1) = Cat(Chain(v, 0), v[1]) /\ Chain(v, 0) = <<>> /\ Chain(v, 1) = FlattenSeq(v)
  <2>1. 1 \in 1..1 /\ 1 - 1 = 0
    OBVIOUS
  <2>2. Chain(v, 1) = Cat(Chain(v, 1 - 1), v[1])
    BY <1>2, <2>1, ChainFacts
  <2>3. Chain(v, 0) = <<>> /\ Chain(v, 1) = FlattenSeq(v)
    BY <1>2, ChainZero, ChainAll
  <2>. QED BY <2>1, <2>2, <2>3
<1>4. Cat(<<>>, f[x]) = f[x]
  BY <1>2, CatNothing
<1>. QED BY <1>1, <1>2, <1>3, <1>4 DEF Spread

\* One element more.
LEMMA SpreadAppend ==
    ASSUME NEW A, NEW B, NEW f, Reads(f, A, B), NEW a \in Seq(A), NEW x \in A
    PROVE  Spread(f, Append(a, x)) = Cat(Spread(f, a), f[x])
<1> DEFINE b == <<x>>
<1>1. Append(a, x) = Cat(a, b) /\ b \in Seq(A)
  BY DEF Cat
<1>2. Spread(f, b) = f[x]
  BY SpreadOne
<1> HIDE DEF b
<1>3. Spread(f, Cat(a, b)) = Cat(Spread(f, a), Spread(f, b))
  BY <1>1, SpreadConcat
<1>. QED BY <1>1, <1>2, <1>3

\* The pieces of pieces.
LEMMA SpreadOfChain ==
    ASSUME NEW A, NEW B, NEW f, Reads(f, A, B), NEW n, NEW v, AreTexts(v, n, A),
           NEW w, AreTexts(w, n, B), \A i \in 1..n : w[i] = Spread(f, v[i])
    PROVE  \A k \in 0..n : Spread(f, Chain(v, k)) = Chain(w, k)
<1> DEFINE T == {k \in 0..n : Spread(f, Chain(v, k)) = Chain(w, k)}
<1>0. n \in Nat /\ \A i \in 1..n : v[i] \in Seq(A)
  BY DEF AreTexts
<1>1. 0 \in T
  <2>1. Chain(v, 0) = <<>> /\ Chain(w, 0) = <<>>
    BY ChainFacts
  <2>. QED BY <1>0, <2>1, SpreadEmpty
<1>2. ASSUME NEW k \in 1..n, k - 1 \in T PROVE k \in T
  <2>1. k \in 0..n /\ k - 1 \in 0..n /\ v[k] \in Seq(A)
    BY <1>0
  <2>2. Chain(v, k) = Cat(Chain(v, k - 1), v[k]) /\ Chain(v, k - 1) \in Seq(A)
    BY <2>1, ChainFacts
  <2>3. Chain(w, k) = Cat(Chain(w, k - 1), w[k])
    BY ChainFacts
  <2>4. Spread(f, Cat(Chain(v, k - 1), v[k])) = Cat(Spread(f, Chain(v, k - 1)), Spread(f, v[k]))
    BY <2>1, <2>2, SpreadConcat
  <2>. QED BY <1>2, <2>1, <2>2, <2>3, <2>4
<1>3. \A k \in 0..n : k \in T
  <2> HIDE DEF T
  <2>. QED BY <1>0, <1>1, <1>2, UpToInduct
<1>. QED BY <1>3

\* The same of all the pieces.
LEMMA SpreadFlatten ==
    ASSUME NEW A, NEW B, NEW f, Reads(f, A, B), NEW n, NEW v, AreTexts(v, n, A),
           NEW w, AreTexts(w, n, B), \A i \in 1..n : w[i] = Spread(f, v[i])
    PROVE  Spread(f, FlattenSeq(v)) = FlattenSeq(w)
<1>1. Chain(v, n) = FlattenSeq(v) /\ Chain(w, n) = FlattenSeq(w)
  BY ChainAll
<1>2. n \in 0..n
  BY DEF AreTexts
<1>. QED BY <1>1, <1>2, SpreadOfChain

\* Join, text by text.
LEMMA JoinOf ==
    ASSUME NEW A, NEW s \in Seq(A), NEW n, NEW texts, AreTexts(texts, n, A)
    PROVE  /\ \E j : Joined(j, s, texts, n, A) /\ Join(s, texts) = j[n]
           /\ Join(s, texts) \in Seq(A)
<1>1. n \in Nat /\ texts \in [1..n -> Seq(A)]
  BY DEF AreTexts
<1>. QED BY <1>1, JoinFold, JoinType

\* The pieces of texts that are joined.
LEMMA SpreadJoin ==
    ASSUME NEW A, NEW B, NEW f, Reads(f, A, B), NEW s \in Seq(A), NEW n,
           NEW texts, AreTexts(texts, n, A), NEW t \in Seq(B), t = Spread(f, s),
           NEW w, AreTexts(w, n, B), \A i \in 1..n : w[i] = Spread(f, texts[i])
    PROVE  Spread(f, Join(s, texts)) = Join(t, w)
<1>0. n \in Nat /\ \A i \in 1..n : texts[i] \in Seq(A)
  BY DEF AreTexts
<1>1. PICK j : Joined(j, s, texts, n, A) /\ Join(s, texts) = j[n]
  BY JoinOf
<1>2. PICK h : Joined(h, t, w, n, B) /\ Join(t, w) = h[n]
  BY JoinOf
<1> DEFINE T == {k \in 0..n : Spread(f, j[k]) = h[k]}
<1>3. 0 \in T
  <2>1. j[0] = <<>> /\ h[0] = <<>>
    BY <1>1, <1>2 DEF Joined
  <2>. QED BY <1>0, <2>1, SpreadEmpty
<1>4. ASSUME NEW k \in 1..n, k - 1 \in T PROVE k \in T
  <2> DEFINE u == IF k = 1 THEN <<>> ELSE s
             x == IF k = 1 THEN <<>> ELSE t
  <2>1. k \in 0..n /\ k - 1 \in 0..n /\ texts[k] \in Seq(A) /\ u \in Seq(A)
    BY <1>0
  <2>2. Spread(f, u) = x
    BY SpreadEmpty
  <2>3. j[k] = Cat(Cat(j[k - 1], u), texts[k]) /\ j[k - 1] \in Seq(A)
    BY <1>1, <2>1 DEF Joined, Cat
  <2>4. h[k] = Cat(Cat(h[k - 1], x), w[k])
    BY <1>2, <2>1 DEF Joined, Cat
  <2> HIDE DEF u, x
  <2> DEFINE i == j[k - 1]
             e == Cat(i, u)
             x1 == texts[k]
  <2>5. i \in Seq(A) /\ e \in Seq(A) /\ x1 \in Seq(A)
    BY <2>1, <2>3, CatType
  <2>6. Spread(f, Cat(e, x1)) = Cat(Spread(f, e), Spread(f, x1))
    <3> HIDE DEF e, x1
    <3>. QED BY <2>5, SpreadConcat
  <2>7. Spread(f, Cat(i, u)) = Cat(Spread(f, i), Spread(f, u))
    <3> HIDE DEF i
    <3>. QED BY <2>1, <2>5, SpreadConcat
  <2>8. Spread(f, j[k - 1]) = h[k - 1] /\ w[k] = Spread(f, texts[k])
    BY <1>4
  <2>. QED BY <2>1, <2>2, <2>3, <2>4, <2>6, <2>7, <2>8
<1>5. \A k \in 0..n : k \in T
  <2> HIDE DEF T
  <2>. QED BY <1>0, <1>3, <1>4, UpToInduct
<1>6. n \in T
  BY <1>0, <1>5
<1>. QED BY <1>1, <1>2, <1>6

\* Elements that stand for themselves.
HeardItself(f, a) == \A k \in 1..Len(a) : f[a[k]] = <<a[k]>>

\* A sequence of them stands for itself.
LEMMA SpreadAll ==
    ASSUME NEW A, NEW B, NEW f, Reads(f, A, B), NEW a \in Seq(A), HeardItself(f, a)
    PROVE  Spread(f, a) = a
<1> DEFINE n == Len(a)
           p == Pieces(f, a)
           sub(k) == SubSeq(a, 1, k)
           T == {k \in 0..n : Chain(p, k) = sub(k)}
<1>0. n \in Nat /\ n \in 0..n
  OBVIOUS
<1>1. AreTexts(p, n, B) /\ Spread(f, a) = Chain(p, n)
  <2> HIDE DEF p
  <2>. QED BY SpreadChain DEF p
<1>1a. \A k \in 1..n : p[k] = <<a[k]>>
  BY DEF Pieces, HeardItself
<1>2. sub(0) = <<>> /\ sub(n) = a
  BY SubSeqFull, SubSeqEmpty
<1>3. \A k \in 1..n : sub(k) = Cat(sub(k - 1), <<a[k]>>)
  <2>1. TAKE k \in 1..n
  <2>2. 1 \in 1..Len(a) /\ k \in 1..Len(a)
    BY <1>0
  <2>. QED BY <2>2, SubSeqRecursiveSecond DEF Cat
<1> HIDE DEF n, p, sub
<1>4. 0 \in T
  <2>1. Chain(p, 0) = <<>>
    BY <1>1, ChainZero
  <2>. QED BY <1>0, <1>2, <2>1
<1>5. ASSUME NEW k \in 1..n, k - 1 \in T PROVE k \in T
  <2>1. Chain(p, k) = Cat(Chain(p, k - 1), p[k])
    <3> HIDE DEF T
    <3>. QED BY <1>1, ChainNext
  <2>2. k \in 0..n
    BY <1>0
  <2>. QED BY <1>1a, <1>3, <1>5, <2>1, <2>2
<1>6. n \in T
  <2>1. \A k \in 0..n : k \in T
    <3> HIDE DEF T
    <3>. QED BY <1>0, <1>4, <1>5, UpToInduct
  <2>. QED BY <1>0, <2>1
<1>. QED BY <1>1, <1>2, <1>6

\* Pieces that are all nothing.
LEMMA ChainNone ==
    ASSUME NEW A, NEW n, NEW v, AreTexts(v, n, A), \A i \in 1..n : v[i] = <<>>
    PROVE  Chain(v, n) = <<>>
<1> DEFINE T == {k \in 0..n : Chain(v, k) = <<>>}
<1>0. n \in Nat
  BY DEF AreTexts
<1>1. 0 \in T
  <2>1. Chain(v, 0) = <<>>
    BY ChainFacts
  <2>. QED BY <1>0, <2>1
<1>2. ASSUME NEW k \in 1..n, k - 1 \in T PROVE k \in T
  <2>1. Chain(v, k) = Cat(Chain(v, k - 1), v[k])
    BY ChainFacts
  <2>2. Cat(<<>>, <<>>) = <<>> /\ k \in 0..n
    BY <1>0 DEF Cat
  <2>. QED BY <1>2, <2>1, <2>2
<1>3. \A k \in 0..n : k \in T
  <2> HIDE DEF T
  <2>. QED BY <1>0, <1>1, <1>2, UpToInduct
<1>. QED BY <1>0, <1>3

\* Elements that stand for nothing.
LEMMA SpreadNone ==
    ASSUME NEW A, NEW B, NEW f, Reads(f, A, B), NEW a \in Seq(A),
           \A k \in 1..Len(a) : f[a[k]] = <<>>
    PROVE  Spread(f, a) = <<>>
<1> DEFINE p == Pieces(f, a)
<1>1. AreTexts(p, Len(a), B) /\ Spread(f, a) = Chain(p, Len(a)) /\ \A k \in 1..Len(a) : p[k] = <<>>
  <2>1. \A k \in 1..Len(a) : p[k] = f[a[k]]
    BY DEF Pieces
  <2> HIDE DEF p
  <2>. QED BY <2>1, SpreadChain DEF p
<1> HIDE DEF p
<1>. QED BY <1>1, ChainNone

\* Join of no separator is all one after the other.
LEMMA JoinNothing ==
    ASSUME NEW A, NEW n, NEW v, AreTexts(v, n, A)
    PROVE  Join(<<>>, v) = Chain(v, n)
<1>0. n \in Nat
  BY DEF AreTexts
<1>1. PICK j : Joined(j, <<>>, v, n, A) /\ Join(<<>>, v) = j[n]
  <2> DEFINE s == <<>>
  <2>1. s \in Seq(A)
    OBVIOUS
  <2> HIDE DEF s
  <2>2. \E j : Joined(j, s, v, n, A) /\ Join(s, v) = j[n]
    BY <2>1, JoinOf
  <2>. QED BY <2>2 DEF s
<1> DEFINE T == {k \in 0..n : j[k] = Chain(v, k)}
<1>2. 0 \in T
  <2>1. Chain(v, 0) = <<>>
    BY ChainFacts
  <2>. QED BY <1>0, <1>1, <2>1 DEF Joined
<1>3. ASSUME NEW k \in 1..n, k - 1 \in T PROVE k \in T
  <2>1. k \in 0..n /\ k - 1 \in 0..n
    BY <1>0
  <2>2. j[k] = Cat(Cat(j[k - 1], <<>>), v[k]) /\ j[k - 1] \in Seq(A)
    <3>1. (IF k = 1 THEN <<>> ELSE <<>>) = <<>>
      OBVIOUS
    <3>. QED BY <1>1, <2>1, <3>1 DEF Joined, Cat
  <2>3. Cat(j[k - 1], <<>>) = j[k - 1]
    BY <2>2, CatNothing
  <2>4. Chain(v, k) = Cat(Chain(v, k - 1), v[k])
    BY ChainFacts
  <2>. QED BY <1>3, <2>1, <2>2, <2>3, <2>4
<1>4. \A k \in 0..n : k \in T
  <2> HIDE DEF T
  <2>. QED BY <1>0, <1>2, <1>3, UpToInduct
<1>5. n \in T
  BY <1>0, <1>4
<1>. QED BY <1>1, <1>5

-----------------------------------------------------------------------------
(* What is heard of a text, and how often each position is due.            *)

\* What is heard of each atom.
Ear == [x \in TextAtoms |-> Hear(x)]

\* White space and full stops are not heard, the rest is.
LEMMA EarFacts ==
    ASSUME ContentType
    PROVE  /\ Reads(Ear, TextAtoms, TextAtoms)
           /\ \A x \in Positions : Ear[x] = IF content[x] \in Blanks THEN <<>> ELSE <<x>>
           /\ Ear[Dot] = <<>> /\ Ear[Space] = <<>> /\ Ear[Powtarzam] = <<Powtarzam>>
           /\ Positions \subseteq TextAtoms
           /\ Dot \in TextAtoms /\ Space \in TextAtoms /\ Powtarzam \in TextAtoms
<1>1. /\ Positions \subseteq TextAtoms
      /\ Dot \in TextAtoms /\ Space \in TextAtoms /\ Powtarzam \in TextAtoms
  BY DEF TextAtoms
<1>2. Dot # Powtarzam /\ Space # Powtarzam /\ Powtarzam \notin Positions
      /\ Dot \notin Positions /\ Space \notin Positions
  BY PositionsAre DEF Dot, Powtarzam, Space
<1>3. \A x \in TextAtoms : Ear[x] = Hear(x)
  BY DEF Ear
<1>4. ASSUME NEW x \in TextAtoms PROVE Ear[x] \in Seq(TextAtoms)
  <2> DEFINE none == <<>>
             one == <<x>>
  <2>1. none \in Seq(TextAtoms) /\ one \in Seq(TextAtoms)
    OBVIOUS
  <2>2. Hear(x) = none \/ Hear(x) = one
    BY DEF Hear
  <2> HIDE DEF none, one
  <2>. QED BY <1>3, <2>1, <2>2
<1>5. Reads(Ear, TextAtoms, TextAtoms)
  BY <1>4 DEF Reads, Ear
<1>6. \A x \in Positions : Ear[x] = IF content[x] \in Blanks THEN <<>> ELSE <<x>>
  BY <1>1, <1>2, <1>3 DEF Hear
<1>7. Ear[Dot] = <<>> /\ Ear[Space] = <<>> /\ Ear[Powtarzam] = <<Powtarzam>>
  BY <1>1, <1>2, <1>3 DEF Hear
<1>. QED BY <1>1, <1>5, <1>6, <1>7

\* What is heard of an audio, atom by atom.
LEMMA HeardOfIs ==
    ASSUME NEW a \in Seq(TextAtoms)
    PROVE  HeardOf(a) = Spread(Ear, a)
<1>1. \A k \in DOMAIN a : a[k] \in TextAtoms
  OBVIOUS
<1>2. [k \in DOMAIN a |-> Hear(a[k])] = [k \in DOMAIN a |-> Ear[a[k]]]
  BY <1>1 DEF Ear
<1>. QED BY <1>2 DEF HeardOf, Spread

\* How often the effects at these positions ask to be heard.
CountAt(j) == CountOf[content[j]]
AllTags(fs) == \A f \in fs : content[f] \in Tags
CountsAt(fs) == MapThenSumSet(CountAt, fs)

\* The sum grows with each position by what its effect asks for.
LEMMA CountsAdd ==
    ASSUME NEW fs, IsFiniteSet(fs), AllTags(fs)
    PROVE  /\ CountsAt(fs) \in Nat
           /\ fs = {} => CountsAt(fs) = 0
           /\ \A f \in fs : CountsAt(fs) = CountAt(f) + CountsAt(fs \ {f})
<1> DEFINE w == [f \in fs |-> CountAt(f)]
           Is(g, gs) == g = [s \in SUBSET gs |->
                                IF s = {} THEN 0
                                ELSE CountAt(CHOOSE x \in s : TRUE)
                                         + g[s \ {CHOOSE x \in s : TRUE}]]
           it(gs) == CHOOSE g : Is(g, gs)
<1>1. \A f \in fs : w[f] = CountAt(f) /\ CountAt(f) \in Nat
  BY RenderingAssumption DEF AllTags, CountAt
<1>2. PICK g \in [SUBSET fs -> Nat] : Sums(g, fs, w)
  <2> HIDE DEF w
  <2>. QED BY <1>1, SumExists
<1>3. ASSUME NEW gs \in SUBSET fs PROVE CountsAt(gs) = g[gs]
  <2>1. IsFiniteSet(gs)
    BY FS_Subset
  <2> DEFINE h == [s \in SUBSET gs |-> g[s]]
  <2>2. ASSUME NEW s \in SUBSET gs
        PROVE  h[s] = IF s = {} THEN 0
                      ELSE CountAt(CHOOSE x \in s : TRUE)
                               + h[s \ {CHOOSE x \in s : TRUE}]
    <3> HIDE DEF w
    <3>. QED BY <1>1, <1>2 DEF Sums
  <2>3. Is(h, gs)
    <3> HIDE DEF w
    <3>. QED BY <2>2
  <2>4. Is(it(gs), gs)
    <3> HIDE DEF h
    <3>. QED BY <2>3
  <2>5. Sums(it(gs), gs, w)
    <3> HIDE DEF w, it
    <3>. QED BY <1>1, <2>4 DEF Sums
  <2>6. Sums(g, gs, w)
    BY <1>2 DEF Sums
  <2>7. it(gs)[gs] = g[gs]
    <3> HIDE DEF w, it
    <3>. QED BY <2>1, <2>5, <2>6, SumUnique
  <2>8. CountsAt(gs) = it(gs)[gs]
    BY DEF CountsAt, MapThenSumSet, MapThenFoldSet
  <2>. QED BY <2>7, <2>8
<1>4. g[{}] = 0
  BY <1>2 DEF Sums
<1>5. \A f \in fs : g[fs] = w[f] + g[fs \ {f}]
  <2> HIDE DEF w
  <2>1. fs \in SUBSET fs
    OBVIOUS
  <2>. QED BY <1>1, <1>2, <2>1, SumFacts
<1> HIDE DEF w
<1>. QED BY <1>1, <1>3, <1>4, <1>5

\* How often the effects up to position i ask to be heard.
TagsTo(i) == {j \in 1..i : content[j] \in Tags}
Used(i) == CountsAt(TagsTo(i))

\* Each tag adds what it asks for, and nothing else does.
LEMMA UsedFacts ==
    ASSUME ContentType
    PROVE  /\ Used(0) = 0
           /\ \A i \in 0..Len(content) : Used(i) \in Nat
           /\ \A i \in Positions :
                 Used(i) = Used(i - 1) + IF content[i] \in Tags THEN CountOf[content[i]] ELSE 0
<1> DEFINE n == Len(content)
<1>0. n \in Nat /\ Positions = 1..n
  BY PositionsAre
<1> HIDE DEF n
<1>1. \A i \in 0..n : IsFiniteSet(TagsTo(i)) /\ AllTags(TagsTo(i))
  <2>1. TAKE i \in 0..n
  <2>2. IsFiniteSet(1..i)
    BY <1>0, FS_Interval
  <2>3. TagsTo(i) \subseteq 1..i
    BY DEF TagsTo
  <2>4. IsFiniteSet(TagsTo(i))
    BY <2>2, <2>3, FS_Subset
  <2>. QED BY <2>4 DEF TagsTo, AllTags
<1>2. Used(0) = 0
  <2>1. TagsTo(0) = {} /\ 0 \in 0..n
    BY <1>0 DEF TagsTo
  <2>. QED BY <1>1, <2>1, CountsAdd DEF Used
<1>3. \A i \in 0..n : Used(i) \in Nat
  BY <1>1, CountsAdd DEF Used
<1>4. ASSUME NEW i \in 1..n
      PROVE  Used(i) = Used(i - 1) + IF content[i] \in Tags THEN CountOf[content[i]] ELSE 0
  <2>1. i \in 0..n /\ i - 1 \in 0..n
    BY <1>0
  <2>2. Used(i) \in Nat /\ Used(i - 1) \in Nat
    BY <1>3, <2>1
  <2>3. CASE content[i] \notin Tags
    <3>1. TagsTo(i) = TagsTo(i - 1)
      BY <1>0, <2>3 DEF TagsTo
    <3>2. Used(i) = Used(i - 1)
      BY <3>1 DEF Used
    <3>. QED BY <2>2, <2>3, <3>2
  <2>4. CASE content[i] \in Tags
    <3>1. i \in TagsTo(i) /\ TagsTo(i) \ {i} = TagsTo(i - 1)
      BY <1>0, <2>4 DEF TagsTo
    <3>2. CountsAt(TagsTo(i)) = CountAt(i) + CountsAt(TagsTo(i) \ {i})
      BY <1>1, <2>1, <3>1, CountsAdd
    <3>2a. CountAt(i) \in Nat
      BY <2>4, RenderingAssumption DEF CountAt
    <3>3. Used(i) = CountOf[content[i]] + Used(i - 1)
      BY <3>1, <3>2 DEF Used, CountAt
    <3>. QED BY <2>2, <2>4, <3>2a, <3>3 DEF CountAt
  <2>. QED BY <2>3, <2>4
<1>. QED BY <1>0, <1>2, <1>3, <1>4 DEF n

\* Cutting to what is left is the same before and after the budget is up.
Spent(e, u) == Min({e, u})
LeftOf(c, e, u) == Min({c, e - Spent(e, u)})
Cut(c, e, u) == Max({0, Min({c, e - u})})

Adds(c, e, u) == Spent(e, u) + LeftOf(c, e, u) = Spent(e, u + c)

\* What is left for an effect, reckoned either way, adds up to the budget.
LEMMA CutToLeft ==
    ASSUME NEW c \in Nat \ {0}, NEW e \in Nat \ {0}, NEW u \in Nat
    PROVE  /\ LeftOf(c, e, u) \in 0..e /\ Cut(c, e, u) = LeftOf(c, e, u)
           /\ Spent(e, u) \in 0..e /\ Adds(c, e, u)
           /\ LeftOf(c, e, u) = 0 <=> Spent(e, u) = e
<1> DEFINE m == Min({e, u})
           d == e - m
           left == Min({c, d})
           x == e - u
           a == Min({c, x})
           y == u + c
           z == Min({e, y})
           b == Max({0, a})
<1>1. m \in {e, u} /\ m <= e /\ m <= u
  BY MinPair
<1> HIDE DEF m
<1>2. m \in Int /\ m >= 0 /\ d \in Int /\ d + m = e /\ x \in Int /\ x + u = e /\ y \in Int /\ y = u + c
  BY <1>1
<1> HIDE DEF d, x, y
<1>3. left \in {c, d} /\ left <= c /\ left <= d
  BY <1>2, MinPair
<1>4. a \in {c, x} /\ a <= c /\ a <= x
  BY <1>2, MinPair
<1>5. z \in {e, y} /\ z <= e /\ z <= y
  <2>1. e \in Int /\ y \in Int
    BY <1>2
  <2>. QED BY <2>1, MinPair
<1> HIDE DEF left, a, z
<1>6. b \in {0, a} /\ b >= 0 /\ b >= a
  BY <1>2, <1>4, MaxPair
<1> HIDE DEF b
<1>7. left \in 0..e /\ m \in 0..e
  BY <1>1, <1>2, <1>3
<1>8. b = left
  BY <1>1, <1>2, <1>3, <1>4, <1>6
<1>9. m + left = z
  BY <1>1, <1>2, <1>3, <1>5
<1>10. left = 0 <=> m = e
  BY <1>1, <1>2, <1>3
<1>. QED BY <1>7, <1>8, <1>9, <1>10 DEF m, left, a, z, b, d, x, y, Spent, LeftOf, Cut, Adds

\* Position i as often as it is due, and all of them in order.
Due(i) == [k \in 1..TimesDue(i) |-> i]
Dues == [i \in Positions |-> Due(i)]

\* What is left for a tag once the budget has been used up to here.
Left(i) == LeftOf(CountOf[content[i]], MaxEffects, Used(i - 1))

\* Of text, what is heard of it is due; of a tag, what is left for it.
LEMMA DueFacts ==
    ASSUME ContentType, NEW i \in Positions
    PROVE  /\ content[i] \notin Tags => Due(i) = Ear[i]
           /\ content[i] \in Tags => TimesDue(i) = Left(i) /\ Left(i) \in 0..MaxEffects
           /\ Due(i) \in Seq(TextAtoms)
           /\ content[i] \in Tags /\ Left(i) = 0 => Due(i) = <<>>
<1>0. i \in Nat \ {0} /\ i - 1 \in 0..Len(content) /\ content[i] \in Tokens
  BY PositionsAre DEF ContentType
<1>1. Used(i - 1) \in Nat /\ MaxEffects \in Nat \ {0}
  BY <1>0, UsedFacts, RenderingAssumption
<1> DEFINE used == MapThenSumSet(LAMBDA j : CountOf[content[j]], {j \in 1..(i - 1) : content[j] \in Tags})
<1>2. used = Used(i - 1)
  BY DEF Used, TagsTo, CountsAt, CountAt, MapThenSumSet, MapThenFoldSet
<1>3. TimesDue(i) = CASE content[i] \in Words -> 1
                      [] content[i] \in Blanks -> 0
                      [] content[i] \in Tags -> Max({0, Min({CountOf[content[i]], MaxEffects - used})})
  BY DEF TimesDue
<1> HIDE DEF used
<1>4. i \in TextAtoms
  BY EarFacts
<1>5. ASSUME content[i] \notin Tags PROVE Due(i) = Ear[i]
  <2>1. content[i] \in Words \/ content[i] \in Blanks
    BY <1>0, <1>5 DEF Tokens
  <2>2. CASE content[i] \in Words
    <3>1. TimesDue(i) = 1 /\ content[i] \notin Blanks
      BY <1>3, <1>5, <2>2, RenderingAssumption
    <3>2. [k \in 1..1 |-> i] = <<i>>
      OBVIOUS
    <3>. QED BY <3>1, <3>2, EarFacts DEF Due
  <2>3. CASE content[i] \in Blanks
    <3>1. TimesDue(i) = 0 /\ content[i] \notin Words
      BY <1>3, <1>5, <2>3, RenderingAssumption
    <3>2. [k \in 1..0 |-> i] = <<>>
      OBVIOUS
    <3>. QED BY <2>3, <3>1, <3>2, EarFacts DEF Due
  <2>. QED BY <2>1, <2>2, <2>3
<1>6. ASSUME content[i] \in Tags PROVE TimesDue(i) = Left(i) /\ Left(i) \in 0..MaxEffects
  <2>1. CountOf[content[i]] \in Nat \ {0}
    BY <1>6, RenderingAssumption
  <2>2. TimesDue(i) = Cut(CountOf[content[i]], MaxEffects, Used(i - 1))
    <3>1. content[i] \notin Words /\ content[i] \notin Blanks
      BY <1>6, RenderingAssumption
    <3>. QED BY <1>2, <1>3, <1>6, <3>1 DEF Cut
  <2>. QED BY <1>1, <2>1, <2>2, CutToLeft DEF Left
<1>7. Due(i) \in Seq(TextAtoms)
  <2>1. CASE content[i] \notin Tags
    <3>1. Ear[i] \in Seq(TextAtoms)
      BY <1>4, EarFacts DEF Reads
    <3>. QED BY <1>5, <2>1, <3>1
  <2>2. CASE content[i] \in Tags
    <3>1. TimesDue(i) \in Nat
      BY <1>1, <1>6, <2>2
    <3>. QED BY <1>4, <3>1, SeqDef DEF Due
  <2>. QED BY <2>1, <2>2
<1>8. ASSUME content[i] \in Tags, Left(i) = 0 PROVE Due(i) = <<>>
  <2>1. TimesDue(i) = 0
    BY <1>6, <1>8
  <2>2. [k \in 1..0 |-> i] = <<>>
    OBVIOUS
  <2>. QED BY <2>1, <2>2 DEF Due
<1>. QED BY <1>5, <1>6, <1>7, <1>8

\* What is due of each position is made of positions.
LEMMA DuesAre ==
    ASSUME ContentType
    PROVE  /\ AreTexts(Dues, Len(content), TextAtoms)
           /\ \A i \in Positions : Dues[i] = Due(i)
<1>1. Len(content) \in Nat /\ Positions = 1..Len(content)
  BY PositionsAre
<1>2. \A i \in Positions : Due(i) \in Seq(TextAtoms)
  BY DueFacts
<1>3. \A i \in Positions : Dues[i] = Due(i)
  BY DEF Dues
<1>4. Dues \in [Positions -> Seq(TextAtoms)]
  BY <1>2 DEF Dues
<1>. QED BY <1>1, <1>3, <1>4 DEF AreTexts

-----------------------------------------------------------------------------
(* Stripping takes nothing away that is heard.                             *)

\* Pieces of nothing add nothing.
Silent(v, m, l) == \A i \in (m + 1)..l : v[i] = <<>>

\* Silent pieces add nothing.
LEMMA ChainStill ==
    ASSUME NEW A, NEW n, NEW v, AreTexts(v, n, A), NEW l \in 0..n, NEW m \in 0..l,
           Silent(v, m, l)
    PROVE  Chain(v, l) = Chain(v, m)
<1> DEFINE T == {i \in 0..l : i >= m => Chain(v, i) = Chain(v, m)}
<1>0. n \in Nat /\ l \in Nat /\ m \in Nat /\ \A i \in 0..l : i \in 0..n
  BY DEF AreTexts
<1>1. 0 \in T
  BY <1>0
<1>2. ASSUME NEW i \in 1..l, i - 1 \in T PROVE i \in T
  <2>0. i \in 0..l
    BY <1>0
  <2>1. CASE i > m
    <3> DEFINE h == i - 1
    <3>1. i \in 1..n /\ h = i - 1 /\ h >= m /\ i \in (m + 1)..l /\ h \in 0..n
      BY <1>0, <2>1
    <3>2. Chain(v, h) = Chain(v, m)
      BY <1>2, <3>1
    <3>3. v[i] = <<>>
      BY <3>1 DEF Silent
    <3> HIDE DEF h, T
    <3>4. Chain(v, i) = Cat(Chain(v, h), v[i])
      BY <3>1, ChainStep
    <3>5. Chain(v, h) \in Seq(A)
      BY <3>1, ChainType
    <3>6. Cat(Chain(v, h), <<>>) = Chain(v, h)
      BY <3>5, CatNothing
    <3>. QED BY <2>0, <3>2, <3>3, <3>4, <3>6 DEF T
  <2>2. CASE i = m
    BY <2>0, <2>2
  <2>3. CASE i < m
    BY <1>0, <2>0, <2>3
  <2>. QED BY <1>0, <2>1, <2>2, <2>3
<1>3. \A i \in 0..l : i \in T
  <2> HIDE DEF T
  <2>. QED BY <1>0, <1>1, <1>2, UpToInduct
<1>4. l \in T /\ l >= m
  BY <1>0, <1>3
<1>. QED BY <1>4

\* What is stripped off is white space.
LEMMA StripSlice ==
    ASSUME NEW A, NEW text \in Seq(A)
    PROVE  \/ /\ Strip(text) = <<>>
              /\ \A i \in 1..Len(text) : content[text[i]] \in Blanks
           \/ \E a, b \in 1..Len(text) :
                 /\ a <= b
                 /\ Strip(text) \in Seq(A) /\ Len(Strip(text)) = b - a + 1
                 /\ \A i \in 1..(b - a + 1) : Strip(text)[i] = text[a + i - 1]
                 /\ \A i \in 1..(a - 1) : content[text[i]] \in Blanks
                 /\ \A i \in (b + 1)..Len(text) : content[text[i]] \in Blanks
<1> DEFINE ink == {i \in DOMAIN text : content[text[i]] \notin Blanks}
           n == Len(text)
<1>0. n \in Nat /\ DOMAIN text = 1..n /\ ink \in SUBSET (1..n)
  OBVIOUS
<1>1. CASE ink = {}
  <2>1. Strip(text) = <<>>
    BY <1>1 DEF Strip
  <2>. QED BY <1>0, <1>1, <2>1
<1>2. CASE ink # {}
  <2> DEFINE a == Min(ink)
             b == Max(ink)
  <2>1. a \in ink /\ b \in ink /\ \A i \in ink : a <= i /\ i <= b
    <3> HIDE DEF ink, n
    <3>1. b \in ink /\ \A i \in ink : b >= i
      BY <1>0, <1>2, MaxOf
    <3>2. \E x \in ink : \A y \in ink : x <= y
      <4>1. ink \in SUBSET Nat
        BY <1>0
      <4>. QED BY <1>2, <4>1, Least
    <3>3. a \in ink /\ \A i \in ink : a <= i
      BY <3>2 DEF Min
    <3>. QED BY <1>0, <3>1, <3>3
  <2>2. Strip(text) = SubSeq(text, a, b)
    BY <1>2 DEF Strip
  <2>3. \A i \in 1..n : i \notin ink => content[text[i]] \in Blanks
    BY <1>0
  <2> HIDE DEF a, b, ink
  <2>4. a \in 1..n /\ b \in 1..n /\ a <= b /\ a \in Int /\ b \in Int
    BY <1>0, <2>1
  <2>5. \A i \in a..b : i \in 1..n /\ text[i] \in A
    BY <2>4
  <2> DEFINE r == SubSeq(text, a, b)
  <2>6. /\ r \in Seq(A)
        /\ Len(r) = IF a <= b THEN b - a + 1 ELSE 0
        /\ \A i \in 1..(b - a + 1) : r[i] = text[a + i - 1]
    BY <2>4, <2>5, SubSeqProperties
  <2> HIDE DEF r, n
  <2>7. \A i \in 1..(a - 1) : i \in 1..n /\ i \notin ink
    BY <1>0, <2>1, <2>4
  <2>8. \A i \in (b + 1)..n : i \in 1..n /\ i \notin ink
    BY <1>0, <2>1, <2>4
  <2>. QED BY <2>2, <2>3, <2>4, <2>6, <2>7, <2>8 DEF r, n
<1>. QED BY <1>1, <1>2

\* Stripping takes off nothing that is heard.
LEMMA StripHeard ==
    ASSUME ContentType, NEW text \in Seq(Positions)
    PROVE  Spread(Ear, Strip(text)) = Spread(Ear, text)
<1> DEFINE n == Len(text)
           p == Pieces(Ear, text)
<1>0. /\ n \in Nat /\ Reads(Ear, TextAtoms, TextAtoms) /\ text \in Seq(TextAtoms)
      /\ \A i \in 1..n : text[i] \in Positions
  BY EarFacts
<1>1. AreTexts(p, n, TextAtoms) /\ Spread(Ear, text) = Chain(p, n)
  <2> HIDE DEF p
  <2>. QED BY <1>0, SpreadChain DEF p
<1>2. \A i \in 1..n : content[text[i]] \in Blanks => p[i] = <<>>
  BY <1>0, EarFacts DEF Pieces
<1>3. CASE Strip(text) = <<>> /\ \A i \in 1..n : content[text[i]] \in Blanks
  <2>1. Silent(p, 0, n)
    BY <1>2, <1>3 DEF Silent
  <2>2. 0 \in 0..n /\ n \in 0..n
    BY <1>0
  <2> HIDE DEF p, n
  <2>3. Chain(p, n) = Chain(p, 0) /\ Chain(p, 0) = <<>>
    BY <1>1, <2>1, <2>2, ChainStill, ChainZero
  <2>. QED BY <1>1, <1>3, <2>3, SpreadEmpty
<1>4. ASSUME NEW a \in 1..n, NEW b \in 1..n, a <= b,
             Strip(text) \in Seq(Positions), Len(Strip(text)) = b - a + 1,
             \A i \in 1..(b - a + 1) : Strip(text)[i] = text[a + i - 1],
             \A i \in 1..(a - 1) : content[text[i]] \in Blanks,
             \A i \in (b + 1)..n : content[text[i]] \in Blanks
      PROVE  Spread(Ear, Strip(text)) = Spread(Ear, text)
  <2> DEFINE r == Strip(text)
             l == b - a + 1
             m == a - 1
             q == Pieces(Ear, r)
  <2>1. /\ l \in Nat /\ m \in 0..n /\ m \in Nat /\ m + l = b /\ Len(r) = l /\ b \in 0..n
        /\ 0 \in 0..m /\ b \in Nat
        /\ \A i \in 1..l : m + i = a + i - 1 /\ m + i \in 1..n
    <3>1. Len(r) = l
      BY <1>4
    <3> HIDE DEF n, p, q, r
    <3>2. a \in Int /\ b \in Int /\ 1 <= a /\ a <= b /\ b <= n
      BY <1>0, <1>4
    <3>. QED BY <1>0, <3>1, <3>2
  <2>2. r \in Seq(TextAtoms)
    <3> HIDE DEF r
    <3>. QED BY <1>4, EarFacts DEF r
  <2>3. AreTexts(q, l, TextAtoms) /\ Spread(Ear, r) = Chain(q, l)
    <3> HIDE DEF q, r, l
    <3>. QED BY <1>0, <2>1, <2>2, SpreadChain DEF q
  <2>4. \A i \in 1..l : p[m + i] = q[i]
    <3>1. TAKE i \in 1..l
    <3>2. r[i] = text[m + i] /\ m + i \in 1..n
      BY <1>4, <2>1
    <3> HIDE DEF r, l, n
    <3>3. p[m + i] = Ear[text[m + i]] /\ q[i] = Ear[r[i]]
      BY <2>1, <3>2 DEF Pieces, n
    <3>. QED BY <3>2, <3>3
  <2>5. Silent(p, 0, m) /\ Silent(p, b, n)
    <3>1. \A i \in 1..m : i \in 1..n /\ content[text[i]] \in Blanks
      BY <1>0, <1>4
    <3>2. \A i \in (b + 1)..n : i \in 1..n /\ content[text[i]] \in Blanks
      BY <1>0, <1>4
    <3> HIDE DEF p, n, m
    <3>. QED BY <1>2, <2>1, <3>1, <3>2 DEF Silent
  <2>6. GoesOn(p, m, n, q, l)
    BY <2>1, <2>4 DEF GoesOn
  <2>6a. n \in 0..n /\ b \in 0..n /\ 0 \in 0..m
    BY <1>0, <2>1
  <2> HIDE DEF p, q, l, m, r, n
  <2>7. Chain(p, m) = <<>>
    <3>1. Chain(p, m) = Chain(p, 0)
      BY <1>1, <2>1, <2>5, ChainStill
    <3>. QED BY <1>1, <3>1, ChainZero
  <2>8. Chain(p, m + l) = Cat(Chain(p, m), Chain(q, l))
    BY <1>1, <2>3, <2>6, ChainOn
  <2>9. Chain(p, n) = Chain(p, b)
    <3> DEFINE c == b
    <3>1. c \in 0..n /\ Silent(p, c, n)
      BY <2>1, <2>5
    <3> HIDE DEF c
    <3>2. Chain(p, n) = Chain(p, c)
      BY <1>1, <2>6a, <3>1, ChainStill
    <3>. QED BY <3>2 DEF c
  <2>10. Chain(q, l) \in Seq(TextAtoms)
    <3>1. l \in 0..l
      BY <2>1
    <3>. QED BY <2>3, <3>1, ChainType
  <2>11. Cat(<<>>, Chain(q, l)) = Chain(q, l)
    BY <2>10, CatNothing
  <2>. QED BY <1>1, <2>1, <2>3, <2>7, <2>8, <2>9, <2>11 DEF r
<1>5. \/ Strip(text) = <<>> /\ \A i \in 1..n : content[text[i]] \in Blanks
      \/ \E a, b \in 1..n :
            /\ a <= b
            /\ Strip(text) \in Seq(Positions) /\ Len(Strip(text)) = b - a + 1
            /\ \A i \in 1..(b - a + 1) : Strip(text)[i] = text[a + i - 1]
            /\ \A i \in 1..(a - 1) : content[text[i]] \in Blanks
            /\ \A i \in (b + 1)..n : content[text[i]] \in Blanks
  BY StripSlice
<1> HIDE DEF p
<1>. QED BY <1>3, <1>4, <1>5

-----------------------------------------------------------------------------
(* What split_segments makes of a content is heard as the content is due.  *)

\* What is due of a segment.
SegDue(seg) == IF seg.kind = "speech" THEN Spread(Ear, seg.text)
               ELSE [k \in 1..seg.count |-> seg.at]
DueOf == [seg \in SegmentType |-> SegDue(seg)]

\* What is due of a segment is made of positions.
LEMMA DueOfFacts ==
    ASSUME ContentType
    PROVE  /\ Reads(DueOf, SegmentType, TextAtoms)
           /\ \A seg \in SegmentType : DueOf[seg] = SegDue(seg)
           /\ \A seg \in SegmentType : SegDue(seg) \in Seq(TextAtoms)
<1>1. ASSUME NEW seg \in SegmentType PROVE SegDue(seg) \in Seq(TextAtoms)
  <2>1. CASE seg \in SpeechType
    <3>1. seg.text \in Seq(Positions) /\ seg.kind = "speech"
      BY <2>1 DEF SpeechType
    <3>2. seg.text \in Seq(TextAtoms) /\ Reads(Ear, TextAtoms, TextAtoms)
      BY <3>1, EarFacts
    <3>3. Spread(Ear, seg.text) \in Seq(TextAtoms)
      BY <3>2, SpreadChain
    <3>. QED BY <3>1, <3>3 DEF SegDue
  <2>2. CASE seg \in EffectType
    <3>1. seg.count \in Nat /\ seg.at \in Positions /\ seg.kind = "effect"
      BY <2>2, RenderingAssumption DEF EffectType
    <3>2. seg.at \in TextAtoms
      BY <3>1, EarFacts
    <3>3. [k \in 1..seg.count |-> seg.at] \in Seq(TextAtoms)
      BY <3>1, <3>2, SeqDef
    <3>. QED BY <3>1, <3>3 DEF SegDue
  <2>. QED BY <2>1, <2>2 DEF SegmentType
<1>2. \A seg \in SegmentType : DueOf[seg] = SegDue(seg)
  BY DEF DueOf
<1>3. Reads(DueOf, SegmentType, TextAtoms)
  BY <1>1 DEF Reads, DueOf
<1>. QED BY <1>1, <1>2, <1>3

\* Texts are of no tags, and each tag makes one segment at most.
Marked(segs, i) ==
    /\ \A s \in DOMAIN segs : IsSpeech(segs, s) =>
          \A k \in DOMAIN segs[s].text : content[segs[s].text[k]] \notin Tags
    /\ \A s \in DOMAIN segs : ~IsSpeech(segs, s) => segs[s].at <= i
    /\ \A s, t \in DOMAIN segs :
          ~IsSpeech(segs, s) /\ ~IsSpeech(segs, t) /\ segs[s].at = segs[t].at => s = t

HasEffect(segs) == \E s \in DOMAIN segs : ~IsSpeech(segs, s)

\* What is said, with a space before each segment, is no more than two units
\* for each position read; a, which waits, has room for as much.
Roomy(segs, a, u) == Total(Spend(segs)) + Len(segs) + 2 * a <= u

\* What the first i positions are due is heard of the segments and of the text
\* that waits.
Heeds(acc, i) ==
    /\ Cat(Spread(DueOf, acc.segments), Spread(Ear, acc.text)) = Chain(Dues, i)
    /\ acc.effects = Spent(MaxEffects, Used(i))
    /\ Marked(acc.segments, i)
    /\ \A k \in DOMAIN acc.text : content[acc.text[k]] \notin Tags
    /\ Roomy(acc.segments, Len(acc.text), 2 * i)
    /\ HasEffect(acc.segments) \/ (acc.segments = <<>> /\ acc.effects = 0)

\* The same of segments alone.
Heeded(segs, i) ==
    /\ Spread(DueOf, segs) = Chain(Dues, i)
    /\ Marked(segs, i)
    /\ Roomy(segs, 0, 2 * i + 1)
    /\ HasEffect(segs) \/ Len(segs) <= 1

\* Flushing the text that waits loses nothing.
LEMMA FlushedHeeds ==
    ASSUME ContentType, NEW acc \in AccType, NEW i \in Nat, Heeds(acc, i)
    PROVE  /\ Heeded(Flushed(acc), i)
           /\ acc.effects # 0 => HasEffect(Flushed(acc))
<1> DEFINE segs == acc.segments
           text == acc.text
           strip == Strip(text)
           n == Len(segs)
           new == Flushed(acc)
<1>1. segs \in Seq(SegmentType) /\ text \in Seq(Positions)
  BY DEF AccType
<1>2. /\ Cat(Spread(DueOf, segs), Spread(Ear, text)) = Chain(Dues, i)
      /\ Marked(segs, i) /\ Roomy(segs, Len(text), 2 * i)
      /\ \A k \in DOMAIN text : content[text[k]] \notin Tags
      /\ HasEffect(segs) \/ (segs = <<>> /\ acc.effects = 0)
  BY DEF Heeds
<1>3. new = IF strip = <<>> THEN segs ELSE Append(segs, [kind |-> "speech", text |-> strip])
  BY DEF Flushed
<1> HIDE DEF segs, text, strip, new
<1>4. /\ strip \in Seq(Positions) /\ Len(strip) <= Len(text)
      /\ \A k \in 1..Len(strip) : \E m \in 1..Len(text) : strip[k] = text[m]
  BY <1>1, StripPart DEF strip
<1>5. Spread(Ear, strip) = Spread(Ear, text)
  BY <1>1, StripHeard DEF strip
<1>6. Total(Spend(segs)) \in Nat /\ n \in Nat /\ DOMAIN segs = 1..n /\ Len(text) \in Nat
      /\ DOMAIN text = 1..Len(text)
  BY <1>1, CountsOfSegments
<1>7. Total(Spend(segs)) + n + 2 * Len(text) <= 2 * i
  BY <1>2 DEF Roomy
<1>8. CASE strip = <<>>
  <2>1. new = segs
    BY <1>3, <1>8
  <2>2. Spread(Ear, text) = <<>>
    BY <1>5, <1>8, SpreadEmpty
  <2>3. Spread(DueOf, segs) = Chain(Dues, i)
    <3>1. Spread(DueOf, segs) \in Seq(TextAtoms)
      BY <1>1, DueOfFacts, SpreadChain
    <3>2. Cat(Spread(DueOf, segs), <<>>) = Spread(DueOf, segs)
      BY <3>1, CatNothing
    <3>. QED BY <1>2, <2>2, <3>2
  <2>4. Roomy(segs, 0, 2 * i + 1)
    BY <1>6, <1>7 DEF Roomy
  <2>5. HasEffect(segs) \/ Len(segs) <= 1
    BY <1>2
  <2>. QED BY <1>2, <2>1, <2>3, <2>4, <2>5 DEF Heeded, new
<1>9. CASE strip # <<>>
  <2> DEFINE x == [kind |-> "speech", text |-> strip]
  <2>1. new = Append(segs, x) /\ x.kind = "speech" /\ x.text = strip
    BY <1>3, <1>9
  <2>2. x \in SegmentType
    BY <1>4, <1>9 DEF SegmentType, SpeechType
  <2> HIDE DEF x
  <2>3. Spread(DueOf, new) = Chain(Dues, i)
    <3>1. Spread(DueOf, Append(segs, x)) = Cat(Spread(DueOf, segs), DueOf[x])
      BY <1>1, <2>2, DueOfFacts, SpreadAppend
    <3>2. DueOf[x] = Spread(Ear, strip)
      BY <2>1, <2>2, DueOfFacts DEF SegDue
    <3>. QED BY <1>2, <1>5, <2>1, <3>1, <3>2
  <2>4. /\ new \in Seq(SegmentType) /\ Len(new) = n + 1 /\ DOMAIN new = 1..(n + 1)
        /\ new[n + 1] = x /\ \A k \in 1..n : new[k] = segs[k]
    BY <1>1, <2>1, <2>2
  <2>5. \A k \in 1..(n + 1) : k \in 1..n \/ k = n + 1
    BY <1>6
  <2>6. IsSpeech(new, n + 1) /\ \A k \in 1..n : IsSpeech(new, k) <=> IsSpeech(segs, k)
    BY <2>1, <2>4 DEF IsSpeech
  <2>7. Marked(new, i)
    <3>1. ASSUME NEW s \in 1..(n + 1), IsSpeech(new, s), NEW k \in DOMAIN new[s].text
          PROVE  content[new[s].text[k]] \notin Tags
      <4>1. CASE s \in 1..n
        BY <1>2, <1>6, <2>4, <2>6, <3>1, <4>1 DEF Marked
      <4>2. CASE s = n + 1
        <5>1. k \in 1..Len(strip) /\ new[s].text[k] = strip[k]
          BY <1>4, <2>1, <2>4, <3>1, <4>2
        <5>2. PICK m \in 1..Len(text) : strip[k] = text[m]
          BY <1>4, <5>1
        <5>. QED BY <1>2, <1>6, <5>1, <5>2
      <4>. QED BY <2>5, <4>1, <4>2
    <3>2. \A s \in 1..(n + 1) : ~IsSpeech(new, s) => s \in 1..n /\ new[s] = segs[s] /\ ~IsSpeech(segs, s)
      BY <2>4, <2>5, <2>6
    <3>3. /\ \A s \in 1..n : ~IsSpeech(segs, s) => segs[s].at <= i
          /\ \A s, t \in 1..n :
                ~IsSpeech(segs, s) /\ ~IsSpeech(segs, t) /\ segs[s].at = segs[t].at => s = t
      BY <1>2, <1>6 DEF Marked
    <3>4. \A s \in 1..(n + 1) : ~IsSpeech(new, s) => new[s].at <= i
      BY <3>2, <3>3
    <3>5. \A s, t \in 1..(n + 1) :
              ~IsSpeech(new, s) /\ ~IsSpeech(new, t) /\ new[s].at = new[t].at => s = t
      BY <3>2, <3>3
    <3>. QED BY <2>4, <3>1, <3>4, <3>5 DEF Marked
  <2>8. Roomy(new, 0, 2 * i + 1)
    <3>1. Len(Punctuated(strip)) \in Nat /\ Len(Punctuated(strip)) <= Len(strip) + 1
          /\ Len(strip) \in Nat /\ Len(strip) >= 1
      <4>1. Punctuated(strip) \in Seq(Positions \cup {Dot})
            /\ Len(Punctuated(strip)) <= Len(strip) + 1
        BY <1>4, PunctuatedLen, SMTT(20)
      <4>2. Len(strip) \in Nat /\ Len(strip) # 0
        BY <1>4, <1>9
      <4>. QED BY <4>1, <4>2
    <3>2. Total(Spend(new)) = Total(Spend(segs)) + Len(Punctuated(strip))
      BY <1>1, <2>1, <2>2, AppendCounts
    <3>. QED BY <1>4, <1>6, <1>7, <2>4, <3>1, <3>2, SMTT(20) DEF Roomy
  <2>9. HasEffect(segs) => HasEffect(new)
    <3>1. \A s \in 1..n : s \in 1..(n + 1)
      BY <1>6
    <3>. QED BY <1>6, <2>4, <2>6, <3>1 DEF HasEffect
  <2>10. HasEffect(new) \/ Len(new) <= 1
    <3>1. segs = <<>> => n = 0
      OBVIOUS
    <3>. QED BY <1>2, <2>4, <2>9, <3>1
  <2>. QED BY <1>2, <2>3, <2>7, <2>8, <2>9, <2>10 DEF Heeded, new
<1>. QED BY <1>2, <1>8, <1>9 DEF new

\* One position more.
LEMMA HeedsText ==
    ASSUME ContentType, NEW acc \in AccType, NEW i \in Positions, Heeds(acc, i - 1),
           content[i] \notin Tags
    PROVE  Heeds(SplitAt(acc, i), i)
<1> DEFINE segs == acc.segments
           old == acc.text
           n == Len(old)
           text == Append(old, i)
           new == SplitAt(acc, i)
           h == i - 1
<1>1. new = [acc EXCEPT !.text = text]
  BY DEF SplitAt
<1>2. segs \in Seq(SegmentType) /\ old \in Seq(Positions)
  BY DEF AccType
<1>3. new.segments = segs /\ new.text = text /\ new.effects = acc.effects
  BY <1>1 DEF AccType
<1>4. /\ Cat(Spread(DueOf, segs), Spread(Ear, old)) = Chain(Dues, h)
      /\ acc.effects = Spent(MaxEffects, Used(i - 1))
      /\ Marked(segs, h) /\ Roomy(segs, n, 2 * h)
      /\ \A k \in DOMAIN old : content[old[k]] \notin Tags
      /\ HasEffect(segs) \/ (segs = <<>> /\ acc.effects = 0)
  BY DEF Heeds
<1>5. i \in 1..Len(content) /\ i \in Nat /\ h = i - 1 /\ h \in Nat
  BY PositionsAre
<1> HIDE DEF segs, old, new
<1>6. /\ text \in Seq(Positions) /\ Len(text) = n + 1 /\ DOMAIN text = 1..(n + 1)
      /\ n \in Nat /\ DOMAIN old = 1..n
      /\ text[n + 1] = i /\ \A k \in 1..n : text[k] = old[k]
  BY <1>2
<1>7. Spread(Ear, text) = Cat(Spread(Ear, old), Ear[i])
  <2>1. old \in Seq(TextAtoms) /\ i \in TextAtoms /\ Reads(Ear, TextAtoms, TextAtoms)
    BY <1>2, EarFacts
  <2>. QED BY <2>1, SpreadAppend
<1> HIDE DEF text, n, h
<1>8. Chain(Dues, i) = Cat(Chain(Dues, h), Ear[i])
  <2>1. Chain(Dues, i) = Cat(Chain(Dues, h), Dues[i])
    BY <1>5, DuesAre, ChainStep
  <2>2. Dues[i] = Ear[i]
    BY DuesAre, DueFacts
  <2>. QED BY <2>1, <2>2
<1>9. Cat(Spread(DueOf, segs), Spread(Ear, text)) = Chain(Dues, i)
  <2>1. Spread(DueOf, segs) \in Seq(TextAtoms)
    BY <1>2, DueOfFacts, SpreadChain
  <2>2. Spread(Ear, old) \in Seq(TextAtoms) /\ Ear[i] \in Seq(TextAtoms)
    <3>1. old \in Seq(TextAtoms) /\ i \in TextAtoms /\ Reads(Ear, TextAtoms, TextAtoms)
      BY <1>2, EarFacts
    <3>2. Spread(Ear, old) \in Seq(TextAtoms)
      BY <3>1, SpreadChain
    <3>. QED BY <3>1, <3>2 DEF Reads
  <2>3. Cat(Cat(Spread(DueOf, segs), Spread(Ear, old)), Ear[i])
            = Cat(Spread(DueOf, segs), Cat(Spread(Ear, old), Ear[i]))
    BY <2>1, <2>2, CatAssociative
  <2>. QED BY <1>4, <1>7, <1>8, <2>3
<1>10. Used(i) = Used(i - 1)
  <2>1. Used(i) = Used(i - 1) + 0
    BY UsedFacts
  <2>2. Used(i - 1) \in Nat
    <3>1. i - 1 \in 0..Len(content)
      BY <1>5, PositionsAre
    <3>. QED BY <3>1, UsedFacts
  <2>. QED BY <2>1, <2>2
<1>11. Marked(segs, i)
  <2>1. \A s \in DOMAIN segs : ~IsSpeech(segs, s) => segs[s].at \in Positions
    BY <1>2 DEF IsSpeech, SegmentType, SpeechType, EffectType
  <2>2. \A s \in DOMAIN segs : ~IsSpeech(segs, s) => segs[s].at \in Int /\ segs[s].at <= h
    BY <1>4, <2>1, PositionsAre DEF Marked
  <2>3. \A s \in DOMAIN segs : ~IsSpeech(segs, s) => segs[s].at <= i
    BY <1>5, <2>2
  <2>. QED BY <1>4, <2>3 DEF Marked
<1>12. Roomy(segs, Len(text), 2 * i)
  <2>1. Total(Spend(segs)) \in Nat /\ Len(segs) \in Nat
    BY <1>2, CountsOfSegments
  <2>2. Total(Spend(segs)) + Len(segs) + 2 * n <= 2 * h
    BY <1>4 DEF Roomy
  <2>3. Total(Spend(segs)) + Len(segs) + 2 * (n + 1) <= 2 * i
    BY <1>5, <1>6, <2>1, <2>2
  <2>. QED BY <1>6, <2>3 DEF Roomy
<1>13. \A k \in DOMAIN text : content[text[k]] \notin Tags
  <2>1. \A k \in 1..(n + 1) : k \in 1..n \/ k = n + 1
    BY <1>6
  <2>. QED BY <1>4, <1>6, <2>1
<1>. QED BY <1>3, <1>4, <1>9, <1>10, <1>11, <1>12, <1>13 DEF Heeds, new

\* A tag ends the text before it and is cut to what is left for it.
LEMMA HeedsTag ==
    ASSUME ContentType, NEW acc \in AccType, NEW i \in Positions, Heeds(acc, i - 1),
           content[i] \in Tags
    PROVE  Heeds(SplitAt(acc, i), i)
<1> DEFINE e == acc.effects
           c == CountOf[content[i]]
           count == Min({c, MaxEffects - e})
           flushed == Flushed(acc)
           x == [kind |-> "effect", at |-> i, count |-> count]
           more == IF count = 0 THEN flushed ELSE Append(flushed, x)
           new == SplitAt(acc, i)
           h == i - 1
           n == Len(flushed)
<1>1. new.segments = more /\ new.text = <<>> /\ new.effects = e + count
  BY DEF SplitAt
<1>2. i \in 1..Len(content) /\ i \in Nat /\ h = i - 1 /\ h \in Nat /\ h \in 0..Len(content)
  BY PositionsAre
<1>3. Heeded(flushed, h) /\ (e # 0 => HasEffect(flushed))
  BY <1>2, FlushedHeeds
<1>4. flushed \in Seq(SegmentType)
  BY FlushedType
<1>5. e = Spent(MaxEffects, Used(h)) /\ e \in 0..MaxEffects
  BY DEF Heeds, AccType
<1>6. Used(h) \in Nat /\ Used(i) = Used(h) + c
  BY <1>2, UsedFacts
<1>7. c \in Nat \ {0} /\ MaxEffects \in Nat \ {0}
  BY RenderingAssumption
<1>8. count = LeftOf(c, MaxEffects, Used(h)) /\ count = Left(i)
  BY <1>5 DEF LeftOf, Left
<1> HIDE DEF new, flushed, h, n, e
<1>9. count \in 0..MaxEffects /\ e + count = Spent(MaxEffects, Used(i)) /\ (count = 0 => e = MaxEffects)
  <2> DEFINE u == Used(h)
  <2>0. u \in Nat
    BY <1>6
  <2> HIDE DEF c, u, count
  <2>1. LeftOf(c, MaxEffects, u) \in 0..MaxEffects
    BY <1>7, <2>0, CutToLeft
  <2>2. LeftOf(c, MaxEffects, u) = 0 => Spent(MaxEffects, u) = MaxEffects
    BY <1>7, <2>0, CutToLeft
  <2>3. Adds(c, MaxEffects, u)
    BY <1>7, <2>0, CutToLeft
  <2>. QED BY <1>5, <1>6, <1>8, <2>1, <2>2, <2>3 DEF Adds, u
<1> HIDE DEF count, c
<1>10. TimesDue(i) = count /\ Dues[i] = Due(i) /\ (count = 0 => Due(i) = <<>>) /\ Due(i) \in Seq(TextAtoms)
  BY <1>8, DueFacts, DuesAre
<1>11. Chain(Dues, i) = Cat(Chain(Dues, h), Due(i)) /\ Chain(Dues, h) \in Seq(TextAtoms)
       /\ Chain(Dues, i) \in Seq(TextAtoms)
  <2>1. Chain(Dues, i) = Cat(Chain(Dues, h), Dues[i])
    BY <1>2, DuesAre, ChainStep
  <2>2. i \in 0..Len(content)
    BY <1>2, PositionsAre
  <2>3. Chain(Dues, h) \in Seq(TextAtoms) /\ Chain(Dues, i) \in Seq(TextAtoms)
    BY <1>2, <2>2, DuesAre, ChainType
  <2>. QED BY <1>10, <2>1, <2>3
<1>12. /\ Spread(DueOf, flushed) = Chain(Dues, h) /\ Marked(flushed, h)
       /\ Roomy(flushed, 0, 2 * h + 1)
  BY <1>3 DEF Heeded
<1>13. /\ n \in Nat /\ DOMAIN flushed = 1..n /\ Total(Spend(flushed)) \in Nat
       /\ Total(Spend(flushed)) + n <= 2 * h + 1
  BY <1>4, <1>12, CountsOfSegments DEF Roomy, n
<1>14. \A s \in 1..n : ~IsSpeech(flushed, s) =>
            flushed[s].at \in Int /\ flushed[s].at <= h /\ flushed[s].at <= i
  <2>1. \A s \in 1..n : ~IsSpeech(flushed, s) => flushed[s].at \in Positions
    BY <1>4, <1>13 DEF IsSpeech, SegmentType, SpeechType, EffectType
  <2>2. \A s \in 1..n : ~IsSpeech(flushed, s) => flushed[s].at \in Int /\ flushed[s].at <= h
    BY <1>12, <1>13, <2>1, PositionsAre DEF Marked
  <2>. QED BY <1>2, <2>2
<1>15. Spread(DueOf, more) = Chain(Dues, i) /\ Marked(more, i) /\ Roomy(more, 0, 2 * i)
       /\ HasEffect(more)
  <2>1. CASE count = 0
    <3>1. more = flushed
      BY <2>1
    <3>2. Chain(Dues, i) = Chain(Dues, h)
      BY <1>10, <1>11, <2>1, CatNothing
    <3>3. HasEffect(flushed)
      BY <1>3, <1>7, <1>9, <2>1
    <3>4. Marked(flushed, i)
      BY <1>12, <1>13, <1>14 DEF Marked
    <3>5. Roomy(flushed, 0, 2 * i)
      BY <1>2, <1>13 DEF Roomy, n
    <3> HIDE DEF more
    <3>. QED BY <1>12, <3>1, <3>2, <3>3, <3>4, <3>5
  <2>2. CASE count # 0
    <3>1. more = Append(flushed, x)
      BY <2>2
    <3>2. x \in SegmentType /\ x.kind = "effect" /\ x.at = i /\ x.count = count
      <4>1. count \in 1..MaxEffects
        BY <1>7, <1>9, <2>2
      <4>. QED BY <4>1 DEF SegmentType, EffectType
    <3> HIDE DEF x, more
    <3>3. /\ more \in Seq(SegmentType) /\ Len(more) = n + 1 /\ DOMAIN more = 1..(n + 1)
          /\ more[n + 1] = x /\ \A k \in 1..n : more[k] = flushed[k]
          /\ n + 1 \in 1..(n + 1)
      BY <1>4, <1>13, <3>1, <3>2 DEF n
    <3>4. Spread(DueOf, more) = Chain(Dues, i)
      <4>1. Spread(DueOf, Append(flushed, x)) = Cat(Spread(DueOf, flushed), DueOf[x])
        BY <1>4, <3>2, DueOfFacts, SpreadAppend
      <4>2. DueOf[x] = SegDue(x)
        BY <3>2, DueOfFacts
      <4>3. SegDue(x) = Due(i)
        BY <1>10, <3>2 DEF SegDue, Due
      <4>. QED BY <1>11, <1>12, <3>1, <4>1, <4>2, <4>3
    <3>5. ~IsSpeech(more, n + 1) /\ \A k \in 1..n : IsSpeech(more, k) <=> IsSpeech(flushed, k)
      BY <3>2, <3>3 DEF IsSpeech
    <3>6. \A k \in 1..(n + 1) : k \in 1..n \/ k = n + 1
      BY <1>13
    <3>7. Marked(more, i)
      <4>1. ASSUME NEW s \in 1..(n + 1), IsSpeech(more, s), NEW k \in DOMAIN more[s].text
            PROVE  content[more[s].text[k]] \notin Tags
        BY <1>12, <1>13, <3>3, <3>5, <3>6, <4>1 DEF Marked
      <4>2. ASSUME NEW s \in 1..(n + 1), ~IsSpeech(more, s)
            PROVE  more[s].at <= i /\ (s # n + 1 => more[s].at # i)
        <5>1. CASE s \in 1..n
          <6>1. more[s].at = flushed[s].at /\ ~IsSpeech(flushed, s)
            BY <3>3, <3>5, <4>2, <5>1
          <6>2. flushed[s].at \in Int /\ flushed[s].at <= h
            BY <1>14, <5>1, <6>1
          <6>. QED BY <1>2, <6>1, <6>2
        <5>2. CASE s = n + 1
          BY <1>2, <3>2, <3>3, <5>2
        <5>. QED BY <3>6, <5>1, <5>2
      <4>3. ASSUME NEW s \in 1..(n + 1), NEW t \in 1..(n + 1), ~IsSpeech(more, s),
                   ~IsSpeech(more, t), more[s].at = more[t].at
            PROVE  s = t
        <5>1. more[n + 1].at = i
          BY <3>2, <3>3
        <5>2. CASE s \in 1..n /\ t \in 1..n
          BY <1>12, <1>13, <3>3, <3>5, <4>3, <5>2 DEF Marked
        <5>3. CASE s = n + 1
          BY <4>2, <4>3, <5>1, <5>3
        <5>4. CASE t = n + 1
          BY <4>2, <4>3, <5>1, <5>4
        <5>. QED BY <3>6, <5>2, <5>3, <5>4
      <4>4. \A s \in 1..(n + 1) : IsSpeech(more, s) =>
                \A k \in DOMAIN more[s].text : content[more[s].text[k]] \notin Tags
        BY <4>1
      <4>5. \A s \in 1..(n + 1) : ~IsSpeech(more, s) => more[s].at <= i
        BY <4>2
      <4>6. \A s, t \in 1..(n + 1) :
                ~IsSpeech(more, s) /\ ~IsSpeech(more, t) /\ more[s].at = more[t].at => s = t
        BY <4>3
      <4>. QED BY <3>3, <4>4, <4>5, <4>6 DEF Marked
    <3>8. Roomy(more, 0, 2 * i)
      <4>1. Total(Spend(more)) = Total(Spend(flushed)) + 0
        <5>1. Total(Spend(Append(flushed, x))) = Total(Spend(flushed)) + 0
          BY <1>4, <3>2, AppendCounts
        <5>. QED BY <3>1, <5>1
      <4>. QED BY <1>2, <1>13, <3>3, <4>1 DEF Roomy
    <3>9. HasEffect(more)
      BY <3>3, <3>5 DEF HasEffect
    <3>. QED BY <3>4, <3>7, <3>8, <3>9
  <2>. QED BY <2>1, <2>2
<1> HIDE DEF more
<1>16. Cat(Chain(Dues, i), Spread(Ear, <<>>)) = Chain(Dues, i)
  BY <1>11, SpreadEmpty, CatNothing
<1>17. Len(<<>>) = 0 /\ DOMAIN <<>> = {}
  OBVIOUS
<1>. QED BY <1>1, <1>9, <1>15, <1>16, <1>17 DEF Heeds, new

\* The content as a whole.
LEMMA SplitHeeds ==
    ASSUME ContentType
    PROVE  Heeded(SplitSegments, Len(content))
<1> DEFINE n == Len(content)
<1>0. n \in Nat /\ Positions = 1..n
  BY PositionsAre
<1> HIDE DEF n
<1>1. PICK h : /\ h \in [0..n -> AccType]
               /\ h[0] = Start
               /\ \A i \in 1..n : h[i] = SplitAt(h[i - 1], i)
               /\ SplitSegments = Flushed(h[n])
  BY SplitFold DEF n
<1> DEFINE T == {i \in 0..n : Heeds(h[i], i)}
<1>2. 0 \in T
  <2>1. Start.segments = <<>> /\ Start.text = <<>> /\ Start.effects = 0
    BY DEF Start
  <2>2. Cat(Spread(DueOf, <<>>), Spread(Ear, <<>>)) = Chain(Dues, 0)
    <3>1. Spread(DueOf, <<>>) = <<>> /\ Spread(Ear, <<>>) = <<>>
      BY SpreadEmpty
    <3>2. Cat(<<>>, <<>>) = <<>>
      BY DEF Cat
    <3>3. Chain(Dues, 0) = <<>>
      BY DuesAre, ChainZero
    <3>. QED BY <3>1, <3>2, <3>3
  <2>3. Spent(MaxEffects, Used(0)) = 0
    <3>1. Used(0) = 0 /\ MaxEffects \in Nat \ {0}
      BY UsedFacts, RenderingAssumption
    <3> DEFINE e == MaxEffects
               m == Min({e, 0})
    <3>2. e \in Int /\ e >= 0 /\ 0 \in Int
      BY <3>1
    <3> HIDE DEF e
    <3>3. m \in {e, 0} /\ m <= e /\ m <= 0
      BY <3>2, MinPair
    <3>4. m = 0
      <4> HIDE DEF m
      <4>. QED BY <3>2, <3>3
    <3>. QED BY <3>1, <3>4 DEF Spent, e
  <2>4. DOMAIN <<>> = {} /\ Len(<<>>) = 0
    OBVIOUS
  <2>5. Total(Spend(<<>>)) = 0
    <3>1. DOMAIN Spend(<<>>) = {}
      BY DEF Spend
    <3>. QED BY <3>1, TotalEmpty
  <2>6. Marked(<<>>, 0) /\ Roomy(<<>>, 0, 2 * 0)
    BY <2>4, <2>5 DEF Marked, Roomy
  <2>7. Heeds(Start, 0)
    <3> HIDE DEF T
    <3>. QED BY <2>1, <2>2, <2>3, <2>4, <2>6 DEF Heeds
  <2>. QED BY <1>0, <1>1, <2>7
<1>3. ASSUME NEW i \in 1..n, i - 1 \in T PROVE i \in T
  <2>1. i \in 0..n /\ i - 1 \in 0..n /\ i \in Positions
    BY <1>0
  <2>2. h[i] = SplitAt(h[i - 1], i) /\ h[i - 1] \in AccType /\ Heeds(h[i - 1], i - 1)
    BY <1>1, <1>3, <2>1
  <2> HIDE DEF T
  <2>3. Heeds(SplitAt(h[i - 1], i), i)
    BY <2>1, <2>2, HeedsText, HeedsTag
  <2>. QED BY <2>1, <2>2, <2>3 DEF T
<1>4. \A i \in 0..n : i \in T
  <2> HIDE DEF T
  <2>. QED BY <1>0, <1>2, <1>3, UpToInduct
<1>5. Heeds(h[n], n) /\ h[n] \in AccType
  BY <1>0, <1>1, <1>4
<1>. QED BY <1>0, <1>1, <1>5, FlushedHeeds DEF n

-----------------------------------------------------------------------------
(* What one copy of the message should be, segment by segment.             *)

\* Where a content has been split.
Ready ==
    /\ ContentType
    /\ segments \in Seq(SegmentType)
    /\ WellSplit(segments, Len(content), 0)
    /\ Heeded(segments, Len(content))

\* What is heard of segment s when the segments came out like o.
Came(o, s) == IF o[s] = "sound" THEN SegDue(segments[s]) ELSE <<>>
Cames(o) == [s \in 1..Len(segments) |-> Came(o, s)]
CameTo(o, k) == Chain(Cames(o), k)

\* What came of each segment is made of positions.
LEMMA CamesAre ==
    ASSUME ContentType, segments \in Seq(SegmentType), NEW o
    PROVE  /\ AreTexts(Cames(o), Len(segments), TextAtoms)
           /\ \A s \in 1..Len(segments) : Cames(o)[s] = Came(o, s)
<1>1. Len(segments) \in Nat /\ \A s \in 1..Len(segments) : segments[s] \in SegmentType
  OBVIOUS
<1>2. \A s \in 1..Len(segments) : SegDue(segments[s]) \in Seq(TextAtoms)
  BY <1>1, DueOfFacts
<1>3. \A s \in 1..Len(segments) : Came(o, s) \in Seq(TextAtoms)
  BY <1>2 DEF Came
<1>. QED BY <1>1, <1>3 DEF AreTexts, Cames

\* A position stands in one segment.
LEMMA OneSegment ==
    ASSUME Ready, NEW s \in 1..Len(segments), NEW t \in 1..Len(segments),
           NEW i, StandsFor(s, i), StandsFor(t, i)
    PROVE  s = t
<1>1. /\ DOMAIN segments = 1..Len(segments)
      /\ Apart(segments) /\ Marked(segments, Len(content))
  BY DEF Ready, WellSplit, Heeded
<1>2. \A r \in 1..Len(segments) :
         /\ segments[r] \in SegmentType
         /\ ~IsSpeech(segments, r) =>
               segments[r].kind = "effect" /\ content[segments[r].at] \in Tags
         /\ IsSpeech(segments, r) => segments[r].kind # "effect"
  BY <1>1 DEF Ready, SegmentType, SpeechType, EffectType, IsSpeech
<1>3. ASSUME NEW r \in 1..Len(segments), IsSpeech(segments, r), StandsFor(r, i)
      PROVE  content[i] \notin Tags /\ \E k \in DOMAIN segments[r].text : segments[r].text[k] = i
  <2>1. i \in ToSet(segments[r].text)
    BY <1>2, <1>3 DEF StandsFor
  <2>2. PICK k \in DOMAIN segments[r].text : segments[r].text[k] = i
    BY <2>1 DEF ToSet
  <2>. QED BY <1>1, <1>3, <2>2 DEF Marked
<1>4. ASSUME NEW r \in 1..Len(segments), ~IsSpeech(segments, r), StandsFor(r, i)
      PROVE  segments[r].at = i /\ content[i] \in Tags
  BY <1>2, <1>4 DEF StandsFor
<1>5. CASE IsSpeech(segments, s) /\ IsSpeech(segments, t)
  <2>1. PICK k \in DOMAIN segments[s].text : segments[s].text[k] = i
    BY <1>3, <1>5
  <2>2. PICK m \in DOMAIN segments[t].text : segments[t].text[m] = i
    BY <1>3, <1>5
  <2>. QED BY <1>1, <1>5, <2>1, <2>2 DEF Apart
<1>6. CASE ~IsSpeech(segments, s) /\ ~IsSpeech(segments, t)
  BY <1>1, <1>4, <1>6 DEF Marked
<1>. QED BY <1>3, <1>4, <1>5, <1>6

\* What is lost when the segments came out like o, and the copy left of them.
LostIn(o, i) == \E s \in DOMAIN segments : StandsFor(s, i) /\ o[s] # "sound"
OneCopyOf(o) ==
    FlattenSeq([i \in Positions |->
        IF LostIn(o, i) THEN <<>> ELSE [k \in 1..TimesDue(i) |-> i]])

\* It is lost when that segment is.
LEMMA LostWith ==
    ASSUME Ready, NEW s \in 1..Len(segments), NEW i, StandsFor(s, i), NEW o
    PROVE  LostIn(o, i) <=> o[s] # "sound"
<1>1. DOMAIN segments = 1..Len(segments)
  BY DEF Ready
<1>2. \A t \in 1..Len(segments) : StandsFor(t, i) => t = s
  BY OneSegment
<1>. QED BY <1>1, <1>2 DEF LostIn

\* What is not lost stands for itself.
Keep(o) == [x \in TextAtoms |-> IF x \in Positions /\ LostIn(o, x) THEN <<>> ELSE <<x>>]

\* What is kept is made of the same atoms.
LEMMA KeepReads == ASSUME NEW o PROVE Reads(Keep(o), TextAtoms, TextAtoms)
<1>1. \A x \in TextAtoms : <<x>> \in Seq(TextAtoms) /\ <<>> \in Seq(TextAtoms)
  OBVIOUS
<1>2. \A x \in TextAtoms : (IF x \in Positions /\ LostIn(o, x) THEN <<>> ELSE <<x>>) \in Seq(TextAtoms)
  BY <1>1
<1>. QED BY <1>2 DEF Reads, Keep

\* Of a position repeated, all is kept or nothing.
LEMMA KeepRepeated ==
    ASSUME ContentType, NEW i \in Positions, NEW o, NEW n, [k \in 1..n |-> i] \in Seq(TextAtoms)
    PROVE  Spread(Keep(o), [k \in 1..n |-> i]) = IF LostIn(o, i) THEN <<>> ELSE [k \in 1..n |-> i]
<1> DEFINE a == [k \in 1..n |-> i]
<1>1. i \in TextAtoms
  BY DEF TextAtoms
<1>2. a \in Seq(TextAtoms) /\ \A k \in 1..Len(a) : a[k] = i
  <2>1. a \in Seq(TextAtoms) /\ DOMAIN a = 1..n /\ \A k \in 1..n : a[k] = i
    OBVIOUS
  <2> HIDE DEF a
  <2>2. DOMAIN a = 1..Len(a)
    BY <2>1
  <2>. QED BY <2>1, <2>2
<1>3. Keep(o)[i] = IF LostIn(o, i) THEN <<>> ELSE <<i>>
  BY <1>1 DEF Keep
<1> HIDE DEF a
<1>4. CASE LostIn(o, i)
  <2>1. \A k \in 1..Len(a) : Keep(o)[a[k]] = <<>>
    BY <1>2, <1>3, <1>4
  <2>2. Spread(Keep(o), a) = <<>>
    BY <1>2, <2>1, KeepReads, SpreadNone
  <2>. QED BY <1>4, <2>2 DEF a
<1>5. CASE ~LostIn(o, i)
  <2>1. HeardItself(Keep(o), a)
    BY <1>2, <1>3, <1>5 DEF HeardItself
  <2>2. Spread(Keep(o), a) = a
    BY <1>2, <2>1, KeepReads, SpreadAll
  <2>. QED BY <1>5, <2>2 DEF a
<1>. QED BY <1>4, <1>5

\* One copy is what is left of all that is due.
LEMMA CopyKeeps ==
    ASSUME ContentType, NEW o
    PROVE  OneCopyOf(o) = Spread(Keep(o), FlattenSeq(Dues))
<1> DEFINE n == Len(content)
           w == [i \in Positions |-> IF LostIn(o, i) THEN <<>> ELSE [k \in 1..TimesDue(i) |-> i]]
<1>1. n \in Nat /\ Positions = 1..n
  BY PositionsAre
<1>2. AreTexts(Dues, n, TextAtoms) /\ \A i \in 1..n : Dues[i] = Due(i)
  BY <1>1, DuesAre
<1>3. \A i \in 1..n : w[i] = IF LostIn(o, i) THEN <<>> ELSE Due(i)
  BY <1>1 DEF Due
<1>4. \A i \in 1..n : Due(i) \in Seq(TextAtoms)
  BY <1>1, DueFacts
<1>5. w = [i \in 1..n |-> w[i]]
  BY <1>1
<1>6. OneCopyOf(o) = FlattenSeq(w)
  BY DEF OneCopyOf
<1> HIDE DEF w, n
<1>7. <<>> \in Seq(TextAtoms)
  OBVIOUS
<1>8. \A i \in 1..n : w[i] \in Seq(TextAtoms)
  BY <1>3, <1>4, <1>7
<1>9. AreTexts(w, n, TextAtoms)
  BY <1>1, <1>5, <1>8 DEF AreTexts
<1>10. ASSUME NEW i \in 1..n PROVE w[i] = Spread(Keep(o), Dues[i])
  <2>1. Due(i) \in Seq(TextAtoms)
    BY <1>4
  <2>2. Spread(Keep(o), Due(i)) = IF LostIn(o, i) THEN <<>> ELSE Due(i)
    BY <1>1, <2>1, KeepRepeated DEF Due
  <2>. QED BY <1>2, <1>3, <2>2
<1>11. Spread(Keep(o), FlattenSeq(Dues)) = FlattenSeq(w)
  BY <1>2, <1>9, <1>10, KeepReads, SpreadFlatten
<1>. QED BY <1>6, <1>11

\* Of one segment: all that is due, or nothing.
LEMMA SegmentKept ==
    ASSUME Ready, NEW o, NEW s \in 1..Len(segments)
    PROVE  Spread(Keep(o), SegDue(segments[s])) = Came(o, s)
<1> DEFINE seg == segments[s]
<1>1. ContentType /\ seg \in SegmentType /\ Positions \subseteq TextAtoms
  BY DEF Ready, TextAtoms
<1>2. CASE IsSpeech(segments, s)
  <2> DEFINE text == seg.text
             v == Pieces(Ear, text)
             l == Len(text)
             w == [k \in 1..l |-> IF o[s] = "sound" THEN v[k] ELSE <<>>]
  <2>1. text \in Seq(Positions) /\ text \in Seq(TextAtoms) /\ l \in Nat /\ DOMAIN text = 1..l
    BY <1>1, <1>2, TextOf DEF Ready
  <2>2. SegDue(seg) = Spread(Ear, text)
    BY <1>2 DEF SegDue, IsSpeech
  <2>3. ASSUME NEW k \in 1..l
        PROVE  text[k] \in Positions /\ (LostIn(o, text[k]) <=> o[s] # "sound")
    <3>1. text[k] \in ToSet(text)
      BY <2>1 DEF ToSet
    <3>2. StandsFor(s, text[k])
      BY <1>2, <3>1 DEF StandsFor, IsSpeech
    <3>. QED BY <2>1, <3>2, LostWith
  <2>4. /\ AreTexts(v, l, TextAtoms) /\ Spread(Ear, text) = Chain(v, l)
        /\ \A k \in 1..l : v[k] = Ear[text[k]]
    BY <1>1, <2>1, EarFacts, SpreadChain DEF Pieces
  <2> HIDE DEF text, l, seg, v
  <2>5. AreTexts(w, l, TextAtoms) /\ \A k \in 1..l : w[k] = IF o[s] = "sound" THEN v[k] ELSE <<>>
    <3>1. <<>> \in Seq(TextAtoms)
      OBVIOUS
    <3>. QED BY <2>1, <2>4, <3>1 DEF AreTexts
  <2> HIDE DEF w
  <2>6. ASSUME NEW k \in 1..l PROVE w[k] = Spread(Keep(o), v[k])
    <3> DEFINE x == text[k]
    <3>1. x \in TextAtoms /\ x \in Positions /\ (LostIn(o, x) <=> o[s] # "sound")
      BY <1>1, <2>3
    <3>2. v[k] = IF content[x] \in Blanks THEN <<>> ELSE <<x>>
      BY <1>1, <2>4, <3>1, EarFacts
    <3>3. Keep(o)[x] = IF LostIn(o, x) THEN <<>> ELSE <<x>>
      BY <3>1 DEF Keep
    <3> HIDE DEF x
    <3>4. Spread(Keep(o), <<x>>) = Keep(o)[x] /\ Spread(Keep(o), <<>>) = <<>>
      BY <3>1, KeepReads, SpreadOne, SpreadEmpty
    <3>. QED BY <2>5, <3>1, <3>2, <3>3, <3>4
  <2>7. 0 \in 0..l /\ l \in 0..l
    BY <2>1
  <2>8. Spread(Keep(o), Chain(v, l)) = Chain(w, l)
    BY <2>4, <2>5, <2>6, <2>7, KeepReads, SpreadOfChain
  <2>9. CASE o[s] = "sound"
    <3>1. w = v
      BY <2>4, <2>5, <2>9 DEF AreTexts
    <3>. QED BY <2>2, <2>4, <2>8, <2>9, <3>1 DEF Came, seg
  <2>10. CASE o[s] # "sound"
    <3>1. \A k \in 1..l : w[k] = <<>>
      BY <2>5, <2>10
    <3>2. Chain(w, l) = <<>>
      BY <2>5, <3>1, ChainNone
    <3>. QED BY <2>2, <2>4, <2>8, <2>10, <3>2 DEF Came, seg
  <2>. QED BY <2>9, <2>10
<1>3. CASE ~IsSpeech(segments, s)
  <2>1. seg.kind = "effect" /\ seg.at \in Positions /\ seg.count \in 1..MaxEffects
    BY <1>1, <1>3 DEF SegmentType, SpeechType, EffectType, IsSpeech
  <2>2. StandsFor(s, seg.at)
    BY <2>1 DEF StandsFor
  <2>3. LostIn(o, seg.at) <=> o[s] # "sound"
    BY <2>2, LostWith
  <2>4. SegDue(seg) = [k \in 1..seg.count |-> seg.at] /\ SegDue(seg) \in Seq(TextAtoms)
    BY <1>1, <2>1, DueOfFacts DEF SegDue
  <2>5. Spread(Keep(o), [k \in 1..seg.count |-> seg.at])
            = IF LostIn(o, seg.at) THEN <<>> ELSE [k \in 1..seg.count |-> seg.at]
    BY <1>1, <2>1, <2>4, KeepRepeated
  <2>. QED BY <2>3, <2>4, <2>5 DEF Came
<1>. QED BY <1>2, <1>3

\* One copy is what came of the segments, one after the other.
LEMMA CopyCame ==
    ASSUME Ready, NEW o
    PROVE  OneCopyOf(o) = CameTo(o, Len(segments))
<1> DEFINE n == Len(segments)
           v == Pieces(DueOf, segments)
           w == Cames(o)
<1>1. ContentType /\ segments \in Seq(SegmentType) /\ n \in Nat
  BY DEF Ready
<1>2. AreTexts(v, n, TextAtoms) /\ Spread(DueOf, segments) = Chain(v, n)
  BY <1>1, DueOfFacts, SpreadChain
<1>3. AreTexts(w, n, TextAtoms) /\ \A s \in 1..n : w[s] = Came(o, s)
  BY <1>1, CamesAre
<1>4. \A s \in 1..n : v[s] = SegDue(segments[s])
  <2>1. \A s \in 1..n : segments[s] \in SegmentType
    BY <1>1
  <2>. QED BY <1>1, <2>1, DueOfFacts DEF Pieces
<1>5. Spread(DueOf, segments) = Chain(Dues, Len(content))
  BY DEF Ready, Heeded
<1>6. Chain(Dues, Len(content)) = FlattenSeq(Dues)
  BY <1>1, DuesAre, ChainAll
<1> HIDE DEF n, v, w
<1>7. \A s \in 1..n : w[s] = Spread(Keep(o), v[s])
  BY <1>3, <1>4, SegmentKept DEF n
<1>8. n \in 0..n
  BY <1>1
<1>9. Spread(Keep(o), Chain(v, n)) = Chain(w, n)
  BY <1>2, <1>3, <1>7, <1>8, KeepReads, SpreadOfChain
<1>. QED BY <1>1, <1>2, <1>5, <1>6, <1>9, CopyKeeps DEF CameTo, n, w

-----------------------------------------------------------------------------
(* What is heard at each stage.                                            *)

\* What is heard of items, and of each of them.
HeardIn(its) == FlattenSeq([i \in DOMAIN its |-> HeardOf(its[i].audio)])
EarOf == [it \in ItemType |-> Spread(Ear, it.audio)]

\* What is heard of items is heard of each of them.
LEMMA EarOfFacts ==
    ASSUME ContentType
    PROVE  /\ Reads(EarOf, ItemType, TextAtoms)
           /\ \A it \in ItemType : EarOf[it] = Spread(Ear, it.audio)
           /\ \A its \in Seq(ItemType) : HeardIn(its) = Spread(EarOf, its)
<1>1. Reads(Ear, TextAtoms, TextAtoms)
  BY EarFacts
<1>2. \A it \in ItemType : it.audio \in Seq(TextAtoms)
  BY DEF ItemType
<1>3. \A it \in ItemType : EarOf[it] = Spread(Ear, it.audio)
  BY DEF EarOf
<1>4. \A a \in Seq(TextAtoms) : Spread(Ear, a) \in Seq(TextAtoms)
  BY <1>1, SpreadChain
<1>5. Reads(EarOf, ItemType, TextAtoms)
  BY <1>2, <1>4 DEF EarOf, Reads
<1>6. ASSUME NEW its \in Seq(ItemType) PROVE HeardIn(its) = Spread(EarOf, its)
  <2>1. \A i \in DOMAIN its : its[i] \in ItemType
    OBVIOUS
  <2>2. \A i \in DOMAIN its : HeardOf(its[i].audio) = EarOf[its[i]]
    BY <1>2, <1>3, <2>1, HeardOfIs
  <2>. QED BY <2>2 DEF HeardIn, Spread
<1>. QED BY <1>3, <1>5, <1>6

\* Of the first k segments something is played.
Got(o, k) == \E s \in 1..k : o[s] # "refused"

\* What has been heard of a pass: of its items, and of the run being rendered.
PassHears(o, k, its, ps) ==
    /\ Cat(Spread(EarOf, its), Spread(Ear, FlattenSeq(ps))) = CameTo(o, k)
    /\ its # <<>> \/ ps # <<>> <=> Got(o, k)

\* What is heard of all of it, before it is repeated.
OnceHears(o, its) ==
    /\ Spread(EarOf, its) = OneCopyOf(o)
    /\ its # <<>> /\ Got(o, Len(segments))

\* The same of a plain message.
PlainHears(o, text) ==
    /\ Spread(Ear, text) = OneCopyOf(o)
    /\ ~Got(o, Len(segments)) => segments = <<>>
    /\ \A s \in 1..Len(segments) : o[s] # "refused"

\* What HeardAsWritten says, of outcomes o and items its.
RepeatedOf(o, n) ==
    Join(IF o[0] = "sound" THEN <<Powtarzam>> ELSE <<>>, [i \in 1..n |-> OneCopyOf(o)])
AllRefused(o) == \A s \in 1..Len(segments) : o[s] = "refused"
SomeRefused(o) == \E s \in DOMAIN o : o[s] = "refused"
Best(o) == RepeatedOf(o, MostCopies(SpokenPerCopy))
MaybeCut(o, its) ==
    /\ IsPrefix(HeardIn(its), RepeatedOf(o, repeat))
    /\ HeardIn(its) = RepeatedOf(o, repeat) \/ SpokenOf(its) \in {0, MaxSpoken}

Written(o, its) ==
    IF HasEffects
    THEN HeardIn(its) = IF AllRefused(o) THEN <<>> ELSE Best(o)
    ELSE IF SomeRefused(o) THEN HeardIn(its) = <<>>
    ELSE IF concatenable \/ repeat = 1
    THEN HeardIn(its) = IF segments = <<>> THEN <<>> ELSE Best(o)
    ELSE MaybeCut(o, its)

Hears ==
    /\ pc # "split" => Heeded(segments, Len(content))
    /\ pc \in {"plain", "plainSeparator", "pass", "separator"} => outcome[0] = "sound"
    /\ pc \in {"pass", "separator"} => HasEffects
    /\ pc = "plain" => \A s \in 1..Len(segments) : outcome[s] = "sound"
    /\ pc = "plainSeparator" => PlainHears(outcome, parts[1])
    /\ pc = "pass" => PassHears(outcome, next - 1, items, parts)
    /\ pc = "separator" => OnceHears(outcome, items)
    /\ pc = "done" => Written(outcome, items)

\* HeardAsWritten, said of the outcomes and of the items.
LEMMA WrittenIs == HeardAsWritten <=> (pc = "done" => Written(outcome, items))
<1>1. Heard = HeardIn(items)
  BY DEF Heard, HeardIn
<1>2. OneCopy = OneCopyOf(outcome)
  BY DEF OneCopy, OneCopyOf, Lost, LostIn
<1>3. \A n : Repeated(n) = RepeatedOf(outcome, n)
  BY <1>2 DEF Repeated, RepeatedOf
<1>4. SpokenUnits = SpokenOf(items)
  BY DEF SpokenUnits, SpokenOf
<1>. QED BY <1>1, <1>3, <1>4 DEF HeardAsWritten, Written, AllRefused, SomeRefused, Best, MaybeCut

\* All this is of the message, its segments, and what it is said of.
LEMMA HearsFrozen ==
    ASSUME UNCHANGED <<inputs, segments>>
    PROVE  /\ Written(outcome, items)' <=> Written(outcome', items')
           /\ PassHears(outcome, next - 1, items, parts)'
                  <=> PassHears(outcome', next' - 1, items', parts')
           /\ OnceHears(outcome, items)' <=> OnceHears(outcome', items')
           /\ PlainHears(outcome, parts[1])' <=> PlainHears(outcome', parts'[1])
           /\ Heeded(segments, Len(content))' <=> Heeded(segments, Len(content))
           /\ HasEffects' <=> HasEffects
<1>1. /\ content' = content /\ repeat' = repeat /\ concatenable' = concatenable
      /\ segments' = segments /\ Positions' = Positions /\ TextAtoms' = TextAtoms
      /\ SegmentType' = SegmentType /\ ItemType' = ItemType
      /\ SpokenPerCopy' = SpokenPerCopy /\ Spend(segments)' = Spend(segments)
  BY Frozen
<1>2. Ear' = Ear
  BY <1>1 DEF Ear, Hear
<1>3. EarOf' = EarOf
  BY <1>1, <1>2 DEF EarOf
<1>4. CameTo(outcome, next - 1)' = CameTo(outcome', next' - 1)
  BY <1>1, <1>2 DEF CameTo, Cames, Came, SegDue
<1>5. OneCopyOf(outcome)' = OneCopyOf(outcome')
  BY <1>1 DEF OneCopyOf, LostIn, StandsFor, TimesDue, MapThenSumSet, MapThenFoldSet
<1>6. Heeded(segments, Len(content))' <=> Heeded(segments, Len(content))
  BY <1>1, <1>2 DEF Heeded, DueOf, SegDue, Dues, Due, TimesDue, MapThenSumSet, MapThenFoldSet,
                    Marked, Roomy, HasEffect
<1>7. HasEffects' <=> HasEffects
  BY <1>1 DEF HasEffects
<1>8. HeardIn(items)' = HeardIn(items')
  BY <1>1, <1>2 DEF HeardIn, HeardOf, Hear
<1>9. RepeatedOf(outcome, repeat)' = RepeatedOf(outcome', repeat) /\ Best(outcome)' = Best(outcome')
  BY <1>1, <1>5 DEF RepeatedOf, Best, MostCopies
<1>. QED BY <1>1, <1>2, <1>3, <1>4, <1>5, <1>6, <1>7, <1>8, <1>9
         DEF Written, AllRefused, SomeRefused, MaybeCut, PassHears, OnceHears, PlainHears, SpokenOf, Units

\* No pieces.
LEMMA NoPieces == FlattenSeq(<<>>) = <<>> /\ \A v : Chain(v, 0) = <<>>
<1>1. FlattenSeq(<<>>) = <<>>
  BY DEF FlattenSeq
<1>2. \A v : [i \in 1..0 |-> v[i]] = <<>>
  OBVIOUS
<1>. QED BY <1>1, <1>2 DEF Chain

\* Joining one text.
LEMMA JoinSingle ==
    ASSUME NEW A, NEW s \in Seq(A), NEW x \in Seq(A)
    PROVE  Join(s, [i \in 1..1 |-> x]) = x
<1> DEFINE texts == [i \in 1..1 |-> x]
<1>1. AreTexts(texts, 1, A) /\ texts[1] = x
  BY DEF AreTexts
<1> HIDE DEF texts
<1>2. PICK j : Joined(j, s, texts, 1, A) /\ Join(s, texts) = j[1]
  BY <1>1, JoinOf
<1>3. 1 - 1 = 0 /\ 1 \in 1..1
  OBVIOUS
<1>4. j[1] = (<<>> \o <<>>) \o x
  BY <1>1, <1>2, <1>3 DEF Joined
<1>5. <<>> \o <<>> = <<>> /\ <<>> \o x = x
  OBVIOUS
<1>. QED BY <1>2, <1>4, <1>5 DEF texts

\* Copies of x, joined by s.
Again(s, x, n) == Join(s, [i \in 1..n |-> x])

\* What is heard of the copies are copies of what is heard.
LEMMA AgainHeard ==
    ASSUME NEW A, NEW B, NEW f, Reads(f, A, B), NEW n \in Nat,
           NEW s \in Seq(A), NEW x \in Seq(A)
    PROVE  /\ Spread(f, Again(s, x, n)) = Again(Spread(f, s), Spread(f, x), n)
           /\ Again(s, x, n) \in Seq(A)
<1> DEFINE t == Spread(f, s)
           y == Spread(f, x)
           texts == [i \in 1..n |-> x]
           w == [i \in 1..n |-> y]
<1>1. t \in Seq(B) /\ y \in Seq(B)
  BY SpreadChain
<1> HIDE DEF t, y
<1>2. AreTexts(texts, n, A) /\ AreTexts(w, n, B)
  BY <1>1 DEF AreTexts
<1>3. \A i \in 1..n : w[i] = Spread(f, texts[i])
  BY DEF y
<1> HIDE DEF texts, w
<1>4. Spread(f, Join(s, texts)) = Join(t, w)
  BY <1>1, <1>2, <1>3, SpreadJoin DEF t
<1>5. Join(s, texts) \in Seq(A)
  BY <1>2, JoinOf
<1>. QED BY <1>4, <1>5 DEF Again, texts, w, t, y

\* The most copies that fit are those that the code makes.
LEMMA MostIs ==
    ASSUME NEW size \in Nat, repeat \in 1..MaxRepeat
    PROVE  /\ MostCopies(size) = Copies(size) /\ Copies(size) \in 1..repeat
           /\ repeat = 1 => MostCopies(size) = 1
<1> DEFINE S == {c \in 1..repeat : c = 1 \/ size = 0 \/ c * size + c - 1 <= MaxSpoken}
           m == Copies(size)
<1>0. MaxSpoken \in Nat /\ MaxRepeat \in Nat /\ repeat \in Nat \ {0}
  BY RenderingAssumption
<1>1. m \in 1..repeat /\ (m = 1 \/ size = 0 \/ m * (size + 1) <= MaxSpoken + 1)
  BY CopiesFit
<1>2. m \in S
  <2>1. m * (size + 1) = m * size + m /\ m * size \in Int
    BY <1>1
  <2>. QED BY <1>0, <1>1, <2>1
<1>3. ASSUME NEW c \in S PROVE c <= m
  <2>1. c \in Nat \ {0} /\ c <= repeat /\ (c = 1 \/ size = 0 \/ c * size + c - 1 <= MaxSpoken)
    BY <1>0
  <2>2. CASE size = 0
    <3>1. m = repeat
      BY <2>2 DEF Copies
    <3>. QED BY <2>1, <3>1
  <2>3. CASE size # 0
    <3> DEFINE q == (MaxSpoken + 1) \div (size + 1)
               k == Min({repeat, q})
    <3>1. m = Max({1, k})
      BY <2>3 DEF Copies
    <3>2. q \in Nat /\ MaxSpoken + 1 < (q + 1) * (size + 1)
      BY <1>0
    <3> HIDE DEF q
    <3>3. k \in {repeat, q}
      BY <1>0, <3>2, MinPair
    <3>4. k \in Int
      BY <1>0, <3>2, <3>3
    <3> HIDE DEF k
    <3>5. 1 <= m /\ k <= m
      <4>1. 1 \in Int
        OBVIOUS
      <4>2. 1 <= Max({1, k}) /\ k <= Max({1, k})
        BY <3>4, <4>1, MaxPair
      <4>. QED BY <3>1, <4>2
    <3>6. CASE c = 1
      BY <3>5, <3>6
    <3>7. CASE c * size + c - 1 <= MaxSpoken
      <4>1. c * (size + 1) = c * size + c /\ c * size \in Int
        BY <2>1
      <4>2. c * (size + 1) < (q + 1) * (size + 1)
        <5>1. (q + 1) * (size + 1) \in Int
          BY <3>2
        <5>. QED BY <1>0, <2>1, <3>2, <3>7, <4>1, <5>1
      <4>3. ASSUME c >= q + 1 PROVE FALSE
        <5>1. c * (size + 1) >= (q + 1) * (size + 1)
          BY <2>1, <3>2, <4>3
        <5>2. c * (size + 1) \in Int /\ (q + 1) * (size + 1) \in Int
          BY <2>1, <3>2
        <5>. QED BY <4>2, <5>1, <5>2
      <4>4. c <= q
        BY <2>1, <3>2, <4>3
      <4>. QED BY <1>0, <1>1, <2>1, <3>2, <3>3, <3>5, <4>4
    <3>. QED BY <2>1, <2>3, <3>6, <3>7
  <2>. QED BY <2>2, <2>3
<1>4. MostCopies(size) = Max(S)
  BY DEF MostCopies
<1>5. \A c \in S : c \in Int
  BY <1>0
<1> HIDE DEF S, m
<1>6. Max(S) = m
  <2>1. Max(S) \in S /\ \A c \in S : Max(S) >= c
    BY <1>2, <1>3, <1>5 DEF Max
  <2>. QED BY <1>2, <1>3, <1>5, <2>1
<1>. QED BY <1>0, <1>1, <1>4, <1>6 DEF m

\* A full stop is not heard.
LEMMA PunctuatedHeard ==
    ASSUME ContentType, NEW text \in Seq(Positions)
    PROVE  Spread(Ear, Punctuated(text)) = Spread(Ear, text)
<1>1. Positions \subseteq TextAtoms /\ Dot \in TextAtoms /\ Ear[Dot] = <<>>
      /\ Reads(Ear, TextAtoms, TextAtoms)
  BY EarFacts
<1>2. text \in Seq(TextAtoms)
  BY <1>1
<1>3. Spread(Ear, text) \in Seq(TextAtoms)
  BY <1>1, <1>2, SpreadChain
<1>4. Spread(Ear, Append(text, Dot)) = Cat(Spread(Ear, text), Ear[Dot])
  BY <1>1, <1>2, SpreadAppend
<1>5. Cat(Spread(Ear, text), <<>>) = Spread(Ear, text)
  BY <1>3, CatNothing
<1>. QED BY <1>1, <1>4, <1>5 DEF Punctuated

-----------------------------------------------------------------------------
(* What is heard of a message without effects.                             *)

\* One copy of one segment, and of none.
LEMMA CopyOfFew ==
    ASSUME Ready, NEW o
    PROVE  /\ Len(segments) = 1 => OneCopyOf(o) = Came(o, 1)
           /\ segments = <<>> => OneCopyOf(o) = <<>>
<1> DEFINE n == Len(segments)
           v == Cames(o)
<1>1. ContentType /\ segments \in Seq(SegmentType)
  BY DEF Ready
<1>2. AreTexts(v, n, TextAtoms) /\ \A s \in 1..n : v[s] = Came(o, s)
  BY <1>1, CamesAre
<1>3. OneCopyOf(o) = Chain(v, n)
  BY CopyCame DEF CameTo
<1> HIDE DEF v
<1>4. ASSUME n = 1 PROVE OneCopyOf(o) = Came(o, 1)
  <2>1. AreTexts(v, 1, TextAtoms) /\ v[1] = Came(o, 1) /\ 1 \in 1..1 /\ 0 = 1 - 1
    BY <1>2, <1>4
  <2>2. Chain(v, 1) = Cat(Chain(v, 0), v[1])
    BY <2>1, ChainStep
  <2>3. Chain(v, 0) = <<>>
    BY NoPieces
  <2>4. v[1] \in Seq(TextAtoms)
    BY <2>1 DEF AreTexts
  <2>. QED BY <1>3, <1>4, <2>1, <2>2, <2>3, <2>4, CatNothing
<1>5. ASSUME segments = <<>> PROVE OneCopyOf(o) = <<>>
  BY <1>3, <1>5, NoPieces
<1>. QED BY <1>4, <1>5

\* A message without effects is one segment, if any, and is spoken as it is.
LEMMA PlainIs ==
    ASSUME Ready, AllSpeech
    PROVE  /\ segments # <<>> =>
                 /\ Len(segments) = 1 /\ Spoken # <<>>
                 /\ Spoken \in Seq(Positions \cup {Dot}) /\ Spoken \in Seq(TextAtoms)
                 /\ Len(Spoken) \in Nat \ {0} /\ Len(Spoken) = SpokenPerCopy
                 /\ Spread(Ear, Spoken) = SegDue(segments[1])
           /\ ~HasEffects
<1>1. ContentType /\ segments \in Seq(SegmentType) /\ DOMAIN segments = 1..Len(segments)
      /\ Len(segments) \in Nat
  BY DEF Ready
<1>2. ~HasEffects
  BY DEF HasEffects, AllSpeech, IsSpeech
<1>3. Len(segments) <= 1
  BY DEF Ready, Heeded, HasEffect, AllSpeech
<1>4. ASSUME segments # <<>>
      PROVE  /\ Len(segments) = 1 /\ Spoken # <<>>
             /\ Spoken \in Seq(Positions \cup {Dot}) /\ Spoken \in Seq(TextAtoms)
             /\ Len(Spoken) \in Nat \ {0} /\ Len(Spoken) = SpokenPerCopy
             /\ Spread(Ear, Spoken) = SegDue(segments[1])
  <2> DEFINE text == segments[1].text
  <2>1. Len(segments) = 1 /\ 1 \in 1..Len(segments) /\ DOMAIN segments = 1..1
    BY <1>1, <1>3, <1>4
  <2>2. IsSpeech(segments, 1)
    BY <1>1, <2>1 DEF AllSpeech
  <2>3. text \in Seq(Positions) /\ text \in Seq(TextAtoms) /\ Len(text) >= 1
        /\ Len(Punctuated(text)) >= 1 /\ Punctuated(text) \in Seq(TextAtoms)
    BY <1>1, <2>1, <2>2, TextOf
  <2>4. Spoken = Punctuated(Join(<<Space>>, [i \in 1..1 |-> segments[i].text]))
    BY <2>1 DEF Spoken
  <2>5. [i \in 1..1 |-> segments[i].text] = [i \in 1..1 |-> text]
    OBVIOUS
  <2>6. <<Space>> \in Seq(TextAtoms)
    BY DEF TextAtoms
  <2> HIDE DEF text
  <2>7. Join(<<Space>>, [i \in 1..1 |-> text]) = text
    BY <2>3, <2>6, JoinSingle
  <2>8. Spoken = Punctuated(text)
    BY <2>4, <2>5, <2>7
  <2>9. Spoken \in Seq(Positions \cup {Dot})
    BY <2>3, <2>8, PunctuatedLen
  <2>10. Spread(Ear, Spoken) = SegDue(segments[1])
    BY <1>1, <2>2, <2>3, <2>8, PunctuatedHeard DEF SegDue, IsSpeech, text
  <2>11. SpokenPerCopy = Len(Spoken)
    <3>1. Spend(segments)[1] = Len(Punctuated(text))
      BY <2>1, <2>2 DEF Spend, IsSpeech, text
    <3>2. Slice(1, 1) = Len(Punctuated(text))
      BY <1>1, <2>1, <3>1, SliceOne
    <3>3. 1 \in 1..Len(segments) /\ 1 \in 1..Len(segments) /\ 1 - 1 = 0
      BY <2>1
    <3>4. Prefix(1) = Prefix(0) + Slice(1, 1)
      BY <1>1, <3>3, PrefixSlice
    <3>5. Prefix(0) = 0 /\ Prefix(1) = SpokenPerCopy
      BY <1>1, <2>1, PrefixFacts
    <3>. QED BY <2>3, <2>8, <3>2, <3>4, <3>5
  <2>12. Len(Spoken) \in Nat \ {0} /\ Spoken # <<>>
    BY <2>3, <2>8
  <2>. QED BY <2>1, <2>3, <2>8, <2>9, <2>10, <2>11, <2>12
<1>. QED BY <1>2, <1>4

\* The engine's answer is heard as the copy that it leaves.
LEMMA AnswerHeard ==
    ASSUME Ready, AllSpeech, segments # <<>>, NEW how, NEW o, o[1] = how
    PROVE  Spread(Ear, Audio(Spoken, how)) = OneCopyOf(o)
<1>1. Len(segments) = 1 /\ Spread(Ear, Spoken) = SegDue(segments[1])
  BY PlainIs
<1>2. OneCopyOf(o) = IF how = "sound" THEN SegDue(segments[1]) ELSE <<>>
  BY <1>1, CopyOfFew DEF Came
<1>. QED BY <1>1, <1>2, SpreadEmpty DEF Audio

\* What is heard of one item of speech.
LEMMA ItemHeard ==
    ASSUME ContentType, NEW a \in Seq(TextAtoms)
    PROVE  HeardIn(<<SpeechItem(a)>>) = Spread(Ear, a)
<1>1. SpeechItem(a) \in ItemType /\ <<SpeechItem(a)>> \in Seq(ItemType)
  BY SpeechItemType
<1>2. SpeechItem(a).audio = a
  BY DEF SpeechItem
<1> DEFINE it == SpeechItem(a)
<1> HIDE DEF it
<1>3. Reads(EarOf, ItemType, TextAtoms) /\ HeardIn(<<it>>) = Spread(EarOf, <<it>>)
      /\ EarOf[it] = Spread(Ear, it.audio)
  BY <1>1, EarOfFacts DEF it
<1>4. Spread(EarOf, <<it>>) = EarOf[it]
  BY <1>1, <1>3, SpreadOne DEF it
<1>. QED BY <1>2, <1>3, <1>4 DEF it

\* A separator is heard as it came out.
LEMMA SeparatorHeard ==
    ASSUME ContentType, NEW how
    PROVE  /\ Audio(<<Powtarzam>>, how) \in Seq(TextAtoms)
           /\ Spread(Ear, Audio(<<Powtarzam>>, how)) = Audio(<<Powtarzam>>, how)
<1>1. Reads(Ear, TextAtoms, TextAtoms) /\ Powtarzam \in TextAtoms /\ Ear[Powtarzam] = <<Powtarzam>>
  BY EarFacts
<1>2. Spread(Ear, <<Powtarzam>>) = <<Powtarzam>>
  BY <1>1, SpreadOne
<1>3. <<Powtarzam>> \in Seq(TextAtoms)
  BY <1>1
<1>. QED BY <1>2, <1>3, SpreadEmpty, AudioType DEF Audio

\* Copies, and what separates them.
LEMMA RepeatedIs ==
    ASSUME NEW o, NEW n
    PROVE  RepeatedOf(o, n) = Again(Audio(<<Powtarzam>>, o[0]), OneCopyOf(o), n)
BY DEF RepeatedOf, Again, Audio

\* A copy is what came of the segments alone.
LEMMA SameCopy ==
    ASSUME segments \in Seq(SegmentType), NEW o, NEW p,
           \A s \in 1..Len(segments) : o[s] = p[s]
    PROVE  OneCopyOf(o) = OneCopyOf(p)
<1>1. DOMAIN segments = 1..Len(segments)
  OBVIOUS
<1>2. \A i : LostIn(o, i) <=> LostIn(p, i)
  BY <1>1 DEF LostIn
<1>. QED BY <1>2 DEF OneCopyOf

\* What comes first is a prefix.
LEMMA PrefixOfCat ==
    ASSUME NEW A, NEW s \in Seq(A), NEW t \in Seq(A)
    PROVE  IsPrefix(s, Cat(s, t))
<1> DEFINE c == Cat(s, t)
           n == Len(s)
<1>1. c \in Seq(A) /\ n \in Nat /\ n <= Len(c) /\ \A i \in 1..n : c[i] = s[i]
  BY DEF Cat
<1> HIDE DEF c
<1>2. SubSeq(c, 1, n) \in Seq(A) /\ Len(SubSeq(c, 1, n)) = n
      /\ \A i \in 1..n : SubSeq(c, 1, n)[i] = c[i]
  BY <1>1
<1>3. SubSeq(s, 1, n) = s
  BY SubSeqFull
<1>4. SubSeq(c, 1, n) = s
  BY <1>1, <1>2
<1>. QED BY <1>1, <1>3, <1>4 DEF IsPrefix, c

\* A sum of ones.
LEMMA TotalOnes ==
    ASSUME NEW n \in Nat, NEW w \in [1..n -> Nat], \A i \in 1..n : w[i] = 1
    PROVE  Total(w) = n
<1>1. PICK p : Partial(p, w, n) /\ Total(w) = p[n]
  BY TotalFold
<1> DEFINE T == {i \in 0..n : p[i] = i}
<1>2. 0 \in T
  BY <1>1 DEF Partial
<1>3. ASSUME NEW i \in 1..n, i - 1 \in T PROVE i \in T
  <2>1. p[i] = p[i - 1] + 1 /\ p[i - 1] = i - 1
    BY <1>1, <1>3 DEF Partial
  <2>. QED BY <2>1
<1>4. \A i \in 0..n : i \in T
  BY <1>2, <1>3, UpToInduct
<1>5. n \in 0..n
  OBVIOUS
<1>. QED BY <1>1, <1>4, <1>5

\* What plain texts are made of: no spaces that join.
PlainAtoms == Positions \cup {Dot, Powtarzam}

\* Such a text has as many units as places.
LEMMA UnitsPlain ==
    ASSUME ContentType, NEW a \in Seq(PlainAtoms)
    PROVE  Units(a) = Len(a)
<1> DEFINE n == Len(a)
           w == [i \in DOMAIN a |-> IF a[i] = Space THEN 0 ELSE 1]
<1>1. \A i \in 1..n : a[i] \in PlainAtoms
  OBVIOUS
<1>2. Space \notin PlainAtoms
  BY PositionsAre DEF PlainAtoms, Space, Dot, Powtarzam
<1>3. n \in Nat /\ DOMAIN a = 1..n
  OBVIOUS
<1>4. w \in [1..n -> Nat] /\ \A i \in 1..n : w[i] = 1
  BY <1>1, <1>2, <1>3
<1>5. Units(a) = Total(w)
  BY DEF Units
<1> HIDE DEF w, n
<1>6. Total(w) = n
  BY <1>3, <1>4, TotalOnes
<1>. QED BY <1>5, <1>6 DEF n

\* Cutting a text to the budget.
LEMMA TruncatedIs ==
    ASSUME NEW A, NEW x \in Seq(A)
    PROVE  /\ Truncated(x) \in Seq(A)
           /\ \E rest \in Seq(A) : x = Cat(Truncated(x), rest)
           /\ Len(x) <= MaxSpoken => Truncated(x) = x
           /\ Len(x) > MaxSpoken => Len(Truncated(x)) = MaxSpoken
<1> DEFINE n == Len(x)
           m == Min({n, MaxSpoken})
<1>1. n \in Nat /\ MaxSpoken \in Nat
  BY RenderingAssumption
<1>2. m \in {n, MaxSpoken} /\ m <= n /\ m <= MaxSpoken
  BY <1>1, MinPair
<1>3. Truncated(x) = SubSeq(x, 1, m)
  BY DEF Truncated
<1> HIDE DEF m
<1>4. m \in 0..n
  BY <1>1, <1>2
<1> DEFINE a == SubSeq(x, 1, m)
           b == SubSeq(x, m + 1, n)
<1>5. /\ a \in Seq(A) /\ Len(a) = m /\ \A i \in 1..m : a[i] = x[i]
      /\ b \in Seq(A) /\ Len(b) = n - m /\ \A i \in 1..(n - m) : b[i] = x[m + i]
  <2>1. \A i \in 1..m : i \in 1..n
    BY <1>4
  <2>2. \A i \in (m + 1)..n : i \in 1..n
    BY <1>4
  <2>. QED BY <1>1, <1>4, <2>1, <2>2
<1> HIDE DEF a, b
<1> DEFINE c == a \o b
<1>6a. /\ c \in Seq(A) /\ Len(c) = m + (n - m)
       /\ \A i \in 1..m : c[i] = a[i]
       /\ \A i \in 1..(n - m) : c[m + i] = b[i]
  <2>1. c \in Seq(A)
    BY <1>5
  <2>2. Len(c) = m + (n - m)
    <3>1. Len(c) = Len(a) + Len(b)
      BY <1>5, ConcatProperties
    <3>. QED BY <1>5, <3>1
  <2>3. \A i \in 1..m : c[i] = a[i]
    BY <1>1, <1>4, <1>5
  <2>4. \A i \in 1..(n - m) : c[m + i] = b[i]
    BY <1>1, <1>4, <1>5
  <2>. QED BY <2>1, <2>2, <2>3, <2>4
<1> HIDE DEF c
<1>6. x = c
  <2>1. m + (n - m) = n
    BY <1>1, <1>4
  <2>2. ASSUME NEW i \in 1..n PROVE c[i] = x[i]
    <3>1. CASE i <= m
      <4>1. i \in 1..m
        BY <1>4, <3>1
      <4>. QED BY <1>5, <1>6a, <4>1
    <3>2. CASE i > m
      <4> DEFINE k == i - m
      <4>1. k \in 1..(n - m) /\ m + k = i
        BY <1>1, <1>4, <3>2
      <4> HIDE DEF k
      <4>2. c[m + k] = b[k] /\ b[k] = x[m + k]
        BY <1>5, <1>6a, <4>1
      <4>. QED BY <4>1, <4>2
    <3>. QED BY <1>1, <1>4, <3>1, <3>2
  <2>. QED BY <1>6a, <2>1, <2>2
<1>7. n <= MaxSpoken => a = x
  <2>1. n <= MaxSpoken => m = n
    BY <1>1, <1>2
  <2>. QED BY <1>5, <2>1
<1>8. n > MaxSpoken => m = MaxSpoken
  BY <1>1, <1>2, <1>4
<1>. QED BY <1>3, <1>5, <1>6, <1>7, <1>8 DEF Cat, a, c

\* Copies joined as text are heard as they are due, or up to the budget.
LEMMA CutHeard ==
    ASSUME Ready, AllSpeech, segments # <<>>, repeat \in 1..MaxRepeat,
           NEW o, o[0] = "sound", o[1] = "sound"
    PROVE  MaybeCut(o, <<SpeechItem(Truncated(Again(<<Powtarzam>>, Spoken, repeat)))>>)
<1> DEFINE x == Again(<<Powtarzam>>, Spoken, repeat)
           cut == Truncated(x)
           its == <<SpeechItem(cut)>>
           due == RepeatedOf(o, repeat)
<1>1. /\ ContentType /\ repeat \in Nat
      /\ Spoken \in Seq(Positions \cup {Dot}) /\ Spoken \in Seq(TextAtoms)
      /\ Spread(Ear, Spoken) = SegDue(segments[1])
  BY PlainIs, RenderingAssumption DEF Ready
<1>2. PlainAtoms \subseteq TextAtoms /\ Reads(Ear, TextAtoms, TextAtoms)
  BY <1>1, EarFacts DEF PlainAtoms, TextAtoms
<1>3. Spoken \in Seq(PlainAtoms) /\ <<Powtarzam>> \in Seq(PlainAtoms)
  BY <1>1 DEF PlainAtoms
<1>4. [a \in PlainAtoms |-> Ear[a]] \in [PlainAtoms -> Seq(TextAtoms)]
  BY <1>2 DEF Reads
<1>5. Reads([a \in PlainAtoms |-> Ear[a]], PlainAtoms, TextAtoms)
  BY <1>4 DEF Reads
<1>6. x \in Seq(PlainAtoms)
  BY <1>1, <1>3, <1>5, AgainHeard
<1>7. Spread(Ear, Audio(Spoken, "sound")) = OneCopyOf(o)
  BY AnswerHeard
<1>8. Spread(Ear, Audio(<<Powtarzam>>, "sound")) = Audio(<<Powtarzam>>, "sound")
      /\ Audio(<<Powtarzam>>, "sound") \in Seq(TextAtoms)
  BY <1>1, SeparatorHeard
<1>9. Audio(Spoken, "sound") = Spoken /\ Audio(<<Powtarzam>>, "sound") = <<Powtarzam>>
  BY DEF Audio
<1>10. Spread(Ear, x) = due
  <2>1. Spread(Ear, x) = Again(<<Powtarzam>>, OneCopyOf(o), repeat)
    BY <1>1, <1>2, <1>7, <1>8, <1>9, AgainHeard
  <2>. QED BY <1>9, <2>1, RepeatedIs
<1> HIDE DEF x, due
<1>11. /\ cut \in Seq(PlainAtoms)
       /\ \E rest \in Seq(PlainAtoms) : x = Cat(cut, rest)
       /\ Len(x) <= MaxSpoken => cut = x
       /\ Len(x) > MaxSpoken => Len(cut) = MaxSpoken
  BY <1>6, TruncatedIs
<1> HIDE DEF cut
<1>12. cut \in Seq(TextAtoms)
  BY <1>2, <1>11
<1>13. HeardIn(its) = Spread(Ear, cut) /\ SpokenOf(its) = Units(cut)
  BY <1>1, <1>12, ItemHeard, SpokenOne
<1> HIDE DEF its
<1>14. IsPrefix(Spread(Ear, cut), due)
  <2>1. PICK rest \in Seq(PlainAtoms) : x = Cat(cut, rest)
    BY <1>11
  <2>2. rest \in Seq(TextAtoms)
    BY <1>2
  <2>3. Spread(Ear, x) = Cat(Spread(Ear, cut), Spread(Ear, rest))
    BY <1>2, <1>12, <2>1, <2>2, SpreadConcat
  <2>4. Spread(Ear, cut) \in Seq(TextAtoms) /\ Spread(Ear, rest) \in Seq(TextAtoms)
    BY <1>2, <1>12, <2>2, SpreadChain
  <2>. QED BY <1>10, <2>3, <2>4, PrefixOfCat
<1>15. Spread(Ear, cut) = due \/ Units(cut) = MaxSpoken
  <2>1. Len(x) \in Nat /\ MaxSpoken \in Nat
    BY <1>6, RenderingAssumption
  <2>2. CASE Len(x) <= MaxSpoken
    BY <1>10, <1>11, <2>2
  <2>3. CASE Len(x) > MaxSpoken
    BY <1>1, <1>11, <2>3, UnitsPlain
  <2>. QED BY <2>1, <2>2, <2>3
<1>. QED BY <1>13, <1>14, <1>15 DEF MaybeCut, due, its, cut, x

\* Once it has been split, a message is ready.
LEMMA IsReady ==
    ASSUME TypeInv, Stages, Hears, pc # "split"
    PROVE  Ready
BY DEF TypeInv, Stages, Hears, Ready

\* What has to be shown of a step that leaves the message and its segments.
HearsAt(p, o, k, its, ps) ==
    /\ p \in {"plain", "plainSeparator", "pass", "separator"} => o[0] = "sound"
    /\ p \in {"pass", "separator"} => HasEffects
    /\ p = "plain" => \A s \in 1..Len(segments) : o[s] = "sound"
    /\ p = "plainSeparator" => PlainHears(o, ps[1])
    /\ p = "pass" => PassHears(o, k - 1, its, ps)
    /\ p = "separator" => OnceHears(o, its)
    /\ p = "done" => Written(o, its)

\* It is enough to show that.
LEMMA HearsNext ==
    ASSUME UNCHANGED <<inputs, segments>>, Hears, pc # "split",
           HearsAt(pc', outcome', next', items', parts')
    PROVE  Hears'
<1>1. /\ Written(outcome, items)' <=> Written(outcome', items')
      /\ PassHears(outcome, next - 1, items, parts)'
             <=> PassHears(outcome', next' - 1, items', parts')
      /\ OnceHears(outcome, items)' <=> OnceHears(outcome', items')
      /\ PlainHears(outcome, parts[1])' <=> PlainHears(outcome', parts'[1])
      /\ Heeded(segments, Len(content))' <=> Heeded(segments, Len(content))
      /\ HasEffects' <=> HasEffects
      /\ segments' = segments
  BY HearsFrozen, Frozen
<1>. QED BY <1>1 DEF HearsAt, Hears

\* Nothing to say.
LEMMA NothingHears ==
    ASSUME TypeInv, Stages, Hears, PlainNothing
    PROVE  Hears'
<1>1. /\ pc = "plain" /\ Spoken = <<>> /\ pc' = "done" /\ outcome' = outcome /\ items' = items
      /\ UNCHANGED <<inputs, segments>>
  BY DEF PlainNothing
<1>2. Ready /\ AllSpeech /\ items = <<>>
  BY <1>1, IsReady DEF Stages
<1>3. segments = <<>> /\ ~HasEffects
  BY <1>1, <1>2, PlainIs
<1>4. HeardIn(<<>>) = <<>> /\ SpokenOf(<<>>) = 0
  BY NoPieces, SpokenEmpty DEF HeardIn
<1>5. outcome \in [0..0 -> Outcomes] /\ outcome[0] = "sound"
  <2>1. Len(segments) = 0
    BY <1>3
  <2>. QED BY <1>1, <2>1 DEF TypeInv, Hears
<1>6. ~SomeRefused(outcome)
  BY <1>5 DEF SomeRefused
<1>7. MaybeCut(outcome, <<>>)
  <2>1. RepeatedOf(outcome, repeat) \in Seq(TextAtoms)
    <3>1. OneCopyOf(outcome) \in Seq(TextAtoms) /\ repeat \in Nat
      <4>1. OneCopyOf(outcome) = <<>>
        BY <1>2, <1>3, CopyOfFew
      <4>. QED BY <4>1, RenderingAssumption DEF TypeInv
    <3>2. Audio(<<Powtarzam>>, outcome[0]) \in Seq(TextAtoms) /\ Reads(Ear, TextAtoms, TextAtoms)
      BY SeparatorHeard, EarFacts DEF TypeInv
    <3>3. Again(Audio(<<Powtarzam>>, outcome[0]), OneCopyOf(outcome), repeat) \in Seq(TextAtoms)
      BY <3>1, <3>2, AgainHeard
    <3>. QED BY <3>3, RepeatedIs
  <2> DEFINE x == RepeatedOf(outcome, repeat)
  <2> HIDE DEF x
  <2>2. <<>> \in Seq(TextAtoms) /\ Cat(<<>>, x) = x
    BY <2>1, CatNothing DEF x
  <2>3. IsPrefix(<<>>, x)
    BY <2>1, <2>2, PrefixOfCat DEF x
  <2>. QED BY <1>4, <2>3 DEF MaybeCut, x
<1>8. Written(outcome, <<>>)
  BY <1>3, <1>4, <1>6, <1>7 DEF Written
<1>. QED BY <1>1, <1>2, <1>8, HearsNext DEF HearsAt

\* There is one segment to say.
LEMMA SaysOne ==
    ASSUME TypeInv, Stages, Hears, pc \in {"plain", "plainSeparator"}, Spoken # <<>>
    PROVE  /\ Ready /\ AllSpeech /\ ~HasEffects /\ segments # <<>> /\ Len(segments) = 1
           /\ outcome \in [0..1 -> Outcomes] /\ outcome[0] = "sound"
           /\ Len(Spoken) \in Nat \ {0} /\ Len(Spoken) = SpokenPerCopy
           /\ items = <<>>
<1>1. Ready /\ AllSpeech /\ items = <<>>
  BY IsReady DEF Stages
<1>2. ASSUME segments = <<>> PROVE FALSE
  <2>1. Join(<<Space>>, <<>>) = <<>>
    <3> DEFINE none == <<>>
               space == <<Space>>
    <3>1. AreTexts(none, 0, TextAtoms) /\ space \in Seq(TextAtoms)
      BY DEF AreTexts, TextAtoms
    <3> HIDE DEF none, space
    <3>2. PICK j : Joined(j, space, none, 0, TextAtoms) /\ Join(space, none) = j[0]
      BY <3>1, JoinOf
    <3>. QED BY <3>2 DEF Joined, none, space
  <2>2. [i \in DOMAIN segments |-> segments[i].text] = <<>>
    BY <1>2
  <2>. QED BY <2>1, <2>2 DEF Spoken, Punctuated
<1>3. Len(segments) = 1 /\ ~HasEffects /\ Len(Spoken) \in Nat \ {0} /\ Len(Spoken) = SpokenPerCopy
  BY <1>1, <1>2, PlainIs
<1>4. outcome \in [0..1 -> Outcomes] /\ outcome[0] = "sound"
  BY <1>3 DEF TypeInv, Hears
<1>. QED BY <1>1, <1>2, <1>3, <1>4

\* The body is heard as it came out, and is one copy if it is not repeated.
LEMMA BodyHears ==
    ASSUME TypeInv, Stages, Hears, PlainBody
    PROVE  Hears'
<1>1. /\ pc = "plain" /\ Spoken # <<>>
      /\ UNCHANGED <<inputs, segments>>
  BY DEF PlainBody
<1>2. PICK how \in {"sound", "silent"} :
          /\ outcome' = [outcome EXCEPT ![1] = how]
          /\ \/ /\ Joins
                /\ parts' = <<Audio(PlainText, how)>>
                /\ pc' = "plainSeparator"
                /\ UNCHANGED items
             \/ /\ ~Joins
                /\ items' = <<SpeechItem(Audio(PlainText, how))>>
                /\ pc' = "done"
                /\ UNCHANGED parts
  BY DEF PlainBody
<1>3. /\ Ready /\ AllSpeech /\ ~HasEffects /\ segments # <<>> /\ Len(segments) = 1
      /\ outcome \in [0..1 -> Outcomes] /\ outcome[0] = "sound"
      /\ Len(Spoken) \in Nat \ {0} /\ Len(Spoken) = SpokenPerCopy
      /\ ContentType
  BY <1>1, SaysOne DEF Ready
<1>4. outcome'[0] = "sound" /\ outcome'[1] = how /\ DOMAIN outcome' = 0..1
      /\ \A s \in 1..Len(segments) : outcome'[s] # "refused"
  BY <1>2, <1>3
<1> DEFINE o == outcome'
<1>5. o[0] = "sound" /\ o[1] = how /\ DOMAIN o = 0..1 /\ \A s \in 1..Len(segments) : o[s] # "refused"
  BY <1>4
<1> HIDE DEF o
<1>6. Spread(Ear, Audio(Spoken, how)) = OneCopyOf(o)
  BY <1>3, <1>5, AnswerHeard
<1>7. repeat \in 1..MaxRepeat /\ repeat \in Nat \ {0}
  BY RenderingAssumption DEF TypeInv
<1>8. ~SomeRefused(o)
  BY <1>5 DEF SomeRefused
<1>9. CASE Joins
  <2>1. parts' = <<Audio(Spoken, how)>> /\ pc' = "plainSeparator"
    BY <1>2, <1>9 DEF Joins, PlainText
  <2>2. Got(o, Len(segments))
    BY <1>3, <1>5 DEF Got
  <2>3. PlainHears(o, Audio(Spoken, how))
    BY <1>5, <1>6, <2>2 DEF PlainHears
  <2>4. parts'[1] = Audio(Spoken, how)
    BY <2>1
  <2>. QED BY <1>1, <1>5, <2>1, <2>3, <2>4, HearsNext DEF HearsAt, o
<1>10. CASE ~Joins /\ (repeat = 1 \/ concatenable)
  <2> DEFINE a == Audio(Spoken, how)
  <2>1. items' = <<SpeechItem(a)>> /\ pc' = "done"
    BY <1>2, <1>10 DEF PlainText
  <2>2. Spoken \in Seq(TextAtoms) /\ a \in Seq(TextAtoms)
    BY <1>3, PlainIs, AudioType
  <2>3. HeardIn(<<SpeechItem(a)>>) = OneCopyOf(o)
    BY <1>3, <1>6, <2>2, ItemHeard
  <2>4. MostCopies(SpokenPerCopy) = 1
    <3>1. MostCopies(Len(Spoken)) = Copies(Len(Spoken)) /\ Copies(Len(Spoken)) \in 1..repeat
          /\ (repeat = 1 => MostCopies(Len(Spoken)) = 1)
      BY <1>3, <1>7, MostIs
    <3>. QED BY <1>3, <1>7, <1>10, <3>1 DEF Joins
  <2>5. Best(o) = OneCopyOf(o)
    <3>1. Best(o) = Again(Audio(<<Powtarzam>>, o[0]), OneCopyOf(o), 1)
      BY <2>4, RepeatedIs DEF Best
    <3>2. OneCopyOf(o) \in Seq(TextAtoms)
      <4>1. Reads(Ear, TextAtoms, TextAtoms)
        BY <1>3, EarFacts
      <4>2. Spread(Ear, a) \in Seq(TextAtoms)
        BY <2>2, <4>1, SpreadChain
      <4>. QED BY <1>6, <4>2
    <3>3. Audio(<<Powtarzam>>, o[0]) \in Seq(TextAtoms)
      BY <1>3, SeparatorHeard
    <3>. QED BY <3>1, <3>2, <3>3, JoinSingle DEF Again
  <2> HIDE DEF a
  <2>6. Written(o, <<SpeechItem(a)>>)
    BY <1>3, <1>8, <1>10, <2>3, <2>5 DEF Written
  <2>. QED BY <1>1, <2>1, <2>6, HearsNext DEF HearsAt, o
<1>11. CASE ~Joins /\ repeat # 1 /\ ~concatenable
  <2> DEFINE x == Truncated(Again(<<Powtarzam>>, Spoken, repeat))
  <2>1. items' = <<SpeechItem(Audio(x, how))>> /\ pc' = "done"
    BY <1>2, <1>11 DEF PlainText, Again
  <2>2. MaybeCut(o, <<SpeechItem(Audio(x, how))>>)
    <3>1. CASE how = "sound"
      <4>1. MaybeCut(o, <<SpeechItem(x)>>)
        BY <1>3, <1>5, <1>7, <3>1, CutHeard
      <4>. QED BY <3>1, <4>1 DEF Audio
    <3>2. CASE how # "sound"
      <4>1. Audio(x, how) = <<>> /\ <<>> \in Seq(TextAtoms)
        BY <3>2 DEF Audio
      <4>2. HeardIn(<<SpeechItem(<<>>)>>) = <<>> /\ SpokenOf(<<SpeechItem(<<>>)>>) = 0
        <5>1. HeardIn(<<SpeechItem(<<>>)>>) = Spread(Ear, <<>>)
          BY <1>3, <4>1, ItemHeard
        <5>2. SpokenOf(<<SpeechItem(<<>>)>>) = Units(<<>>)
          BY <4>1, SpokenOne
        <5>. QED BY <5>1, <5>2, SpreadEmpty, UnitsEmpty
      <4>3. RepeatedOf(o, repeat) \in Seq(TextAtoms)
        <5>1. Reads(Ear, TextAtoms, TextAtoms) /\ Audio(<<Powtarzam>>, o[0]) \in Seq(TextAtoms)
          BY <1>3, EarFacts, SeparatorHeard
        <5>2. OneCopyOf(o) \in Seq(TextAtoms)
          <6>1. Spread(Ear, Audio(Spoken, how)) = <<>>
            BY <3>2, SpreadEmpty DEF Audio
          <6>. QED BY <1>6, <6>1
        <5>3. Again(Audio(<<Powtarzam>>, o[0]), OneCopyOf(o), repeat) \in Seq(TextAtoms)
          BY <1>7, <5>1, <5>2, AgainHeard
        <5>. QED BY <5>3, RepeatedIs
      <4> DEFINE y == RepeatedOf(o, repeat)
      <4> HIDE DEF y
      <4>4. Cat(<<>>, y) = y
        BY <4>3, CatNothing DEF y
      <4>5. IsPrefix(<<>>, y)
        BY <4>1, <4>3, <4>4, PrefixOfCat DEF y
      <4>. QED BY <4>1, <4>2, <4>5 DEF MaybeCut, y
    <3>. QED BY <3>1, <3>2
  <2> HIDE DEF x
  <2>3. Written(o, <<SpeechItem(Audio(x, how))>>)
    BY <1>3, <1>8, <1>11, <2>2 DEF Written
  <2>. QED BY <1>1, <2>1, <2>3, HearsNext DEF HearsAt, o
<1>. QED BY <1>9, <1>10, <1>11

\* The engine raises: nothing is heard.
LEMMA RaisesHears ==
    ASSUME TypeInv, Stages, Hears, PlainRaises
    PROVE  Hears'
<1>1. /\ pc \in {"plain", "plainSeparator"} /\ pc' = "done" /\ items' = items
      /\ UNCHANGED <<inputs, segments>>
      /\ \E s \in {0, 1} : outcome' = [outcome EXCEPT ![s] = "refused"]
      /\ Spoken # <<>>
  BY DEF PlainRaises, Stages
<1>2. ~HasEffects /\ outcome \in [0..1 -> Outcomes] /\ items = <<>>
  BY <1>1, SaysOne
<1>3. SomeRefused(outcome')
  <2>1. PICK s \in {0, 1} : outcome' = [outcome EXCEPT ![s] = "refused"]
    BY <1>1
  <2>2. s \in DOMAIN outcome' /\ outcome'[s] = "refused"
    BY <1>2, <2>1
  <2>. QED BY <2>2 DEF SomeRefused
<1>4. HeardIn(<<>>) = <<>>
  BY NoPieces DEF HeardIn
<1> DEFINE o == outcome'
<1>5. SomeRefused(o)
  BY <1>3
<1> HIDE DEF o
<1>6. Written(o, <<>>)
  BY <1>2, <1>4, <1>5 DEF Written
<1>. QED BY <1>1, <1>2, <1>6, HearsNext DEF HearsAt, o

\* The copies joined as audio are heard as they are due.
LEMMA PlainSeparatorHears ==
    ASSUME TypeInv, Stages, Hears, PlainSeparator
    PROVE  Hears'
<1>1. /\ pc = "plainSeparator" /\ pc' = "done"
      /\ UNCHANGED <<inputs, segments>>
  BY DEF PlainSeparator
<1>2. PICK how \in {"sound", "silent"} :
          /\ outcome' = [outcome EXCEPT ![0] = how]
          /\ items' = <<SpeechItem(Again(Audio(<<Powtarzam>>, how), parts[1], Copies(Len(Spoken))))>>
  BY DEF PlainSeparator, Again
<1>3. /\ Joins /\ Spoken # <<>> /\ Len(parts) = 1 /\ parts[1] \in {Spoken, <<>>}
      /\ PlainHears(outcome, parts[1])
  BY <1>1 DEF Stages, Hears
<1>4. /\ Ready /\ AllSpeech /\ ~HasEffects /\ segments # <<>> /\ Len(segments) = 1
      /\ outcome \in [0..1 -> Outcomes] /\ outcome[0] = "sound"
      /\ Len(Spoken) \in Nat \ {0} /\ Len(Spoken) = SpokenPerCopy
      /\ ContentType /\ segments \in Seq(SegmentType)
  BY <1>1, <1>3, SaysOne DEF Ready
<1> DEFINE o == outcome'
           c == Copies(Len(Spoken))
           sep == Audio(<<Powtarzam>>, how)
           body == parts[1]
           x == Again(sep, body, c)
<1>5. o[0] = how /\ o[1] = outcome[1] /\ DOMAIN o = 0..1
  BY <1>2, <1>4
<1>6. items' = <<SpeechItem(x)>>
  BY <1>2
<1>7. outcome[1] # "refused" /\ Spread(Ear, body) = OneCopyOf(outcome)
  BY <1>3, <1>4 DEF PlainHears
<1>8. body \in Seq(TextAtoms)
  <2>1. Spoken \in Seq(TextAtoms) /\ <<>> \in Seq(TextAtoms)
    BY <1>4, PlainIs
  <2>. QED BY <1>3, <2>1
<1>9. c \in Nat /\ c = MostCopies(SpokenPerCopy)
  <2>1. repeat \in 1..MaxRepeat /\ repeat \in Nat
    BY RenderingAssumption DEF TypeInv
  <2>2. MostCopies(Len(Spoken)) = c /\ c \in 1..repeat
    BY <1>4, <2>1, MostIs
  <2>. QED BY <1>4, <2>1, <2>2
<1> HIDE DEF o, c, body
<1>10. sep \in Seq(TextAtoms) /\ Spread(Ear, sep) = sep /\ Reads(Ear, TextAtoms, TextAtoms)
  BY <1>4, SeparatorHeard, EarFacts
<1>11. OneCopyOf(o) = OneCopyOf(outcome)
  <2>1. \A s \in 1..Len(segments) : o[s] = outcome[s]
    BY <1>4, <1>5
  <2>. QED BY <1>4, <2>1, SameCopy
<1> HIDE DEF sep
<1>12. Spread(Ear, x) = Again(sep, OneCopyOf(o), c) /\ x \in Seq(TextAtoms)
  BY <1>7, <1>8, <1>9, <1>10, <1>11, AgainHeard
<1> HIDE DEF x
<1>13. HeardIn(<<SpeechItem(x)>>) = Best(o)
  <2>1. Best(o) = Again(sep, OneCopyOf(o), c)
    BY <1>5, <1>9, RepeatedIs DEF Best, sep
  <2>2. HeardIn(<<SpeechItem(x)>>) = Spread(Ear, x)
    BY <1>4, <1>12, ItemHeard
  <2>. QED BY <1>12, <2>1, <2>2
<1>14. ~SomeRefused(o)
  BY <1>5, <1>7 DEF SomeRefused
<1>15. Written(o, <<SpeechItem(x)>>)
  BY <1>3, <1>4, <1>13, <1>14 DEF Written, Joins
<1>. QED BY <1>1, <1>6, <1>15, HearsNext DEF HearsAt, o

-----------------------------------------------------------------------------
(* What is heard of a message with effects.                                *)

\* Between two passes is heard what came of the separator.
LEMMA BetweenHeard ==
    ASSUME ContentType, NEW how, NEW between,
           between = IF how = "refused" THEN <<>>
                     ELSE <<SpeechItem(Audio(<<Powtarzam>>, how))>>
    PROVE  between \in Seq(ItemType) /\ Spread(EarOf, between) = Audio(<<Powtarzam>>, how)
<1> DEFINE sep == Audio(<<Powtarzam>>, how)
<1>1. sep \in Seq(TextAtoms) /\ Spread(Ear, sep) = sep
  BY SeparatorHeard
<1>2. how = "refused" => sep = <<>>
  BY DEF Audio
<1> HIDE DEF sep
<1>3. <<SpeechItem(sep)>> \in Seq(ItemType) /\ HeardIn(<<SpeechItem(sep)>>) = sep
  BY <1>1, ItemHeard, SpeechItemType
<1> DEFINE one == <<SpeechItem(sep)>>
<1>4. one \in Seq(ItemType) /\ HeardIn(one) = sep
  BY <1>3
<1> HIDE DEF one
<1>5. Spread(EarOf, one) = sep
  BY <1>4, EarOfFacts
<1>. QED BY <1>2, <1>4, <1>5, SpreadEmpty DEF one, sep

\* The passes, and what separates them, are heard as they are due.
LEMMA SeparatorHears ==
    ASSUME TypeInv, Stages, Hears, Separator
    PROVE  Hears'
<1>1. /\ pc = "separator" /\ pc' = "done"
      /\ UNCHANGED <<inputs, segments>>
  BY DEF Separator
<1>2. PICK how \in Outcomes :
          /\ outcome' = [outcome EXCEPT ![0] = how]
          /\ items' = Again(IF how = "refused" THEN <<>>
                            ELSE <<SpeechItem(Audio(<<Powtarzam>>, how))>>,
                            items, Copies(SpokenPerCopy))
  BY DEF Separator, Again
<1>3. /\ Ready /\ HasEffects /\ OnceHears(outcome, items)
      /\ ContentType /\ segments \in Seq(SegmentType) /\ Len(segments) \in Nat
      /\ outcome \in [0..Len(segments) -> Outcomes] /\ items \in Seq(ItemType)
      /\ repeat \in 1..MaxRepeat /\ repeat \in Nat
  BY <1>1, IsReady, RenderingAssumption DEF Ready, Hears, TypeInv
<1> DEFINE o == outcome'
           c == Copies(SpokenPerCopy)
           between == IF how = "refused" THEN <<>> ELSE <<SpeechItem(Audio(<<Powtarzam>>, how))>>
           its == Again(between, items, c)
<1>4. o[0] = how /\ \A s \in 1..Len(segments) : o[s] = outcome[s]
  BY <1>2, <1>3
<1>5. items' = its
  BY <1>2
<1>6. SpokenPerCopy \in Nat
  BY <1>3, PrefixFacts
<1>7. c \in Nat /\ c = MostCopies(SpokenPerCopy)
  <2>1. MostCopies(SpokenPerCopy) = c /\ c \in 1..repeat
    BY <1>3, <1>6, MostIs
  <2> HIDE DEF c
  <2>. QED BY <1>3, <2>1
<1> HIDE DEF o, c
<1>8. between \in Seq(ItemType) /\ Spread(EarOf, between) = Audio(<<Powtarzam>>, how)
  BY <1>3, BetweenHeard
<1> HIDE DEF between
<1>9. Reads(EarOf, ItemType, TextAtoms)
  BY <1>3, EarOfFacts
<1>10. OneCopyOf(o) = Spread(EarOf, items)
  BY <1>3, <1>4, SameCopy DEF OnceHears
<1>11. Spread(EarOf, its) = Again(Audio(<<Powtarzam>>, how), OneCopyOf(o), c) /\ its \in Seq(ItemType)
  BY <1>3, <1>7, <1>8, <1>9, <1>10, AgainHeard
<1> HIDE DEF its
<1>12. HeardIn(its) = Best(o)
  <2>1. Best(o) = Again(Audio(<<Powtarzam>>, how), OneCopyOf(o), c)
    BY <1>4, <1>7, RepeatedIs DEF Best
  <2>. QED BY <1>3, <1>11, <2>1, EarOfFacts
<1>13. ~AllRefused(o)
  BY <1>3, <1>4 DEF AllRefused, OnceHears, Got
<1>14. Written(o, its)
  BY <1>3, <1>12, <1>13 DEF Written
<1>. QED BY <1>1, <1>5, <1>14, HearsNext DEF HearsAt, o

\* A pass that is not repeated is heard once, and else before it is repeated.
LEMMA EndPassHears ==
    ASSUME TypeInv, Stages, Hears, EndPass
    PROVE  Hears'
<1>1. /\ pc = "pass" /\ first = 0 /\ next > Len(segments)
      /\ pc' = IF Once THEN "done" ELSE "separator"
      /\ UNCHANGED <<inputs, segments>> /\ items' = items /\ outcome' = outcome
  BY DEF EndPass, PassOver
<1>2. /\ Ready /\ HasEffects /\ PassHears(outcome, next - 1, items, parts)
      /\ ContentType /\ segments \in Seq(SegmentType) /\ Len(segments) \in Nat
      /\ outcome \in [0..Len(segments) -> Outcomes] /\ items \in Seq(ItemType)
      /\ repeat \in 1..MaxRepeat /\ outcome[0] = "sound"
      /\ next \in 1..(Len(segments) + 1) /\ parts = <<>>
  BY <1>1, IsReady DEF Ready, Hears, TypeInv, Stages
<1> DEFINE heard == Spread(EarOf, items)
           n == Len(segments)
<1>3. next - 1 = n
  BY <1>1, <1>2
<1>4. heard \in Seq(TextAtoms) /\ HeardIn(items) = heard
  <2>1. Reads(EarOf, ItemType, TextAtoms) /\ HeardIn(items) = heard
    BY <1>2, EarOfFacts
  <2>. QED BY <1>2, <2>1, SpreadChain
<1>5. heard = OneCopyOf(outcome)
  <2>1. Spread(Ear, FlattenSeq(parts)) = <<>>
    BY <1>2, NoPieces, SpreadEmpty
  <2>2. Cat(heard, <<>>) = CameTo(outcome, n)
    BY <1>2, <1>3, <2>1 DEF PassHears
  <2>. QED BY <1>2, <1>4, <2>2, CatNothing, CopyCame
<1>6. items # <<>> <=> Got(outcome, n)
  BY <1>2, <1>3 DEF PassHears
<1>7. CASE items = <<>>
  <2>1. AllRefused(outcome)
    BY <1>6, <1>7 DEF AllRefused, Got
  <2>2. HeardIn(items) = <<>>
    BY <1>7, NoPieces DEF HeardIn
  <2>3. Written(outcome, items)
    BY <1>2, <2>1, <2>2 DEF Written
  <2>4. pc' = "done"
    BY <1>1, <1>7 DEF Once
  <2>. QED BY <1>1, <2>3, <2>4, HearsNext DEF HearsAt
<1>8. CASE items # <<>> /\ Once
  <2>1. ~AllRefused(outcome)
    BY <1>6, <1>8 DEF AllRefused, Got
  <2>2. MostCopies(SpokenPerCopy) = 1
    <3>1. SpokenPerCopy \in Nat
      BY <1>2, PrefixFacts
    <3>. QED BY <1>2, <1>8, <3>1, MostIs DEF Once
  <2>3. Best(outcome) = heard
    <3>1. Best(outcome) = Again(Audio(<<Powtarzam>>, outcome[0]), heard, 1)
      BY <1>5, <2>2, RepeatedIs DEF Best
    <3>2. Audio(<<Powtarzam>>, outcome[0]) \in Seq(TextAtoms)
      BY <1>2, SeparatorHeard
    <3>. QED BY <1>4, <3>1, <3>2, JoinSingle DEF Again
  <2>4. Written(outcome, items)
    BY <1>2, <1>4, <2>1, <2>3 DEF Written
  <2>. QED BY <1>1, <1>8, <2>4, HearsNext DEF HearsAt
<1>9. CASE ~Once
  <2>1. OnceHears(outcome, items)
    BY <1>5, <1>6, <1>9 DEF OnceHears, Once
  <2>. QED BY <1>1, <1>2, <1>9, <2>1, HearsNext DEF HearsAt
<1>. QED BY <1>7, <1>8, <1>9

-----------------------------------------------------------------------------
(* What is heard of a pass, part by part.                                  *)

\* What is due of l segments after the first k.
RunDues(k, l) == [i \in 1..l |-> SegDue(segments[k + i])]
RunDue(k, l) == Chain(RunDues(k, l), l)

\* After the first k segments, which came out like o, l more came out so.
CameOut(p, o, k, l, how) ==
    /\ k \in Nat /\ l \in Nat \ {0} /\ k + l <= Len(segments)
    /\ \A s \in 1..k : p[s] = o[s]
    /\ \A i \in 1..l : p[k + i] = how

\* They come after what came of the others.
LEMMA CameMore ==
    ASSUME Ready, NEW o, NEW p, NEW k, NEW l, NEW how, CameOut(p, o, k, l, how)
    PROVE  /\ CameTo(p, k + l) = IF how = "sound" THEN Cat(CameTo(o, k), RunDue(k, l))
                                 ELSE CameTo(o, k)
           /\ CameTo(o, k) \in Seq(TextAtoms)
           /\ RunDue(k, l) \in Seq(TextAtoms)
           /\ Got(p, k + l) <=> Got(o, k) \/ how # "refused"
<1> DEFINE n == Len(segments)
           v == Cames(p)
           u == Cames(o)
           w == [i \in 1..l |-> Came(p, k + i)]
           m == k + l
           dues == RunDues(k, l)
<1>1. ContentType /\ segments \in Seq(SegmentType) /\ n \in Nat
      /\ \A s \in 1..n : SegDue(segments[s]) \in Seq(TextAtoms)
  <2>1. ContentType /\ segments \in Seq(SegmentType) /\ n \in Nat
    BY DEF Ready
  <2>. QED BY <2>1, DueOfFacts
<1>2. /\ k \in Nat /\ l \in Nat /\ l >= 1 /\ m <= n
      /\ \A s \in 1..k : p[s] = o[s]
      /\ \A i \in 1..l : p[k + i] = how
  BY DEF CameOut
<1>3. k \in 0..n /\ l \in 0..l /\ m \in 0..n /\ \A i \in 1..l : k + i \in 1..n
  BY <1>1, <1>2
<1>4. /\ AreTexts(v, n, TextAtoms) /\ AreTexts(u, n, TextAtoms)
      /\ \A s \in 1..n : v[s] = Came(p, s) /\ u[s] = Came(o, s)
  BY <1>1, CamesAre
<1>5. \A i \in 1..l : SegDue(segments[k + i]) \in Seq(TextAtoms)
  BY <1>1, <1>3
<1>6. /\ AreTexts(dues, l, TextAtoms)
      /\ \A i \in 1..l : dues[i] = SegDue(segments[k + i])
  BY <1>2, <1>5 DEF RunDues, AreTexts
<1>7. \A i \in 1..l : w[i] = IF how = "sound" THEN dues[i] ELSE <<>>
  BY <1>2, <1>6 DEF Came
<1>8. AreTexts(w, l, TextAtoms)
  <2>1. <<>> \in Seq(TextAtoms)
    OBVIOUS
  <2>2. \A i \in 1..l : w[i] \in Seq(TextAtoms)
    BY <1>5, <1>6, <1>7, <2>1
  <2>. QED BY <1>2, <2>2 DEF AreTexts
<1>9. GoesOn(v, k, n, w, l)
  BY <1>2, <1>3, <1>4 DEF GoesOn
<1>10. Chain(v, k) = Chain(u, k)
  <2>1. \A s \in 1..k : s \in 1..n
    BY <1>3
  <2>2. \A s \in 1..k : v[s] = u[s]
    BY <1>2, <1>4, <2>1 DEF Came
  <2>. QED BY <2>2 DEF Chain
<1>11. Got(p, m) <=> Got(o, k) \/ how # "refused"
  <2>1. ASSUME Got(p, m) PROVE Got(o, k) \/ how # "refused"
    <3>1. PICK s \in 1..m : p[s] # "refused"
      BY <2>1 DEF Got
    <3>2. CASE s <= k
      <4>1. s \in 1..k
        BY <1>2, <3>2
      <4>. QED BY <1>2, <3>1, <4>1 DEF Got
    <3>3. CASE s > k
      <4> DEFINE i == s - k
      <4>1. i \in 1..l /\ k + i = s
        BY <1>2, <3>3
      <4> HIDE DEF i
      <4>. QED BY <1>2, <3>1, <4>1
    <3>. QED BY <1>2, <3>2, <3>3
  <2>2. ASSUME Got(o, k) PROVE Got(p, m)
    <3>1. PICK s \in 1..k : o[s] # "refused"
      BY <2>2 DEF Got
    <3>2. s \in 1..m
      BY <1>2
    <3>. QED BY <1>2, <3>1, <3>2 DEF Got
  <2>3. ASSUME how # "refused" PROVE Got(p, m)
    <3>1. 1 \in 1..l /\ k + 1 \in 1..m
      BY <1>2
    <3>. QED BY <1>2, <2>3, <3>1 DEF Got
  <2>. QED BY <2>1, <2>2, <2>3
<1>12. RunDue(k, l) = Chain(dues, l)
  BY DEF RunDue
<1> HIDE DEF n, v, u, w, dues
<1>13. Chain(v, k + l) = Cat(Chain(v, k), Chain(w, l))
  BY <1>4, <1>8, <1>9, ChainOn
<1>14. Chain(u, k) \in Seq(TextAtoms) /\ Chain(dues, l) \in Seq(TextAtoms)
  BY <1>3, <1>4, <1>6, ChainType
<1>15. ASSUME how = "sound" PROVE w = dues
  BY <1>6, <1>7, <1>8, <1>15 DEF AreTexts
<1>16. ASSUME how # "sound" PROVE Chain(w, l) = <<>>
  <2>1. \A i \in 1..l : w[i] = <<>>
    BY <1>7, <1>16
  <2>. QED BY <1>8, <2>1, ChainNone
<1>17. Cat(Chain(u, k), <<>>) = Chain(u, k)
  BY <1>14, CatNothing
<1>18. CameTo(p, k + l) = Chain(v, k + l) /\ CameTo(o, k) = Chain(u, k)
  BY DEF CameTo, v, u
<1>19. CameTo(p, k + l) = IF how = "sound" THEN Cat(CameTo(o, k), Chain(dues, l)) ELSE CameTo(o, k)
  BY <1>10, <1>13, <1>15, <1>16, <1>17, <1>18
<1>. QED BY <1>11, <1>12, <1>14, <1>18, <1>19 DEF m

\* What is appended to is not empty.
LEMMA AppendSome ==
    ASSUME NEW A, NEW s \in Seq(A), NEW x \in A
    PROVE  Append(s, x) # <<>>
<1> DEFINE new == Append(s, x)
<1>1. Len(new) = Len(s) + 1 /\ Len(s) \in Nat
  OBVIOUS
<1> HIDE DEF new
<1>2. Len(new) # 0
  BY <1>1
<1>3. Len(<<>>) = 0
  OBVIOUS
<1>4. new # <<>>
  BY <1>2, <1>3
<1>. QED BY <1>4 DEF new

\* A part more is heard, unless it was refused.
LEMMA PartHears ==
    ASSUME Ready, NEW o, NEW p, NEW k, NEW l, NEW how, CameOut(p, o, k, l, how),
           NEW its \in Seq(ItemType), NEW ps \in Seq(Seq(TextAtoms)),
           PassHears(o, k, its, ps),
           NEW text \in Seq(TextAtoms), Spread(Ear, text) = RunDue(k, l), NEW m, m = k + l
    PROVE  PassHears(p, m, its, IF how = "refused" THEN ps ELSE Append(ps, Audio(text, how)))
<1> DEFINE x == Audio(text, how)
           new == Append(ps, x)
           flat == FlattenSeq(ps)
           was == Spread(EarOf, its)
           run == Spread(Ear, flat)
           more == Spread(Ear, x)
<1>1. /\ CameTo(p, m) = IF how = "sound" THEN Cat(CameTo(o, k), RunDue(k, l)) ELSE CameTo(o, k)
      /\ CameTo(o, k) \in Seq(TextAtoms)
      /\ Got(p, m) <=> Got(o, k) \/ how # "refused"
  BY CameMore
<1>2. Cat(was, run) = CameTo(o, k) /\ (its # <<>> \/ ps # <<>> <=> Got(o, k))
  BY DEF PassHears
<1>3. Reads(Ear, TextAtoms, TextAtoms) /\ Reads(EarOf, ItemType, TextAtoms)
  BY EarFacts, EarOfFacts DEF Ready
<1>4. x \in Seq(TextAtoms) /\ flat \in Seq(TextAtoms)
  BY AudioType, FlattenType
<1>5. FlattenSeq(new) = Cat(flat, x)
  BY <1>4, FlattenAppend DEF Cat
<1>6. new # <<>>
  BY <1>4, AppendSome
<1>7. more = IF how = "sound" THEN RunDue(k, l) ELSE <<>>
  BY SpreadEmpty DEF Audio
<1> HIDE DEF x, new, flat, was, run, more
<1>8. Spread(Ear, FlattenSeq(new)) = Cat(run, more)
  BY <1>3, <1>4, <1>5, SpreadConcat DEF run, more
<1>9. was \in Seq(TextAtoms) /\ run \in Seq(TextAtoms) /\ more \in Seq(TextAtoms)
  BY <1>3, <1>4, SpreadChain DEF was, run, more
<1>10. Cat(was, Cat(run, more)) = Cat(CameTo(o, k), more)
  <2>1. Cat(Cat(was, run), more) = Cat(was, Cat(run, more))
    BY <1>9, CatAssociative
  <2>. QED BY <1>2, <2>1
<1>11. Cat(CameTo(o, k), <<>>) = CameTo(o, k)
  BY <1>1, CatNothing
<1>12. CASE how = "refused"
  <2>1. Cat(was, run) = CameTo(p, m)
    BY <1>1, <1>2, <1>12
  <2>2. its # <<>> \/ ps # <<>> <=> Got(p, m)
    BY <1>1, <1>2, <1>12
  <2>. QED BY <1>12, <2>1, <2>2 DEF PassHears, was, run, flat
<1>13. CASE how # "refused"
  <2>1. Cat(was, Spread(Ear, FlattenSeq(new))) = CameTo(p, m)
    BY <1>1, <1>7, <1>8, <1>10, <1>11
  <2>2. its # <<>> \/ new # <<>> <=> Got(p, m)
    BY <1>1, <1>6, <1>13
  <2>. QED BY <1>13, <2>1, <2>2 DEF PassHears, was, new, x
<1>. QED BY <1>12, <1>13

\* One segment is a run.
LEMMA RunOfOne ==
    ASSUME Ready, NEW k \in Nat, k + 1 <= Len(segments)
    PROVE  RunDue(k, 1) = SegDue(segments[k + 1])
<1> DEFINE v == RunDues(k, 1)
           x == SegDue(segments[k + 1])
<1>1. ContentType /\ k + 1 \in 1..Len(segments) /\ segments[k + 1] \in SegmentType
  BY DEF Ready
<1>2. x \in Seq(TextAtoms)
  BY <1>1, DueOfFacts
<1>3. v = [i \in 1..1 |-> x]
  BY DEF RunDues
<1> HIDE DEF x, v
<1>4. AreTexts(v, 1, TextAtoms) /\ v[1] = x
  BY <1>2, <1>3 DEF AreTexts
<1>5. Chain(v, 1) = Join(<<>>, v)
  BY <1>4, JoinNothing
<1>6. <<>> \in Seq(TextAtoms)
  OBVIOUS
<1>7. Join(<<>>, v) = x
  BY <1>2, <1>3, <1>6, JoinSingle
<1>. QED BY <1>5, <1>7 DEF RunDue, v, x

\* Where a pass stands.
LEMMA PassFacts ==
    ASSUME TypeInv, Stages, Hears, pc = "pass"
    PROVE  /\ Ready /\ ContentType /\ segments \in Seq(SegmentType) /\ Len(segments) \in Nat
           /\ HasEffects /\ outcome[0] = "sound" /\ PassHears(outcome, next - 1, items, parts)
           /\ items \in Seq(ItemType) /\ parts \in Seq(Seq(TextAtoms))
           /\ outcome \in [0..Len(segments) -> Outcomes]
           /\ next \in 1..(Len(segments) + 1)
BY IsReady DEF Ready, Hears, TypeInv

\* An effect decoded is not heard yet.
LEMMA DecodeHears ==
    ASSUME TypeInv, Stages, Hears, DecodeEffect
    PROVE  Hears'
<1>1. /\ pc = "pass" /\ pc' = pc /\ UNCHANGED <<inputs, segments>>
      /\ next' = next /\ parts' = parts /\ items' = items /\ outcome' = outcome
  BY DEF DecodeEffect, InRun
<1>. QED BY <1>1, PassFacts, HearsNext DEF HearsAt

\* Nothing is promised once looking a name up has raised.
LEMMA DecodeRaisesHears ==
    ASSUME TypeInv, Stages, Hears, DecodeRaises
    PROVE  Hears'
<1>1. pc = "pass" /\ pc' = "raised" /\ UNCHANGED <<inputs, segments>>
  BY DEF DecodeRaises, InRun
<1>. QED BY <1>1, HearsNext DEF HearsAt

\* A clip is heard as often as it is due.
LEMMA ClipHears ==
    ASSUME TypeInv, Stages, Hears, AddClip
    PROVE  Hears'
<1> DEFINE how == decoded[EffectName]
           k == next - 1
           seg == segments[next]
           clip == [i \in 1..seg.count |-> seg.at]
           o == outcome'
<1>1. /\ InRun("effect") /\ EffectName \in DOMAIN decoded
      /\ parts' = IF how = "refused" THEN parts ELSE Append(parts, Audio(clip, how))
      /\ outcome' = [outcome EXCEPT ![next] = how]
      /\ next' = next + 1 /\ pc' = pc /\ items' = items
      /\ UNCHANGED <<inputs, segments>>
  BY DEF AddClip, Clip
<1>2. pc = "pass" /\ next \in 1..Len(segments) /\ seg.kind = "effect"
  BY <1>1, RunKind
<1>3. /\ Ready /\ ContentType /\ segments \in Seq(SegmentType) /\ Len(segments) \in Nat
      /\ HasEffects /\ outcome[0] = "sound" /\ PassHears(outcome, k, items, parts)
      /\ items \in Seq(ItemType) /\ parts \in Seq(Seq(TextAtoms))
      /\ outcome \in [0..Len(segments) -> Outcomes]
  BY <1>2, PassFacts
<1>4. /\ seg \in SegmentType /\ seg.at \in Positions /\ content[seg.at] \in Tags
      /\ seg.count \in 1..MaxEffects
  BY <1>2, <1>3 DEF SegmentType, SpeechType, EffectType
<1>5. k \in Nat /\ k + 1 = next /\ k + 1 <= Len(segments)
  BY <1>2, <1>3
<1>6. CameOut(o, outcome, k, 1, how)
  <2>1. \A s \in 1..k : s \in 0..Len(segments) /\ s # next
    BY <1>2, <1>5
  <2>2. o[next] = how /\ \A s \in 1..k : o[s] = outcome[s]
    BY <1>1, <1>2, <1>3, <2>1
  <2> HIDE DEF o, how
  <2>. QED BY <1>5, <2>2 DEF CameOut
<1>7. clip \in Seq(TextAtoms) /\ clip = SegDue(seg)
  BY <1>2, <1>3, <1>4, DueOfFacts DEF SegDue
<1>8. Spread(Ear, clip) = RunDue(k, 1)
  <2>1. Ear[seg.at] = <<seg.at>> /\ Reads(Ear, TextAtoms, TextAtoms)
    BY <1>3, <1>4, EarFacts, RenderingAssumption
  <2>2. DOMAIN clip = 1..seg.count /\ \A i \in 1..seg.count : clip[i] = seg.at
    OBVIOUS
  <2>3. RunDue(k, 1) = clip
    BY <1>3, <1>5, <1>7, RunOfOne
  <2> HIDE DEF clip
  <2>4. DOMAIN clip = 1..Len(clip)
    BY <1>7
  <2>5. HeardItself(Ear, clip)
    BY <2>1, <2>2, <2>4 DEF HeardItself
  <2>. QED BY <1>7, <2>1, <2>3, <2>5, SpreadAll
<1>9. o[0] = "sound"
  BY <1>1, <1>2, <1>3
<1> HIDE DEF how, o, clip, k, seg
<1>10. PassHears(o, next, items, IF how = "refused" THEN parts ELSE Append(parts, Audio(clip, how)))
  BY <1>3, <1>5, <1>6, <1>7, <1>8, PartHears
<1>11. next' - 1 = next
  BY <1>1, <1>2
<1>12. PassHears(o, next' - 1, items, parts')
  BY <1>1, <1>10, <1>11
<1>. QED BY <1>1, <1>2, <1>3, <1>9, <1>12, HearsNext DEF HearsAt, o

\* A run that ends becomes one item, heard as it is.
LEMMA EndRunHears ==
    ASSUME TypeInv, Stages, Hears, EndRun
    PROVE  Hears'
<1> DEFINE flat == FlattenSeq(parts)
           it == [kind |-> segments[first].kind, audio |-> flat]
           was == Spread(EarOf, items)
           run == Spread(Ear, flat)
           k == next - 1
<1>1. /\ pc = "pass" /\ first # 0 /\ pc' = pc /\ next' = next /\ outcome' = outcome
      /\ items' = IF parts = <<>> THEN items ELSE Append(items, it)
      /\ parts' = <<>> /\ UNCHANGED <<inputs, segments>>
  BY DEF EndRun
<1>2. /\ Ready /\ ContentType /\ segments \in Seq(SegmentType) /\ Len(segments) \in Nat
      /\ HasEffects /\ outcome[0] = "sound" /\ PassHears(outcome, k, items, parts)
      /\ items \in Seq(ItemType) /\ parts \in Seq(Seq(TextAtoms))
  BY <1>1, PassFacts
<1>3. first \in 1..Len(segments) /\ segments[first] \in SegmentType
      /\ segments[first].kind \in {"speech", "effect"}
  <2>1. first \in 1..Len(segments)
    BY <1>1, <1>2 DEF TypeInv
  <2>. QED BY <1>2, <2>1 DEF SegmentType, SpeechType, EffectType
<1>4. flat \in Seq(TextAtoms)
  BY <1>2, FlattenType
<1> HIDE DEF flat
<1>5. it \in ItemType /\ it.audio = flat
  BY <1>3, <1>4 DEF ItemType
<1> HIDE DEF it
<1>6. Reads(Ear, TextAtoms, TextAtoms) /\ Reads(EarOf, ItemType, TextAtoms)
      /\ EarOf[it] = run
  BY <1>2, <1>5, EarFacts, EarOfFacts
<1>7. Cat(was, run) = CameTo(outcome, k) /\ (items # <<>> \/ parts # <<>> <=> Got(outcome, k))
  BY <1>2 DEF PassHears, flat
<1>8. was \in Seq(TextAtoms) /\ run \in Seq(TextAtoms)
  BY <1>2, <1>4, <1>6, SpreadChain
<1>9. Spread(EarOf, Append(items, it)) = Cat(was, run)
  BY <1>2, <1>5, <1>6, SpreadAppend
<1> HIDE DEF was, run, k
<1>10. Spread(Ear, FlattenSeq(<<>>)) = <<>>
  BY NoPieces, SpreadEmpty
<1>11. CASE parts = <<>>
  <2>1. items' = items /\ parts' = parts
    BY <1>1, <1>11
  <2>. QED BY <1>1, <1>2, <2>1, HearsNext DEF HearsAt, k
<1>12. CASE parts # <<>>
  <2> DEFINE new == Append(items, it)
  <2>1. items' = new
    BY <1>1, <1>12
  <2>2. new # <<>>
    BY <1>2, <1>5, AppendSome
  <2> HIDE DEF new
  <2>3. Spread(EarOf, new) = Cat(was, run)
    BY <1>9 DEF new
  <2>4. Cat(was, run) \in Seq(TextAtoms)
    BY <1>8, CatType
  <2>5. Cat(Spread(EarOf, new), Spread(Ear, FlattenSeq(<<>>))) = CameTo(outcome, k)
    BY <1>7, <1>10, <2>3, <2>4, CatNothing
  <2>6. PassHears(outcome, k, new, <<>>)
    BY <1>7, <1>12, <2>2, <2>5 DEF PassHears
  <2>. QED BY <1>1, <1>2, <2>1, <2>6, HearsNext DEF HearsAt, k
<1>. QED BY <1>11, <1>12

\* A content that has been split: nothing is lost, and nothing heard yet.
LEMMA SplitHears ==
    ASSUME TypeInv, Stages, Split
    PROVE  Hears'
<1>1. /\ pc = "split" /\ segments' = SplitSegments /\ content' = content
      /\ outcome' = [i \in 0..Len(segments') |-> "sound"]
      /\ pc' = IF \E i \in DOMAIN segments' : segments'[i].kind = "effect" THEN "pass" ELSE "plain"
      /\ next' = next /\ parts' = parts /\ items' = items
  BY DEF Split, inputs, runVars
<1>2. ContentType /\ next = 1 /\ parts = <<>> /\ items = <<>>
  BY <1>1 DEF TypeInv, Stages
<1>3. SplitSegments \in Seq(SegmentType)
  BY <1>2, SplitWell DEF WellSplit
<1>4. Len(segments') \in Nat
  BY <1>1, <1>3
<1>5. outcome'[0] = "sound" /\ \A s \in 1..Len(segments') : outcome'[s] = "sound"
  BY <1>1, <1>4
<1>6. Heeded(segments, Len(content))'
  <2>1. Heeded(SplitSegments, Len(content))
    BY <1>2, SplitHeeds
  <2>2. Positions' = Positions /\ TextAtoms' = TextAtoms
    BY <1>1 DEF Positions, TextAtoms
  <2>3. SegmentType' = SegmentType
    BY <1>1, <2>2 DEF SegmentType, SpeechType, EffectType
  <2>4. Ear' = Ear
    BY <1>1, <2>2 DEF Ear, Hear
  <2> DEFINE new == SplitSegments
  <2>5. segments' = new /\ Heeded(new, Len(content))
    BY <1>1, <2>1
  <2> HIDE DEF new
  <2>6. DueOf' = DueOf
    BY <2>3, <2>4 DEF DueOf, SegDue
  <2>7. Dues' = Dues
    BY <1>1, <2>2 DEF Dues, Due, TimesDue, MapThenSumSet, MapThenFoldSet
  <2>8. Spend(segments)' = Spend(new)
    BY <1>1, <2>5 DEF Spend, Punctuated
  <2>. QED BY <1>1, <2>5, <2>6, <2>7, <2>8 DEF Heeded, Marked, Roomy, HasEffect
<1>7. CASE pc' = "pass"
  <2>1. HasEffects'
    BY <1>1, <1>7 DEF HasEffects
  <2>2. Spread(EarOf', <<>>) = <<>> /\ Spread(Ear', FlattenSeq(<<>>)) = <<>>
    BY NoPieces, SpreadEmpty
  <2>3. Chain(Cames(outcome)', 0) = <<>>
    BY NoPieces
  <2>4. Cat(<<>>, <<>>) = <<>>
    BY DEF Cat
  <2>5. next' - 1 = 0 /\ items' = <<>> /\ parts' = <<>>
    BY <1>1, <1>2
  <2>6. PassHears(outcome, next - 1, items, parts)'
    BY <2>2, <2>3, <2>4, <2>5 DEF PassHears, CameTo, Got
  <2>. QED BY <1>5, <1>6, <1>7, <2>1, <2>6 DEF Hears
<1>8. CASE pc' = "plain"
  BY <1>5, <1>6, <1>8 DEF Hears
<1>. QED BY <1>1, <1>7, <1>8

\* Texts, and no more than one place between each two.
LEMMA JoinLen ==
    ASSUME NEW A, NEW s \in Seq(A), Len(s) <= 1, NEW n, NEW texts, AreTexts(texts, n, A), n # 0,
           NEW w, AreCounts(w, n), \A i \in 1..n : w[i] = Len(texts[i])
    PROVE  Len(Join(s, texts)) + 1 <= Total(w) + n
<1>0. n \in Nat /\ n \in 0..n /\ w \in [1..n -> Nat] /\ \A i \in 1..n : texts[i] \in Seq(A)
  BY DEF AreTexts, AreCounts
<1>1. PICK j : Joined(j, s, texts, n, A) /\ Join(s, texts) = j[n]
  BY JoinOf
<1>2. PICK p : Partial(p, w, n) /\ Total(w) = p[n]
  BY <1>0, TotalFold
<1> DEFINE T == {i \in 0..n : Len(j[i]) + (IF i = 0 THEN 0 ELSE 1) <= p[i] + i}
<1>3. 0 \in T
  <2>1. j[0] = <<>> /\ p[0] = 0 /\ 0 \in 0..n
    BY <1>0, <1>1, <1>2 DEF Joined, Partial
  <2>. QED BY <2>1
<1>4. ASSUME NEW i \in 1..n, i - 1 \in T PROVE i \in T
  <2> DEFINE h == i - 1
             sep == IF i = 1 THEN <<>> ELSE s
             a == j[h]
             b == texts[i]
             ab == a \o sep
  <2>1. i \in Nat \ {0} /\ h \in Nat /\ i = h + 1 /\ h \in 0..n /\ i \in 0..n
        /\ (h = 0 <=> i = 1)
    BY <1>0
  <2>2. p[i] = p[h] + w[i] /\ p[h] \in Nat /\ w[i] = Len(b) /\ w[i] \in Nat
    BY <1>0, <1>2, <2>1 DEF Partial
  <2>3. j[i] = ab \o b /\ a \in Seq(A)
    BY <1>1, <2>1 DEF Joined
  <2>4. Len(a) + (IF h = 0 THEN 0 ELSE 1) <= p[h] + h
    BY <1>4
  <2>5. sep \in Seq(A) /\ Len(sep) \in Nat /\ Len(sep) <= (IF h = 0 THEN 0 ELSE 1)
    BY <2>1
  <2>6. b \in Seq(A) /\ Len(a) \in Nat /\ Len(b) \in Nat
    BY <1>0, <2>3
  <2> HIDE DEF sep, a, b, h
  <2>7. ab \in Seq(A) /\ Len(ab) = Len(a) + Len(sep)
    BY <2>3, <2>5, ConcatProperties
  <2> HIDE DEF ab
  <2>8. Len(ab \o b) = Len(ab) + Len(b)
    BY <2>6, <2>7, ConcatProperties
  <2>9. Len(j[i]) = Len(a) + Len(sep) + Len(b)
    BY <2>3, <2>5, <2>6, <2>7, <2>8
  <2>10. Len(j[i]) + 1 <= p[i] + i
    BY <2>1, <2>2, <2>4, <2>5, <2>6, <2>9
  <2>. QED BY <2>1, <2>10
<1>5. \A i \in 0..n : i \in T
  BY <1>0, <1>3, <1>4, UpToInduct
<1>. QED BY <1>0, <1>1, <1>2, <1>5

\* No run says more than one copy does.
LEMMA SliceFits ==
    ASSUME segments \in Seq(SegmentType), NEW a \in 1..Len(segments), NEW b \in a..Len(segments)
    PROVE  Slice(a, b) \in Nat /\ Slice(a, b) <= SpokenPerCopy
<1> DEFINE n == Len(segments)
<1>1. n \in Nat /\ a - 1 \in 0..n /\ b \in 0..n /\ b \in 1..n
  OBVIOUS
<1>2. Slice(a, b) \in Nat /\ Prefix(b) = Prefix(a - 1) + Slice(a, b)
  BY PrefixSlice
<1>3. Prefix(a - 1) \in Nat /\ Prefix(b) \in Nat /\ Prefix(n) = SpokenPerCopy
      /\ SpokenPerCopy \in Nat
  BY <1>1, PrefixFacts
<1>4. Prefix(b) <= Prefix(n)
  <2>1. CASE b = n
    BY <1>3, <2>1
  <2>2. CASE b # n
    <3> DEFINE c == b + 1
    <3>1. c \in 1..n /\ n \in c..n /\ c - 1 = b
      BY <1>1, <2>2
    <3> HIDE DEF c
    <3>2. Slice(c, n) \in Nat /\ Prefix(n) = Prefix(b) + Slice(c, n)
      BY <3>1, PrefixSlice
    <3>. QED BY <1>3, <3>2
  <2>. QED BY <2>1, <2>2
<1>. QED BY <1>2, <1>3, <1>4

\* The budget has room for all segments once, and a space between each two.
LEMMA RoomForOne ==
    ASSUME Ready
    PROVE  SpokenPerCopy + Len(segments) <= MaxSpoken + 1
<1>1. /\ segments \in Seq(SegmentType) /\ Len(segments) \in Nat
      /\ Len(content) \in Nat /\ Len(content) <= MaxLen
      /\ Total(Spend(segments)) + Len(segments) + 2 * 0 <= 2 * Len(content) + 1
  BY PositionsAre DEF Ready, ContentType, Heeded, Roomy
<1>2. SpokenPerCopy \in Nat
  BY <1>1, PrefixFacts
<1>3. SpokenPerCopy = Total(Spend(segments))
  BY DEF SpokenPerCopy, Spend
<1>4. MaxSpoken \in Nat /\ MaxLen \in Nat /\ MaxSpoken >= 2 * MaxLen
  BY RenderingAssumption
<1>. QED BY <1>1, <1>2, <1>3, <1>4

\* The text asked for a run is heard as the run is due.
LEMMA RunTextHeard ==
    ASSUME Ready, NEW k, k = next - 1, next \in 1..Len(segments), IsSpeech(segments, next),
           NEW l, l = RunTo - k
    PROVE  Spread(Ear, RunText) = RunDue(k, l)
<1> DEFINE n == Len(segments)
<1>1. /\ ContentType /\ segments \in Seq(SegmentType) /\ n \in Nat /\ k \in Nat /\ k + 1 = next
      /\ Reads(Ear, TextAtoms, TextAtoms) /\ Ear[Space] = <<>> /\ Space \in TextAtoms
  BY EarFacts DEF Ready
<1>2. ASSUME NEW s \in 1..n, IsSpeech(segments, s)
      PROVE  /\ Punctuated(segments[s].text) \in Seq(TextAtoms)
             /\ Spread(Ear, Punctuated(segments[s].text)) = SegDue(segments[s])
             /\ SegDue(segments[s]) \in Seq(TextAtoms)
             /\ Spend(segments)[s] = Len(Punctuated(segments[s].text))
  <2>1. segments[s].text \in Seq(Positions) /\ Punctuated(segments[s].text) \in Seq(TextAtoms)
    BY <1>1, <1>2, TextOf
  <2>2. Spread(Ear, Punctuated(segments[s].text)) = SegDue(segments[s])
    BY <1>1, <1>2, <2>1, PunctuatedHeard DEF SegDue, IsSpeech
  <2>3. segments[s] \in SegmentType
    BY <1>1
  <2>4. SegDue(segments[s]) \in Seq(TextAtoms)
    BY <1>1, <2>3, DueOfFacts
  <2>5. Spend(segments)[s] = Len(Punctuated(segments[s].text))
    BY <1>1, <1>2 DEF Spend, IsSpeech
  <2>. QED BY <2>1, <2>2, <2>4, <2>5
<1>3. CASE concatenable
  <2>1. RunText = Punctuated(segments[next].text) /\ l = 1
    BY <1>1, <1>3 DEF RunTo, RunText
  <2>2. Spread(Ear, RunText) = SegDue(segments[next])
    BY <1>2, <2>1
  <2>3. RunDue(k, 1) = SegDue(segments[k + 1])
    BY <1>1, RunOfOne
  <2>. QED BY <1>1, <2>1, <2>2, <2>3
<1>4. CASE ~concatenable
  <2> DEFINE b == RunEnd
             texts == TextsOf(next, b)
             J == Join(<<Space>>, texts)
             w == [i \in 1..l |-> Spend(segments)[next + i - 1]]
             v == RunDues(k, l)
  <2>1. b \in next..n /\ \A j \in next..b : IsSpeech(segments, j)
    BY <1>1, RunEndFacts
  <2>2. RunTo = b /\ RunText = Truncated(J)
    BY <1>4 DEF RunTo, RunText
  <2> HIDE DEF b
  <2>3. /\ l = b - next + 1 /\ l \in Nat /\ l # 0 /\ l <= n
        /\ \A i \in 1..l : next + i - 1 = k + i /\ k + i \in 1..n /\ k + i \in next..b
    BY <1>1, <2>1, <2>2
  <2>4. DOMAIN texts = 1..l /\ texts = [i \in 1..l |-> texts[i]]
        /\ \A i \in 1..l : texts[i] = Punctuated(segments[next + i - 1].text)
    BY <2>3 DEF TextsOf
  <2>5. w = [i \in 1..l |-> w[i]] /\ \A i \in 1..l : w[i] = Spend(segments)[next + i - 1]
    OBVIOUS
  <2>6. v = [i \in 1..l |-> v[i]] /\ \A i \in 1..l : v[i] = SegDue(segments[k + i])
    BY DEF RunDues
  <2>7. Total(w) = Slice(next, b)
    BY <2>3 DEF Slice
  <2> HIDE DEF texts, w, v
  <2>8. ASSUME NEW i \in 1..l
        PROVE  /\ texts[i] \in Seq(TextAtoms) /\ v[i] \in Seq(TextAtoms)
               /\ v[i] = Spread(Ear, texts[i])
               /\ w[i] = Len(texts[i]) /\ w[i] \in Nat
    <3> DEFINE s == k + i
    <3>1. s \in 1..n /\ IsSpeech(segments, s) /\ texts[i] = Punctuated(segments[s].text)
          /\ w[i] = Spend(segments)[s] /\ v[i] = SegDue(segments[s])
      <4>1. s \in 1..n /\ s \in next..b /\ next + i - 1 = s
        BY <2>3
      <4>2. texts[i] = Punctuated(segments[next + i - 1].text)
        BY <2>4
      <4>3. w[i] = Spend(segments)[next + i - 1]
        BY <2>5
      <4>4. v[i] = SegDue(segments[k + i])
        BY <2>6
      <4>. QED BY <2>1, <4>1, <4>2, <4>3, <4>4
    <3> HIDE DEF s
    <3>. QED BY <1>2, <3>1
  <2>9. AreTexts(texts, l, TextAtoms) /\ AreTexts(v, l, TextAtoms) /\ AreCounts(w, l)
    BY <2>3, <2>4, <2>5, <2>6, <2>8 DEF AreTexts, AreCounts
  <2> DEFINE space == <<Space>>
  <2>10. space \in Seq(TextAtoms) /\ Len(space) = 1 /\ Len(space) <= 1
    BY <1>1
  <2>11. Spread(Ear, space) = <<>>
    BY <1>1, SpreadOne
  <2>12. J = Join(space, texts)
    OBVIOUS
  <2> HIDE DEF space, J
  <2>13. J \in Seq(TextAtoms) /\ Len(J) + 1 <= Total(w) + l
    BY <2>3, <2>8, <2>9, <2>10, <2>12, JoinOf, JoinLen
  <2>14. Len(J) <= MaxSpoken
    <3>1. Slice(next, b) \in Nat /\ Slice(next, b) <= SpokenPerCopy
      BY <1>1, <2>1, SliceFits
    <3>2. SpokenPerCopy + n <= MaxSpoken + 1 /\ SpokenPerCopy \in Nat
      BY <1>1, RoomForOne, PrefixFacts
    <3>3. Len(J) \in Nat /\ MaxSpoken \in Nat
      BY <2>13, RenderingAssumption
    <3> HIDE DEF n
    <3>. QED BY <1>1, <2>3, <2>7, <2>13, <3>1, <3>2, <3>3
  <2>15. RunText = J
    BY <2>2, <2>13, <2>14, TruncatedIs
  <2>16. Spread(Ear, J) = Join(<<>>, v)
    <3> DEFINE none == <<>>
    <3>1. none \in Seq(TextAtoms) /\ none = Spread(Ear, space)
      BY <2>11
    <3> HIDE DEF none
    <3>2. \A i \in 1..l : v[i] = Spread(Ear, texts[i])
      BY <2>8
    <3>3. Spread(Ear, Join(space, texts)) = Join(none, v)
      BY <1>1, <2>9, <2>10, <3>1, <3>2, SpreadJoin
    <3>. QED BY <2>12, <3>3 DEF none
  <2>17. Join(<<>>, v) = Chain(v, l)
    BY <2>9, JoinNothing
  <2>. QED BY <2>15, <2>16, <2>17 DEF RunDue, v
<1>. QED BY <1>3, <1>4

\* A run is heard as it is due, segment by segment or as a whole.
LEMMA SpeechHears ==
    ASSUME TypeInv, Stages, Hears, RenderSpeech
    PROVE  Hears'
<1> DEFINE k == next - 1
           l == RunTo - k
           o == outcome'
           n == Len(segments)
<1>1. /\ next \in 1..n /\ IsSpeech(segments, next) /\ pc = "pass"
      /\ next' = RunTo + 1
      /\ UNCHANGED <<inputs, pc, segments, decoded, items>>
  BY RenderSpeechIs
<1>2. PICK how \in Outcomes :
         /\ parts' = IF how = "refused" THEN parts ELSE Append(parts, Audio(RunText, how))
         /\ outcome' = [i \in DOMAIN outcome |-> IF i \in next..RunTo THEN how ELSE outcome[i]]
  BY RenderSpeechIs
<1>3. /\ Ready /\ ContentType /\ segments \in Seq(SegmentType) /\ n \in Nat
      /\ HasEffects /\ outcome[0] = "sound" /\ PassHears(outcome, k, items, parts)
      /\ items \in Seq(ItemType) /\ parts \in Seq(Seq(TextAtoms))
      /\ outcome \in [0..n -> Outcomes]
  BY <1>1, PassFacts
<1>4. RunTo \in next..n /\ RunText \in Seq(TextAtoms)
  BY <1>1, <1>3, RunTextFacts
<1> DEFINE m == RunTo
<1>5. m \in next..n /\ next' = m + 1 /\ l = m - k
      /\ outcome' = [i \in DOMAIN outcome |-> IF i \in next..m THEN how ELSE outcome[i]]
  BY <1>1, <1>2, <1>4
<1> HIDE DEF m
<1>6. /\ k \in Nat /\ l \in Nat \ {0} /\ m = k + l /\ k + l <= n /\ next' - 1 = m
      /\ (\A s \in 1..k : s \in 0..n /\ s \notin next..m)
      /\ (\A i \in 1..l : k + i \in 0..n /\ k + i \in next..m)
      /\ 0 \notin next..m /\ 0 \in 0..n
  <2>1. next \in Nat \ {0} /\ k + 1 = next /\ k \in Nat
    BY <1>1, <1>3
  <2>2. m \in Nat /\ m >= next /\ m <= n
    BY <1>3, <1>5, <2>1
  <2> HIDE DEF k
  <2>3. l \in Nat \ {0} /\ m = k + l /\ k + l <= n
    BY <1>5, <2>1, <2>2
  <2> HIDE DEF l, n
  <2>4. next' - 1 = m
    BY <1>5, <2>2
  <2>5. \A s \in 1..k : s \in 0..n /\ s \notin next..m
    BY <1>3, <2>1, <2>2, <2>3
  <2>6. \A i \in 1..l : k + i \in 0..n /\ k + i \in next..m
    BY <1>3, <2>1, <2>2, <2>3
  <2>. QED BY <1>3, <2>1, <2>2, <2>3, <2>4, <2>5, <2>6
<1> HIDE DEF l
<1>7. CameOut(o, outcome, k, l, how) /\ o[0] = "sound"
  <2>1. DOMAIN outcome = 0..n
    BY <1>3
  <2>2. \A s \in 0..n : o[s] = IF s \in next..m THEN how ELSE outcome[s]
    BY <1>5, <2>1
  <2> HIDE DEF o
  <2>. QED BY <1>3, <1>6, <2>2 DEF CameOut
<1>8. Spread(Ear, RunText) = RunDue(k, l)
  BY <1>1, <1>3, RunTextHeard DEF l
<1> HIDE DEF o, k
<1>9. PassHears(o, m, items, IF how = "refused" THEN parts ELSE Append(parts, Audio(RunText, how)))
  BY <1>3, <1>4, <1>6, <1>7, <1>8, PartHears
<1>10. PassHears(o, next' - 1, items', parts')
  BY <1>1, <1>2, <1>6, <1>9
<1>. QED BY <1>1, <1>3, <1>7, <1>10, HearsNext DEF HearsAt, o

-----------------------------------------------------------------------------
(* What is played is what was written.                                     *)

\* Nothing has been heard at first.
LEMMA HearsInit ==
    ASSUME RInit
    PROVE  Hears
BY DEF RInit, Hears

\* No step plays what was not written.
LEMMA HearsStep ==
    ASSUME TypeInv, Stages, Hears, [RNext]_rvars
    PROVE  Hears'
<1>1. ASSUME UNCHANGED rvars PROVE Hears'
  <2>1. UNCHANGED <<inputs, segments>> /\ pc' = pc /\ next' = next /\ outcome' = outcome
        /\ items' = items /\ parts' = parts
    BY <1>1 DEF rvars, runVars
  <2>2. CASE pc = "split"
    BY <2>1, <2>2 DEF Hears
  <2>3. CASE pc # "split"
    BY <2>1, <2>3, HearsNext DEF Hears, HearsAt
  <2>. QED BY <2>2, <2>3
<1>2. CASE RNext
  BY <1>2, SplitHears, NothingHears, BodyHears, PlainSeparatorHears, RaisesHears, DecodeHears,
     DecodeRaisesHears, ClipHears, SpeechHears, EndRunHears, EndPassHears, SeparatorHears DEF RNext
<1>. QED BY <1>1, <1>2

\* The inductive invariant of what is heard: at every stage of a pass, what
\* its items and its run so far would sound like is what the segments
\* rendered so far were due, but for those that an engine failed to render.
THEOREM HearsAlways == RSpec => [](RInv /\ Hears)
<1>1. RInit => RInv /\ Hears
  BY RInvInit, HearsInit
<1>2. RInv /\ Hears /\ [RNext]_rvars => (RInv /\ Hears)'
  BY RInvStep, HearsStep DEF RInv
<1>. QED BY <1>1, <1>2, PTL DEF RSpec

\* What is played is what was written (protocol.py:286-301,
\* announcer.py:297-308): for every content, every repeat count and every
\* way the engines may answer, each word is heard once per copy and each
\* effect as often as its tag and the budget say, in the order of the
\* content, in as many copies as fit, but for what an engine failed to render.
THEOREM WhatIsPlayedWasWritten == RSpec => []HeardAsWritten
<1>1. Hears => HeardAsWritten
  BY WrittenIs DEF Hears
<1>. QED BY <1>1, HearsAlways, PTL

-----------------------------------------------------------------------------
(* Each segment is rendered once.                                          *)

\* The segments of the run for which one of its decodings is.
Ahead(s) ==
    /\ first # 0
    /\ s \in first..Len(segments)
    /\ \A j \in first..s : segments[j].kind = "effect"
    /\ NameOf[content[segments[s].at]] \in DOMAIN decoded

Asked(s) == \E k \in DOMAIN asked : s \in asked[k]

\* What each stage says of the requests made so far.
Requests ==
    /\ asked \in Seq(SUBSET Int)
    /\ \A i, j \in DOMAIN asked : i # j => asked[i] \cap asked[j] = {}
    /\ pc \in {"split", "plain"} => asked = <<>>
    /\ pc = "plainSeparator" => asked = <<DOMAIN segments>>
    /\ pc = "pass" =>
          /\ \A s : Asked(s) <=> s \in 1..(next - 1) \/ Ahead(s)
          /\ first # 0 /\ segments[first].kind = "effect" =>
                \A s \in first..(next - 1) : Ahead(s)
    /\ pc = "separator" => \A s : Asked(s) <=> s \in DOMAIN segments
    /\ pc = "done" => \A s \in DOMAIN segments : Asked(s)

\* A request for segments for which none was made.
LEMMA AskMore ==
    ASSUME Requests, NEW S \in SUBSET Int, asked' = Append(asked, S),
           \A s \in S : ~Asked(s)
    PROVE  /\ asked' \in Seq(SUBSET Int)
           /\ \A i, j \in DOMAIN asked' : i # j => asked'[i] \cap asked'[j] = {}
           /\ \A s : Asked(s)' <=> Asked(s) \/ s \in S
<1>1. asked \in Seq(SUBSET Int) /\ Len(asked) \in Nat /\ DOMAIN asked = 1..Len(asked)
      /\ \A i, j \in DOMAIN asked : i # j => asked[i] \cap asked[j] = {}
  BY DEF Requests
<1>2. /\ asked' \in Seq(SUBSET Int)
      /\ DOMAIN asked' = 1..(Len(asked) + 1) /\ asked'[Len(asked) + 1] = S
      /\ \A k \in 1..Len(asked) : asked'[k] = asked[k]
  BY <1>1
<1>3. \A k \in 1..Len(asked) : asked[k] \cap S = {}
  BY <1>1 DEF Asked
<1>4. ASSUME NEW i \in DOMAIN asked', NEW j \in DOMAIN asked', i # j
      PROVE  asked'[i] \cap asked'[j] = {}
  <2>1. CASE i = Len(asked) + 1
    <3>1. j \in 1..Len(asked)
      BY <1>1, <1>2, <1>4, <2>1
    <3>. QED BY <1>2, <1>3, <2>1, <3>1
  <2>2. CASE j = Len(asked) + 1
    <3>1. i \in 1..Len(asked)
      BY <1>1, <1>2, <1>4, <2>2
    <3>. QED BY <1>2, <1>3, <2>2, <3>1
  <2>3. CASE i \in 1..Len(asked) /\ j \in 1..Len(asked)
    BY <1>1, <1>2, <1>4, <2>3
  <2>. QED BY <1>1, <1>2, <2>1, <2>2, <2>3
<1>5. ASSUME NEW s PROVE Asked(s)' <=> Asked(s) \/ s \in S
  <2>1. Asked(s)' <=> \E k \in 1..(Len(asked) + 1) : s \in asked'[k]
    BY <1>2 DEF Asked
  <2>2. Asked(s) <=> \E k \in 1..Len(asked) : s \in asked[k]
    BY <1>1 DEF Asked
  <2>. QED BY <1>1, <1>2, <2>1, <2>2
<1>. QED BY <1>2, <1>4, <1>5

\* Without a request, those made stay as they are.
LEMMA AskNoMore ==
    ASSUME Requests, asked' = asked
    PROVE  /\ asked' \in Seq(SUBSET Int)
           /\ \A i, j \in DOMAIN asked' : i # j => asked'[i] \cap asked'[j] = {}
           /\ \A s : Asked(s)' <=> Asked(s)
BY DEF Requests, Asked

\* A plain message: one request for its body, one for the separator.
LEMMA PlainRequests ==
    ASSUME TypeInv, Stages, Hears, Requests,
           PlainNothing \/ PlainBody \/ PlainSeparator \/ PlainRaises
    PROVE  Requests'
<1>0. segments' = segments /\ Len(segments) \in Nat /\ DOMAIN segments = 1..Len(segments)
      /\ DOMAIN segments \in SUBSET Int
  BY DEF PlainNothing, PlainBody, PlainSeparator, PlainRaises, TypeInv
<1>1. CASE PlainNothing
  <2>1. pc = "plain" /\ Spoken = <<>> /\ pc' = "done" /\ asked' = asked
    BY <1>1 DEF PlainNothing
  <2>2. Ready /\ AllSpeech
    BY <2>1, IsReady DEF Stages
  <2>3. segments = <<>>
    BY <2>1, <2>2, PlainIs
  <2>. QED BY <1>0, <2>1, <2>3, AskNoMore DEF Requests
<1>2. CASE pc = "plain" /\ asked' = Append(asked, DOMAIN segments)
           /\ pc' \in {"plainSeparator", "done"}
  <2>1. asked = <<>> /\ \A s : ~Asked(s)
    BY <1>2 DEF Requests, Asked
  <2>2. asked' = <<DOMAIN segments>>
    BY <1>2, <2>1
  <2>. QED BY <1>0, <1>2, <2>1, <2>2, AskMore DEF Requests
<1>3. CASE pc = "plainSeparator" /\ asked' = Append(asked, {0}) /\ pc' = "done"
  <2>1. asked = <<DOMAIN segments>>
    BY <1>3 DEF Requests
  <2>2. \A s : Asked(s) <=> s \in DOMAIN segments
    BY <2>1 DEF Asked
  <2>3. {0} \in SUBSET Int /\ \A s \in {0} : ~Asked(s)
    BY <1>0, <2>2
  <2>4. \A s : Asked(s)' <=> Asked(s) \/ s \in {0}
    BY <1>3, <2>3, AskMore
  <2>. QED BY <1>0, <1>3, <2>2, <2>3, <2>4, AskMore DEF Requests
<1>. QED BY <1>1, <1>2, <1>3 DEF PlainBody, PlainSeparator, PlainRaises

\* A decoding is for the effects of the run that bear its name.
LEMMA DecodeRequests ==
    ASSUME TypeInv, Stages, Requests, DecodeEffect
    PROVE  Requests'
<1> DEFINE N(s) == NameOf[content[segments[s].at]]
           E(s) == s \in Open..Len(segments) /\ \A j \in Open..s : segments[j].kind = "effect"
<1>0. /\ next \in 1..Len(segments) /\ first \in 0..Len(segments) /\ Len(segments) \in Nat
      /\ Open \in 1..Len(segments) /\ Open <= next
      /\ segments[next].kind = "effect" /\ segments[Open].kind = "effect" /\ pc = "pass"
      /\ first = 0 => DOMAIN decoded = {}
  BY RunKind DEF DecodeEffect, TypeInv, Stages
<1>1. /\ EffectName \notin DOMAIN decoded /\ DOMAIN decoded' = DOMAIN decoded \cup {EffectName}
      /\ asked' = Append(asked, Sharing) /\ first' = Open
      /\ content' = content /\ segments' = segments /\ next' = next /\ pc' = "pass"
  BY <1>0 DEF DecodeEffect, inputs
<1>2. \A s : s \in Sharing <=> E(s) /\ N(s) = EffectName
  BY DEF Sharing
<1>3. \A s : Ahead(s) <=> first # 0 /\ E(s) /\ N(s) \in DOMAIN decoded
  BY DEF Ahead, Open
<1>4. \A s : Ahead(s)' <=> E(s) /\ N(s) \in DOMAIN decoded \cup {EffectName}
  BY <1>0, <1>1 DEF Ahead
<1>5. \A s : Asked(s) <=> s \in 1..(next - 1) \/ Ahead(s)
  BY <1>0 DEF Requests
<1>6. \A s : s \in Open..(next - 1) => Ahead(s)
  BY <1>0 DEF Requests, Open
<1>7. Sharing \in SUBSET Int
  BY <1>0 DEF Sharing
<1> HIDE DEF E, N
<1>8. \A s \in Sharing : ~Asked(s)
  <2>1. \A s \in Sharing : ~Ahead(s) /\ s \in Open..Len(segments)
    BY <1>1, <1>2, <1>3 DEF E
  <2>2. \A s \in Sharing : s \notin 1..(next - 1)
    BY <1>0, <1>6, <2>1
  <2>. QED BY <1>5, <2>1, <2>2
<1>9. /\ asked' \in Seq(SUBSET Int)
      /\ \A i, j \in DOMAIN asked' : i # j => asked'[i] \cap asked'[j] = {}
      /\ \A s : Asked(s)' <=> Asked(s) \/ s \in Sharing
  BY <1>1, <1>7, <1>8, AskMore
<1>10. \A s : Asked(s)' <=> s \in 1..(next - 1) \/ Ahead(s)'
  BY <1>0, <1>2, <1>3, <1>4, <1>5, <1>9
<1>11. \A s \in Open..(next - 1) : Ahead(s)'
  BY <1>3, <1>4, <1>6
<1>. QED BY <1>1, <1>9, <1>10, <1>11 DEF Requests

\* An effect is clipped from a decoding made for it.
LEMMA ClipRequests ==
    ASSUME TypeInv, Stages, Requests, AddClip
    PROVE  Requests'
<1>0. /\ next \in 1..Len(segments) /\ Len(segments) \in Nat /\ pc = "pass"
      /\ segments[next].kind = "effect" /\ EffectName \in DOMAIN decoded
      /\ first # 0 /\ first <= next /\ first \in 1..Len(segments)
      /\ segments[first].kind = "effect"
  BY RunKind DEF AddClip, TypeInv, Stages, Open
<1>1. UNCHANGED <<content, segments, first, decoded, asked, pc>> /\ next' = next + 1
  BY DEF AddClip, inputs
<1>2. \A s : Ahead(s)' <=> Ahead(s)
  BY <1>1 DEF Ahead
<1>3. \A s \in first..(next - 1) : Ahead(s)
  BY <1>0 DEF Requests
<1>4. Ahead(next)
  <2>1. \A j \in first..next : segments[j].kind = "effect"
    <3>1. \A j \in first..(next - 1) : segments[j].kind = "effect"
      BY <1>0, <1>3 DEF Ahead
    <3>. QED BY <1>0, <3>1
  <2>. QED BY <1>0, <2>1 DEF Ahead, EffectName
<1>5. \A s : Asked(s) <=> s \in 1..(next - 1) \/ Ahead(s)
  BY <1>0 DEF Requests
<1>6. \A s : Asked(s)' <=> s \in 1..(next' - 1) \/ Ahead(s)'
  <2>1. \A s : Asked(s)' <=> Asked(s)
    BY <1>1, AskNoMore
  <2>2. \A s : s \in 1..(next' - 1) <=> s \in 1..(next - 1) \/ s = next
    BY <1>0, <1>1
  <2>. QED BY <1>2, <1>4, <1>5, <2>1, <2>2
<1>7. \A s \in first..(next' - 1) : Ahead(s)'
  <2>1. \A s \in first..(next' - 1) : s \in first..(next - 1) \/ s = next
    BY <1>0, <1>1
  <2>. QED BY <1>2, <1>3, <1>4, <2>1
<1>. QED BY <1>0, <1>1, <1>6, <1>7, AskNoMore DEF Requests

\* A speech run is rendered in the order of its segments.
LEMMA SpeechRequests ==
    ASSUME TypeInv, Stages, Requests, RenderSpeech
    PROVE  Requests'
<1>0. /\ next \in 1..Len(segments) /\ Len(segments) \in Nat /\ pc = "pass" /\ pc' = "pass"
      /\ IsSpeech(segments, next) /\ (first # 0 => IsSpeech(segments, first))
      /\ asked' = Append(asked, next..RunTo) /\ next' = RunTo + 1 /\ first' = Open
      /\ UNCHANGED <<content, segments>>
  BY RenderSpeechIs DEF TypeInv, inputs
<1>1. RunTo \in next..Len(segments)
  BY <1>0, RunTextFacts DEF TypeInv
<1>2. \A s : ~Ahead(s)
  BY <1>0 DEF Ahead, IsSpeech, TypeInv
<1>3. IsSpeech(segments, Open) /\ Open \in 1..Len(segments)
  BY <1>0 DEF Open, TypeInv
<1>4. \A s : ~Ahead(s)'
  BY <1>0, <1>3 DEF Ahead, IsSpeech
<1>5. \A s : Asked(s) <=> s \in 1..(next - 1)
  BY <1>0, <1>2 DEF Requests
<1>6. next..RunTo \in SUBSET Int /\ \A s \in next..RunTo : ~Asked(s)
  BY <1>0, <1>1, <1>5
<1>7. \A s : Asked(s)' <=> Asked(s) \/ s \in next..RunTo
  BY <1>0, <1>6, AskMore
<1>8. \A s : Asked(s)' <=> s \in 1..(next' - 1)
  BY <1>0, <1>1, <1>5, <1>7
<1>9. ~(segments'[first'].kind = "effect")
  BY <1>0, <1>3 DEF IsSpeech
<1>. QED BY <1>0, <1>4, <1>6, <1>8, <1>9, AskMore DEF Requests

\* When a run ends, no decoding is left that was for a segment beyond it.
LEMMA EndRunRequests ==
    ASSUME TypeInv, Stages, Requests, EndRun
    PROVE  Requests'
<1>0. /\ pc = "pass" /\ first # 0 /\ first <= next
      /\ next <= Len(segments) => segments[next].kind # segments[first].kind
      /\ first' = 0 /\ UNCHANGED <<segments, next, asked, pc>>
      /\ next \in 1..(Len(segments) + 1) /\ first \in 1..Len(segments) /\ Len(segments) \in Nat
  BY DEF EndRun, TypeInv, Stages
<1>1. \A s : Ahead(s) => s \in 1..(next - 1)
  <2>1. SUFFICES ASSUME NEW s, Ahead(s), s \notin 1..(next - 1) PROVE FALSE
    OBVIOUS
  <2>2. s \in next..Len(segments) /\ \A j \in first..s : segments[j].kind = "effect"
    BY <1>0, <2>1 DEF Ahead
  <2>3. first \in first..s /\ next \in first..s /\ next <= Len(segments)
    BY <1>0, <2>2
  <2>. QED BY <1>0, <2>2, <2>3
<1>2. \A s : ~Ahead(s)'
  BY <1>0 DEF Ahead
<1>3. \A s : Asked(s)' <=> s \in 1..(next - 1)
  BY <1>0, <1>1, AskNoMore DEF Requests
<1>. QED BY <1>0, <1>2, <1>3, AskNoMore DEF Requests

\* At the end of the pass every segment was rendered, and the separator was not.
LEMMA RestRequests ==
    ASSUME TypeInv, Stages, Requests, EndPass \/ Separator \/ DecodeRaises \/ Split
    PROVE  Requests'
<1>0. Len(segments) \in Nat /\ DOMAIN segments = 1..Len(segments)
      /\ next \in 1..(Len(segments) + 1)
  BY DEF TypeInv
<1>1. CASE EndPass
  <2>1. /\ pc = "pass" /\ pc' \in {"done", "separator"} /\ first = 0 /\ next > Len(segments)
        /\ UNCHANGED <<segments, asked>>
    BY <1>1 DEF EndPass, PassOver
  <2>2. \A s : Asked(s) <=> s \in DOMAIN segments
    <3>1. next - 1 = Len(segments)
      BY <1>0, <2>1
    <3>. QED BY <1>0, <2>1, <3>1 DEF Requests, Ahead
  <2>. QED BY <2>1, <2>2, AskNoMore DEF Requests
<1>2. CASE Separator
  <2>1. pc = "separator" /\ pc' = "done" /\ asked' = Append(asked, {0}) /\ segments' = segments
    BY <1>2 DEF Separator
  <2>2. \A s : Asked(s) <=> s \in DOMAIN segments
    BY <2>1 DEF Requests
  <2>3. {0} \in SUBSET Int /\ \A s \in {0} : ~Asked(s)
    BY <1>0, <2>2
  <2>4. \A s : Asked(s)' <=> Asked(s) \/ s \in {0}
    BY <2>1, <2>3, AskMore
  <2>. QED BY <2>1, <2>2, <2>3, <2>4, AskMore DEF Requests
<1>3. CASE DecodeRaises
  <2>1. pc' = "raised" /\ asked' = asked
    BY <1>3 DEF DecodeRaises
  <2>. QED BY <2>1, AskNoMore DEF Requests
<1>4. CASE Split
  <2>1. pc = "split" /\ pc' \in {"plain", "pass"} /\ UNCHANGED <<next, first, asked>>
    BY <1>4 DEF Split, runVars
  <2>2. next = 1 /\ first = 0 /\ asked = <<>>
    BY <2>1 DEF Stages, Requests
  <2>3. \A s : ~Asked(s)' /\ ~Ahead(s)' /\ s \notin 1..(next' - 1)
    BY <2>1, <2>2 DEF Asked, Ahead
  <2>. QED BY <2>1, <2>2, <2>3, AskNoMore DEF Requests
<1>. QED BY <1>1, <1>2, <1>3, <1>4

\* No step renders a segment again.
LEMMA RequestsStep ==
    ASSUME TypeInv, Stages, Hears, Requests, [RNext]_rvars
    PROVE  Requests'
<1>1. CASE RNext
  BY <1>1, PlainRequests, DecodeRequests, ClipRequests, SpeechRequests, EndRunRequests,
     RestRequests DEF RNext
<1>2. CASE UNCHANGED rvars
  BY <1>2 DEF rvars, runVars, inputs, Requests, Asked, Ahead
<1>. QED BY <1>1, <1>2

\* Each segment, and the separator, is rendered at most once however often it
\* is played, and none is left out (announcer.py:305-308, 383-388): for every
\* content, every repeat count and every way the engines may answer.
THEOREM EachRenderedOnce == RSpec => []RenderedOnce
<1>1. RInit => RInv /\ Hears /\ Requests
  <2>1. RInit => Requests
    BY DEF RInit, Requests
  <2>. QED BY <2>1, RInvInit, HearsInit
<1>2. RInv /\ Hears /\ Requests /\ [RNext]_rvars => (RInv /\ Hears /\ Requests)'
  BY RInvStep, HearsStep, RequestsStep DEF RInv
<1>3. Requests => RenderedOnce
  <2>1. SUFFICES ASSUME Requests PROVE RenderedOnce
    OBVIOUS
  <2>2. ASSUME pc = "done", NEW s \in DOMAIN segments PROVE s \in UNION ToSet(asked)
    <3>1. PICK k \in DOMAIN asked : s \in asked[k]
      BY <2>1, <2>2 DEF Requests, Asked
    <3>. QED BY <3>1 DEF ToSet
  <2>. QED BY <2>1, <2>2 DEF RenderedOnce, Requests
<1>. QED BY <1>1, <1>2, <1>3, PTL DEF RSpec
=============================================================================
