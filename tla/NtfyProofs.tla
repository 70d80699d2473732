----------------------------- MODULE NtfyProofs -----------------------------
(***************************************************************************)
(* Proofs about Ntfy, for every set of lines, every number of them and     *)
(* every limit of the back-off.                                            *)
(***************************************************************************)
EXTENDS Ntfy, Induction, TLAPS

\* What the stream has yet to hand over is, in order, exactly what is marked
\* as being on the wire; without a stream there is nothing.
WireInOrder ==
    /\ \A i \in DOMAIN feed : feed[i].fate = "wire" <=> \E k \in DOMAIN wire : wire[k] = i
    /\ \A k, l \in DOMAIN wire : k < l => wire[k] < wire[l]
    /\ link # "streaming" => wire = <<>>

Entries == [line : Lines, fate : Fates]
Feeds == Seq(Entries)

Asked == {Parse(l.body, l.tags) : l \in Lines}

\* Every envelope submitted was a line that is on the wire no more.
NInv ==
    /\ NTypeOK
    /\ WireInOrder
    /\ submitted \in Seq(Asked)
    /\ Len(submitted) + Len(wire) <= Len(feed)

-----------------------------------------------------------------------------
(* What the steps do to the feed.                                          *)

LEMMA BecomesType ==
    ASSUME NEW f \in Feeds, NEW i \in DOMAIN f, NEW fate \in Fates
    PROVE  /\ [f EXCEPT ![i].fate = fate] \in Feeds
           /\ Len([f EXCEPT ![i].fate = fate]) = Len(f)
           /\ DOMAIN [f EXCEPT ![i].fate = fate] = DOMAIN f
<1> DEFINE g == [f EXCEPT ![i].fate = fate]
<1>1. DOMAIN g = 1..Len(f) /\ Len(f) \in Nat
  BY DEF Feeds
<1>2. ASSUME NEW j \in 1..Len(f) PROVE g[j] \in Entries
  <2>1. f[j] \in Entries
    BY DEF Feeds
  <2>2. g[j] = IF j = i THEN [f[j] EXCEPT !.fate = fate] ELSE f[j]
    BY <1>1
  <2>. QED BY <2>1, <2>2 DEF Entries
<1>3. g \in [1..Len(f) -> Entries]
  BY <1>1, <1>2
<1>. QED
  BY <1>1, <1>3 DEF Feeds

LEMMA DroppedType ==
    ASSUME NEW f \in Feeds
    PROVE  /\ Dropped(f) \in Feeds
           /\ Len(Dropped(f)) = Len(f)
           /\ \A i \in DOMAIN Dropped(f) : Dropped(f)[i].fate # "wire"
<1>1. DOMAIN Dropped(f) = 1..Len(f) /\ Len(f) \in Nat
  BY DEF Feeds, Dropped
<1>2. ASSUME NEW i \in 1..Len(f)
      PROVE  /\ Dropped(f)[i] \in Entries
             /\ Dropped(f)[i].fate # "wire"
  <2>1. f[i] \in Entries
    BY DEF Feeds
  <2>2. Dropped(f)[i] = IF f[i].fate = "wire" THEN [f[i] EXCEPT !.fate = "lost"] ELSE f[i]
    BY DEF Dropped, Feeds
  <2>. QED BY <2>1, <2>2 DEF Entries, Fates
<1>3. Dropped(f) \in [1..Len(f) -> Entries]
  BY <1>1, <1>2 DEF Dropped
<1>. QED
  BY <1>1, <1>2, <1>3 DEF Feeds

LEMMA FeedType == NTypeOK => feed \in Feeds
BY DEF NTypeOK, Feeds, Entries

LEMMA LongerType ==
    ASSUME NTypeOK
    PROVE  Longer \in 1..MaxBackoff
BY NtfyAssumption DEF NTypeOK, Longer

LEMMA NInvInit == NInit => NInv
BY NtfyAssumption DEF NInit, NInv, NTypeOK, WireInOrder

-----------------------------------------------------------------------------
(* Every step keeps the invariant.                                         *)

LEMMA PublishKeeps == ASSUME NInv, NEW l \in Lines, Publish(l) PROVE NInv'
<1>1. /\ feed \in Seq(Entries) /\ wire \in Seq(1..Len(feed))
      /\ Len(feed) \in Nat /\ Len(wire) \in Nat
      /\ submitted \in Seq(Asked) /\ Len(submitted) \in Nat
      /\ Len(submitted) + Len(wire) <= Len(feed)
      /\ link \in {"connecting", "streaming", "waiting"} /\ backoff \in 1..MaxBackoff
  BY FeedType DEF NInv, NTypeOK, Feeds
<1>2. CASE link = "streaming"
  <2> DEFINE r == [line |-> l, fate |-> "wire"]
  <2>1. r \in Entries
    BY DEF Entries, Fates
  <2>2. /\ feed' = Append(feed, r) /\ wire' = Append(wire, Len(feed'))
        /\ UNCHANGED <<link, backoff, submitted>>
    BY <1>2 DEF Publish
  <2>3. /\ feed' \in Seq(Entries)
        /\ Len(feed') = Len(feed) + 1
        /\ feed'[Len(feed) + 1] = r
        /\ \A i \in 1..Len(feed) : feed'[i] = feed[i]
    BY <1>1, <2>1, <2>2
  <2>4. /\ wire' \in Seq(1..Len(feed'))
        /\ Len(wire') = Len(wire) + 1
        /\ wire'[Len(wire) + 1] = Len(feed) + 1
        /\ \A k \in 1..Len(wire) : wire'[k] = wire[k] /\ wire[k] \in 1..Len(feed)
    <3>1. /\ wire \in Seq(1..(Len(feed) + 1))
          /\ \A k \in 1..Len(wire) : wire[k] \in 1..Len(feed)
      BY <1>1
    <3>2. Len(feed') \in 1..(Len(feed) + 1)
      BY <1>1, <2>3
    <3>. QED BY <1>1, <2>2, <2>3, <3>1, <3>2
  <2>5. DOMAIN feed = 1..Len(feed) /\ DOMAIN feed' = 1..(Len(feed) + 1)
        /\ DOMAIN wire = 1..Len(wire) /\ DOMAIN wire' = 1..(Len(wire) + 1)
    BY <1>1, <2>3, <2>4
  <2>6. r.fate = "wire"
    OBVIOUS
  <2> HIDE DEF r
  <2> DEFINE n == Len(wire)
             top == Len(feed) + 1
  <2>7. /\ n \in Nat /\ top \in Nat /\ Len(feed) = top - 1
        /\ DOMAIN wire = 1..n /\ DOMAIN wire' = 1..(n + 1)
        /\ wire'[n + 1] = top
        /\ \A k \in 1..n : wire'[k] = wire[k] /\ wire[k] \in 1..(top - 1)
    BY <1>1, <2>4, <2>5
  <2> HIDE DEF n, top
  <2>8. \A k, m \in 1..(n + 1) : k < m => wire'[k] < wire'[m]
    <3> SUFFICES ASSUME NEW k \in 1..(n + 1), NEW m \in 1..(n + 1), k < m
                 PROVE  wire'[k] < wire'[m]
      OBVIOUS
    <3>1. k \in 1..n
      BY <2>7
    <3>2. CASE m = n + 1
      <4>1. wire'[k] \in 1..(top - 1) /\ wire'[m] = top
        BY <2>7, <3>1, <3>2
      <4>. QED BY <2>7, <4>1
    <3>3. CASE m \in 1..n
      <4>1. wire[k] < wire[m]
        BY <2>7, <3>1, <3>3 DEF NInv, WireInOrder
      <4>. QED BY <2>7, <3>1, <3>3, <4>1
    <3>. QED BY <2>7, <3>2, <3>3
  <2>9. ASSUME NEW i \in 1..top
        PROVE  feed'[i].fate = "wire" <=> \E k \in 1..(n + 1) : wire'[k] = i
    <3>1. CASE i = top
      <4>1. feed'[i].fate = "wire"
        BY <2>3, <2>6, <3>1 DEF top
      <4>2. n + 1 \in 1..(n + 1) /\ wire'[n + 1] = i
        BY <2>7, <3>1
      <4>. QED BY <4>1, <4>2
    <3>2. CASE i \in 1..(top - 1)
      <4>1. feed[i].fate = "wire" <=> \E k \in 1..n : wire[k] = i
        BY <2>5, <2>7, <3>2 DEF NInv, WireInOrder
      <4>2. feed'[i] = feed[i]
        BY <2>3, <2>7, <3>2
      <4>3. ASSUME NEW k \in 1..n, wire[k] = i PROVE \E m \in 1..(n + 1) : wire'[m] = i
        <5>1. k \in 1..(n + 1) /\ wire'[k] = i
          BY <2>7, <4>3
        <5>. QED BY <5>1
      <4>4. ASSUME NEW k \in 1..(n + 1), wire'[k] = i PROVE \E m \in 1..n : wire[m] = i
        <5>1. k # n + 1
          BY <2>7, <3>2, <4>4
        <5>2. k \in 1..n /\ wire[k] = i
          BY <2>7, <4>4, <5>1
        <5>. QED BY <5>2
      <4>. QED BY <4>1, <4>2, <4>3, <4>4
    <3>. QED BY <2>7, <3>1, <3>2
  <2>10. DOMAIN feed' = 1..top
    BY <2>5 DEF top
  <2>11. WireInOrder'
    BY <1>2, <2>2, <2>7, <2>8, <2>9, <2>10 DEF WireInOrder
  <2>. QED
    BY <1>1, <1>2, <2>2, <2>3, <2>4, <2>11 DEF NInv, NTypeOK, Entries
<1>3. CASE link # "streaming"
  <2> DEFINE r == [line |-> l, fate |-> "missed"]
  <2>1. r \in Entries
    BY DEF Entries, Fates
  <2>2. /\ feed' = Append(feed, r) /\ wire' = wire
        /\ UNCHANGED <<link, backoff, submitted>>
    BY <1>3 DEF Publish
  <2>3. /\ feed' \in Seq(Entries)
        /\ Len(feed') = Len(feed) + 1
        /\ feed'[Len(feed) + 1] = r
        /\ \A i \in 1..Len(feed) : feed'[i] = feed[i]
    BY <1>1, <2>1, <2>2
  <2>4. wire = <<>> /\ \A i \in 1..Len(feed) : feed[i].fate # "wire"
    BY <1>1, <1>3 DEF NInv, WireInOrder
  <2>5. r.fate # "wire"
    OBVIOUS
  <2>6. \A i \in 1..(Len(feed) + 1) : feed'[i].fate # "wire"
    BY <1>1, <2>3, <2>4, <2>5
  <2>. QED
    BY <1>1, <1>3, <2>2, <2>3, <2>4, <2>6 DEF NInv, NTypeOK, WireInOrder, Entries
<1>. QED BY <1>2, <1>3

\* A stream that goes takes what it had with it.
LEMMA TearDownKeeps ==
    ASSUME NInv, NEW f \in Feeds, Len(f) = Len(feed),
           feed' = Dropped(f), wire' = <<>>,
           link' \in {"connecting", "waiting"}, backoff' \in 1..MaxBackoff,
           submitted' = submitted
    PROVE  NInv'
<1>1. /\ feed' \in Feeds /\ Len(feed') = Len(feed)
      /\ \A i \in DOMAIN feed' : feed'[i].fate # "wire"
  BY DroppedType
<1>2. /\ submitted \in Seq(Asked) /\ Len(submitted) \in Nat
      /\ Len(wire) \in Nat /\ Len(feed) \in Nat
      /\ Len(submitted) + Len(wire) <= Len(feed)
  BY DEF NInv, NTypeOK
<1>. QED
  BY <1>1, <1>2 DEF NInv, NTypeOK, WireInOrder, Feeds, Entries

\* The line that is handled was the first on the wire, and is there no more.
LEMMA HandledKeeps ==
    ASSUME NInv, NEW i \in DOMAIN feed, NEW fate \in Fates \ {"wire"},
           Reading(i), Becomes(i, fate), wire' = Tail(wire),
           link' = link, backoff' = backoff,
           submitted' \in Seq(Asked), Len(submitted') <= Len(submitted) + 1
    PROVE  NInv'
<1>1. /\ feed' \in Feeds /\ Len(feed') = Len(feed) /\ DOMAIN feed' = DOMAIN feed
      /\ Len(feed) \in Nat /\ DOMAIN feed = 1..Len(feed)
  BY BecomesType, FeedType DEF Becomes, Feeds, NInv
<1>2. /\ feed'[i].fate = fate
      /\ \A j \in DOMAIN feed : j # i => feed'[j] = feed[j]
  <2>1. feed \in Feeds /\ feed[i] \in Entries
    BY FeedType DEF NInv, Feeds
  <2>. QED BY <1>1, <2>1 DEF Becomes, Entries, Feeds
<1>3. /\ wire \in Seq(1..Len(feed)) /\ Len(wire) \in Nat /\ Len(wire) > 0
      /\ DOMAIN wire = 1..Len(wire) /\ wire[1] = i
      /\ \A k \in 1..Len(wire) : wire[k] \in 1..Len(feed)
  BY <1>1 DEF NInv, NTypeOK, Reading
<1>4. /\ wire' \in Seq(1..Len(feed)) /\ Len(wire') = Len(wire) - 1
      /\ DOMAIN wire' = 1..(Len(wire) - 1)
      /\ \A k \in 1..(Len(wire) - 1) : wire'[k] = wire[k + 1]
  BY <1>3
<1>5. \A k, l \in 1..Len(wire) : k < l => wire[k] < wire[l]
  BY <1>3 DEF NInv, WireInOrder
<1>6. \A k, l \in DOMAIN wire' : k < l => wire'[k] < wire'[l]
  BY <1>3, <1>4, <1>5
<1>7. ASSUME NEW k \in DOMAIN wire' PROVE wire'[k] # i
  <2>1. k + 1 \in 1..Len(wire) /\ 1 \in 1..Len(wire) /\ 1 < k + 1
    BY <1>3, <1>4
  <2>2. wire[1] < wire[k + 1]
    BY <1>5, <2>1
  <2>. QED BY <1>1, <1>3, <1>4, <2>1, <2>2
<1>8. ASSUME NEW j \in DOMAIN feed'
      PROVE  feed'[j].fate = "wire" <=> \E k \in DOMAIN wire' : wire'[k] = j
  <2>1. CASE j = i
    BY <1>2, <1>7, <2>1
  <2>2. CASE j # i
    <3>1. feed'[j].fate = "wire" <=> \E k \in DOMAIN wire : wire[k] = j
      BY <1>1, <1>2, <2>2 DEF NInv, WireInOrder
    <3>2. ASSUME NEW k \in DOMAIN wire, wire[k] = j
          PROVE  \E m \in DOMAIN wire' : wire'[m] = j
      <4>1. k \in 2..Len(wire)
        BY <1>3, <2>2, <3>2
      <4>2. k - 1 \in DOMAIN wire' /\ wire'[k - 1] = j
        BY <1>3, <1>4, <3>2, <4>1
      <4>. QED BY <4>2
    <3>3. ASSUME NEW m \in DOMAIN wire', wire'[m] = j
          PROVE  \E k \in DOMAIN wire : wire[k] = j
      <4>1. m + 1 \in DOMAIN wire /\ wire[m + 1] = j
        BY <1>3, <1>4, <3>3
      <4>. QED BY <4>1
    <3>. QED BY <3>1, <3>2, <3>3
  <2>. QED BY <2>1, <2>2
<1>9. link = "streaming" /\ link' = "streaming" /\ backoff' \in 1..MaxBackoff
  BY DEF Reading, NInv, NTypeOK
<1>10. Len(submitted') + Len(wire') <= Len(feed') /\ Len(submitted') <= Len(feed')
  <2>1. Len(submitted) \in Nat /\ Len(submitted') \in Nat
        /\ Len(submitted) + Len(wire) <= Len(feed)
    BY DEF NInv
  <2>. QED BY <1>1, <1>3, <1>4, <2>1
<1>11. WireInOrder'
  BY <1>6, <1>8, <1>9 DEF WireInOrder
<1>12. feed' \in Seq([line : Lines, fate : Fates]) /\ wire' \in Seq(DOMAIN feed')
  BY <1>1, <1>4 DEF Feeds, Entries
<1>. QED BY <1>9, <1>10, <1>11, <1>12 DEF NInv, NTypeOK

LEMMA NInvStep == NInv /\ [NNext]_nvars => NInv'
<1> SUFFICES ASSUME NInv, [NNext]_nvars PROVE NInv'
  OBVIOUS
<1>0. /\ feed \in Feeds /\ DOMAIN feed = 1..Len(feed) /\ Len(feed) \in Nat
      /\ backoff \in 1..MaxBackoff /\ MaxBackoff \in Nat \ {0}
      /\ submitted \in Seq(Asked) /\ Len(submitted) \in Nat
  BY FeedType, NtfyAssumption DEF NInv, NTypeOK, Feeds
<1>1. ASSUME NEW l \in Lines, Publish(l) PROVE NInv'
  BY <1>1, PublishKeeps
<1>2. ASSUME UNCHANGED <<feed, wire, submitted>>, link' \in {"connecting", "streaming", "waiting"},
             link # "streaming", backoff' \in 1..MaxBackoff
      PROVE  NInv'
  <2>1. wire = <<>>
    BY <1>2 DEF NInv, WireInOrder
  <2>. QED BY <1>2, <2>1 DEF NInv, NTypeOK, WireInOrder
<1>3. CASE Connect
  BY <1>0, <1>2, <1>3 DEF Connect
<1>4. CASE ConnectFails
  BY <1>0, <1>2, <1>4 DEF ConnectFails
<1>5. CASE Wait
  <2>1. Longer \in 1..MaxBackoff
    BY LongerType DEF NInv
  <2>. QED BY <1>2, <1>5, <2>1 DEF Wait
<1>6. CASE StreamEnds
  BY <1>0, <1>6, TearDownKeeps DEF StreamEnds, TearDown
<1>7. CASE Restart
  BY <1>0, <1>7, TearDownKeeps DEF Restart
<1>8. ASSUME NEW i \in DOMAIN feed, SkipLine(i) PROVE NInv'
  <2>1. "skipped" \in Fates \ {"wire"}
    BY DEF Fates
  <2>2. Reading(i) /\ Becomes(i, "skipped") /\ wire' = Tail(wire)
        /\ link' = link /\ backoff' = backoff /\ submitted' = submitted
    BY <1>8 DEF SkipLine
  <2>. QED BY <1>0, <2>1, <2>2, HandledKeeps
<1>9. ASSUME NEW i \in DOMAIN feed, LineRaises(i) PROVE NInv'
  <2> DEFINE f == [feed EXCEPT ![i].fate = "fatal"]
  <2>1. f \in Feeds /\ Len(f) = Len(feed)
    BY <1>0, BecomesType DEF Fates
  <2>2. feed' = Dropped(f) /\ wire' = <<>> /\ link' = "waiting"
        /\ backoff' = backoff /\ submitted' = submitted
    BY <1>9 DEF LineRaises, TearDown
  <2> HIDE DEF f
  <2>. QED BY <1>0, <2>1, <2>2, TearDownKeeps
<1>10. ASSUME NEW i \in DOMAIN feed, SubmitLine(i) PROVE NInv'
  <2> DEFINE e == Parse(feed[i].line.body, feed[i].line.tags)
  <2>1. "submitted" \in Fates \ {"wire"}
    BY DEF Fates
  <2>2. Reading(i) /\ Becomes(i, "submitted") /\ wire' = Tail(wire)
        /\ link' = link /\ backoff' = backoff /\ submitted' = Append(submitted, e)
    BY <1>10 DEF SubmitLine
  <2>3. e \in Asked
    <3>1. feed[i].line \in Lines
      <4>1. feed[i] \in Entries
        BY <1>0 DEF Feeds
      <4>. QED BY <4>1 DEF Entries
    <3>. QED BY <3>1 DEF Asked
  <2> HIDE DEF e
  <2>4. submitted' \in Seq(Asked) /\ Len(submitted') = Len(submitted) + 1
    BY <1>0, <2>2, <2>3
  <2>5. Len(submitted') <= Len(submitted) + 1
    BY <1>0, <2>4
  <2>. QED BY <2>1, <2>2, <2>4, <2>5, HandledKeeps
<1>11. CASE UNCHANGED nvars
  BY <1>11 DEF nvars, NInv, NTypeOK, WireInOrder
<1>. QED
  BY <1>1, <1>3, <1>4, <1>5, <1>6, <1>7, <1>8, <1>9, <1>10, <1>11 DEF NNext, HandleLine

LEMMA NInvAlways == NSpec => []NInv
BY NInvInit, NInvStep, PTL DEF NSpec

\* The listener's state keeps its types; in particular the wait between two
\* attempts never exceeds MAX_BACKOFF_S.
THEOREM ListenerTypes == NSpec => []NTypeOK
BY NInvAlways, PTL DEF NInv

\* No line is lost without a trace, handled twice or out of order: what is
\* left to handle is what was published on this stream and not yet handled.
THEOREM LinesKeepTheirOrder == NSpec => []WireInOrder
BY NInvAlways, PTL DEF NInv
-----------------------------------------------------------------------------
(* What parse makes of a line.                                             *)

LEMMA EmptySize == Size(<<>>) = 0
<1> DEFINE Is(g) == g = [s \in SUBSET {} |-> IF s = {} THEN 0 ELSE g[s \ {Max(s)}] + <<>>[Max(s)]]
           it == CHOOSE g : Is(g)
<1>1. Is([s \in SUBSET {} |-> 0])
  OBVIOUS
<1>2. Is(it)
  BY <1>1
<1>3. it[{}] = 0
  <2> HIDE DEF it
  <2>. QED BY <1>2
<1>4. Size(<<>>) = it[{}]
  BY DEF Size, FoldLeft, MapThenFoldSet
<1>. QED BY <1>3, <1>4

\* The fold of Size adds up natural numbers.
LEMMA SizeType ==
    ASSUME NEW text \in Seq(Nat)
    PROVE  Size(text) \in Nat
<1> DEFINE n == Len(text)
           F == [p \in Nat \X (1..n) |-> p[1] + text[p[2]]]
           Is(g) == g = [s \in SUBSET (1..n) |-> IF s = {} THEN 0 ELSE g[s \ {Max(s)}] + text[Max(s)]]
           it == CHOOSE g : Is(g)
<1>0. n \in Nat /\ DOMAIN text = 1..n
  OBVIOUS
<1>1. \A a \in Nat, i \in 1..n : F[<<a, i>>] = a + text[i] /\ F[<<a, i>>] \in Nat
  OBVIOUS
<1>2. PICK g \in [SUBSET (1..n) -> Nat] : LeftFolds(g, n, 0, F)
  <2> HIDE DEF F, n
  <2>1. 0 \in Nat /\ \A a \in Nat, i \in 1..n : F[<<a, i>>] \in Nat
    BY <1>1
  <2>. QED BY <1>0, <2>1, LeftFoldExists
<1>3. Is(g)
  <2>1. ASSUME NEW s \in SUBSET (1..n)
        PROVE g[s] = IF s = {} THEN 0 ELSE g[s \ {Max(s)}] + text[Max(s)]
    <3> HIDE DEF F
    <3>. QED BY <1>0, <1>1, <1>2, FirstOnes DEF LeftFolds
  <2> HIDE DEF F
  <2>. QED BY <2>1
<1>4. Is(it)
  BY <1>3
<1>5. Size(text) = it[1..n]
  BY <1>0 DEF Size, FoldLeft, MapThenFoldSet
<1>6. it[{}] = 0 /\ \A s \in SUBSET (1..n) : s # {} => it[s] = it[s \ {Max(s)}] + text[Max(s)]
  <2> HIDE DEF it
  <2>. QED BY <1>4
<1> HIDE DEF it, F, Is
<1> DEFINE T == {i \in Nat : i <= n => it[1..i] \in Nat}
<1>7. 0 \in T
  BY <1>6, <1>0, FirstOnes
<1>8. ASSUME NEW i \in Nat, i \in T PROVE i + 1 \in T
  <2>1. CASE i + 1 <= n
    <3>1. i + 1 \in 1..n /\ i <= n
      BY <1>0, <2>1
    <3>2. /\ 1..(i + 1) \in SUBSET (1..n) /\ 1..(i + 1) # {}
          /\ Max(1..(i + 1)) = i + 1 /\ (1..(i + 1)) \ {i + 1} = 1..i
      <4>1. i + 1 - 1 = i /\ i + 1 \in 0..n
        BY <3>1
      <4> HIDE DEF n
      <4>. QED BY <1>0, <3>1, <4>1, FirstOnes
    <3>3. it[1..(i + 1)] = it[1..i] + text[i + 1]
      BY <1>6, <3>2
    <3>. QED BY <1>8, <3>1, <3>3
  <2>2. CASE ~(i + 1 <= n)
    BY <2>2
  <2>. QED BY <2>1, <2>2
<1>9. Nat \subseteq T
  <2> HIDE DEF T
  <2>. QED BY <1>7, <1>8, NatInduct
<1>10. Size(text) \in Nat
  <2>1. n \in T
    BY <1>0, <1>9
  <2>. QED BY <1>0, <1>5, <2>1
<1>. QED BY <1>10


\* Truncate gives the longest beginning that the limit allows.
LEMMA TruncateCuts ==
    ASSUME NEW text \in Seq(Nat), MaxContent \in Nat
    PROVE  IsCut(Truncate(text), text)
<1> DEFINE n == Len(text)
           fits == {k \in 0..n : Size(SubSeq(text, 1, k)) <= MaxContent}
           last == CHOOSE k \in fits : \A m \in fits : m <= k
           at == {k + 1 : k \in fits}
<1>0. n \in Nat /\ Truncate(text) = SubSeq(text, 1, last)
  BY DEF Truncate
<1>1. 0 \in fits
  <2>1. SubSeq(text, 1, 0) = <<>>
    OBVIOUS
  <2>2. Size(SubSeq(text, 1, 0)) <= MaxContent
    <3>1. Size(SubSeq(text, 1, 0)) = 0
      BY <2>1, EmptySize
    <3>. QED BY <3>1
  <2>. QED BY <1>0, <2>2
<1>2. \E k \in fits : \A m \in fits : m <= k
  <2>1. at \in SUBSET (1..(n + 1)) /\ at # {}
    BY <1>0, <1>1
  <2>2. Max(at) \in at /\ \A i \in at : i <= Max(at)
    <3>1. n + 1 \in Nat
      BY <1>0
    <3> HIDE DEF at
    <3>. QED BY <2>1, <3>1, MaxOf
  <2>3. PICK k \in fits : Max(at) = k + 1
    BY <2>2
  <2>4. ASSUME NEW m \in fits PROVE m <= k
    <3>1. m + 1 <= k + 1
      BY <2>2, <2>3
    <3>. QED BY <3>1
  <2>. QED BY <2>4
<1>3. last \in fits /\ \A m \in fits : m <= last
  <2> HIDE DEF fits
  <2>. QED BY <1>2
<1> HIDE DEF last
<1> DEFINE cut == SubSeq(text, 1, last)
<1>4. last \in 0..n /\ Size(cut) <= MaxContent
  BY <1>3
<1>5. Len(cut) = last /\ \A i \in 1..last : cut[i] = text[i]
  BY <1>0, <1>4
<1>6. IsPrefix(cut, text)
  BY <1>0, <1>4, <1>5 DEF IsPrefix
<1>7. ASSUME cut # text PROVE Size(SubSeq(text, 1, last + 1)) > MaxContent
  <2>1. last # n
    <3> SUFFICES ASSUME last = n PROVE FALSE
      OBVIOUS
    <3>1. SubSeq(text, 1, n) = text
      OBVIOUS
    <3>. QED BY <1>7, <3>1
  <2>2. last + 1 \in 0..n /\ last + 1 \notin fits
    BY <1>0, <1>3, <1>4, <2>1
  <2>3. SubSeq(text, 1, last + 1) \in Seq(Nat)
    BY <1>0, <2>2
  <2>4. Size(SubSeq(text, 1, last + 1)) \in Nat
    BY <2>3, SizeType
  <2>. QED BY <2>2, <2>4
<1>. QED BY <1>0, <1>4, <1>5, <1>6, <1>7 DEF IsCut

\* One step of the fold of ParseTags.
Put(params, t) ==
    IF t.key = None THEN params
    ELSE [k \in DOMAIN params \cup {t.key} |-> IF k = t.key THEN t.value ELSE params[k]]

\* What the fold has made of the first i tags.
Holds(params, tags, i) ==
   /\ DOMAIN params = {tags[j].key : j \in 1..i} \ {None}
   /\ \A k \in DOMAIN params : \E j \in 1..i :
         /\ tags[j].key = k /\ params[k] = tags[j].value
         /\ \A m \in (j + 1)..i : tags[m].key # k

LEMMA PutHolds ==
    ASSUME NEW i \in Nat, NEW tags, NEW params, Holds(params, tags, i)
    PROVE  Holds(Put(params, tags[i + 1]), tags, i + 1)
<1> DEFINE t == tags[i + 1]
           now == Put(params, t)
<1>1. i + 1 \in 1..(i + 1) /\ \A j \in 1..(i + 1) : j = i + 1 \/ j \in 1..i
  OBVIOUS
<1>2. CASE t.key = None
  <2>1. now = params
    BY <1>2 DEF Put
  <2>2. {tags[j].key : j \in 1..(i + 1)} \ {None} = {tags[j].key : j \in 1..i} \ {None}
    BY <1>1, <1>2
  <2>3. DOMAIN params = {tags[j].key : j \in 1..(i + 1)} \ {None}
    BY <2>2 DEF Holds
  <2>4. ASSUME NEW k \in DOMAIN params
        PROVE  \E j \in 1..(i + 1) : /\ tags[j].key = k /\ params[k] = tags[j].value
                                    /\ \A m \in (j + 1)..(i + 1) : tags[m].key # k
    <3>1. PICK j \in 1..i : /\ tags[j].key = k /\ params[k] = tags[j].value
                            /\ \A m \in (j + 1)..i : tags[m].key # k
      BY DEF Holds
    <3>2. k # None
      BY <2>3
    <3>3. \A m \in (j + 1)..(i + 1) : m \in (j + 1)..i \/ m = i + 1
      OBVIOUS
    <3>4. \A m \in (j + 1)..(i + 1) : tags[m].key # k
      BY <1>2, <3>1, <3>2, <3>3
    <3>5. j \in 1..(i + 1)
      OBVIOUS
    <3>. QED BY <3>1, <3>4, <3>5
  <2>5. Holds(params, tags, i + 1)
    <3> HIDE DEF t, now
    <3>. QED BY <2>3, <2>4 DEF Holds
  <2>. QED BY <2>1, <2>5
<1>3. CASE t.key # None
  <2>1. now = [k \in DOMAIN params \cup {t.key} |-> IF k = t.key THEN t.value ELSE params[k]]
    BY <1>3 DEF Put
  <2>2. {tags[j].key : j \in 1..(i + 1)} \ {None} = ({tags[j].key : j \in 1..i} \ {None}) \cup {t.key}
    BY <1>1, <1>3
  <2>3. DOMAIN now = {tags[j].key : j \in 1..(i + 1)} \ {None}
    BY <2>1, <2>2 DEF Holds
  <2>4. ASSUME NEW k \in DOMAIN now
        PROVE  \E j \in 1..(i + 1) : /\ tags[j].key = k /\ now[k] = tags[j].value
                                    /\ \A m \in (j + 1)..(i + 1) : tags[m].key # k
    <3>1. CASE k = t.key
      <4>1. now[k] = t.value
        BY <2>1, <3>1
      <4>2. (i + 1 + 1)..(i + 1) = {}
        OBVIOUS
      <4>. QED BY <1>1, <3>1, <4>1, <4>2
    <3>2. CASE k # t.key
      <4>0. k \in DOMAIN params /\ now[k] = params[k]
        BY <2>1, <3>2
      <4>1. PICK j \in 1..i : /\ tags[j].key = k /\ params[k] = tags[j].value
                              /\ \A m \in (j + 1)..i : tags[m].key # k
        BY <4>0 DEF Holds
      <4>3. \A m \in (j + 1)..(i + 1) : m \in (j + 1)..i \/ m = i + 1
        OBVIOUS
      <4>4. \A m \in (j + 1)..(i + 1) : tags[m].key # k
        BY <3>2, <4>1, <4>3
      <4>5. j \in 1..(i + 1)
        OBVIOUS
      <4>. QED BY <4>0, <4>1, <4>4, <4>5
    <3>. QED BY <3>1, <3>2
  <2>5. Holds(now, tags, i + 1)
    <3> HIDE DEF now
    <3>. QED BY <2>3, <2>4 DEF Holds
  <2>. QED BY <2>5
<1>. QED BY <1>2, <1>3

\* By induction over the tags, with the function that FoldLeft folds them by.
LEMMA TagsFold ==
    ASSUME NEW n \in Nat, NEW tags, DOMAIN tags = 1..n
    PROVE  Holds(ParseTags(tags), tags, n)
<1> DEFINE K == {tags[i].key : i \in 1..n}
           V == {tags[i].value : i \in 1..n} \cup {None}
           D == UNION {[s -> V] : s \in SUBSET K}
           F == [p \in D \X (1..n) |-> Put(p[1], tags[p[2]])]
           zero == [k \in {} |-> None]
           Is(g) == g = [s \in SUBSET (1..n) |-> IF s = {} THEN zero
                             ELSE IF tags[Max(s)].key = None THEN g[s \ {Max(s)}]
                                  ELSE [k \in DOMAIN g[s \ {Max(s)}] \cup {tags[Max(s)].key} |->
                                            IF k = tags[Max(s)].key THEN tags[Max(s)].value
                                            ELSE g[s \ {Max(s)}][k]]]
           it == CHOOSE g : Is(g)
<1>1. zero \in D
  <2>1. zero \in [{} -> V] /\ {} \in SUBSET K
    OBVIOUS
  <2>. QED BY <2>1
<1>2. \A a \in D, i \in 1..n : F[<<a, i>>] = Put(a, tags[i])
  <2> HIDE DEF D
  <2>. QED OBVIOUS
<1>3. ASSUME NEW a \in D, NEW i \in 1..n PROVE Put(a, tags[i]) \in D
  <2>1. PICK s \in SUBSET K : a \in [s -> V]
    OBVIOUS
  <2>2. CASE tags[i].key = None
    BY <2>2 DEF Put
  <2>3. CASE tags[i].key # None
    <3>1. s \cup {tags[i].key} \in SUBSET K
      BY <2>1
    <3>2. Put(a, tags[i]) \in [s \cup {tags[i].key} -> V]
      BY <2>1, <2>3 DEF Put
    <3>. QED BY <3>1, <3>2
  <2>. QED BY <2>2, <2>3
<1>4. PICK g \in [SUBSET (1..n) -> D] : LeftFolds(g, n, zero, F)
  <2> HIDE DEF F, D, zero
  <2>1. \A a \in D, i \in 1..n : F[<<a, i>>] \in D
    BY <1>2, <1>3
  <2>. QED BY <1>1, <2>1, LeftFoldExists
<1>5. Is(g)
  <2>1. ASSUME NEW s \in SUBSET (1..n), s # {}
        PROVE  g[s] = Put(g[s \ {Max(s)}], tags[Max(s)])
    <3>1. Max(s) \in 1..n /\ s \ {Max(s)} \in SUBSET (1..n)
      BY <2>1, FirstOnes
    <3> HIDE DEF F, D
    <3>. QED BY <2>1, <3>1, <1>2, <1>4 DEF LeftFolds
  <2>2. g[{}] = zero
    BY <1>4 DEF LeftFolds
  <2> HIDE DEF D
  <2>. QED BY <2>1, <2>2 DEF Put
<1>6. Is(it)
  BY <1>5
<1>7. ParseTags(tags) = it[1..n]
  BY DEF ParseTags, FoldLeft, MapThenFoldSet
<1>8. it[{}] = zero /\ \A s \in SUBSET (1..n) : s # {} => it[s] = Put(it[s \ {Max(s)}], tags[Max(s)])
  <2> HIDE DEF it, zero
  <2>. QED BY <1>6 DEF Put
<1>9. zero = [k \in {} |-> None]
  OBVIOUS
<1> HIDE DEF it, F, Is, D, zero
<1> DEFINE T == {i \in Nat : i <= n => Holds(it[1..i], tags, i)}
<1>10. 0 \in T
  <2>1. it[1..0] = zero /\ DOMAIN zero = {} /\ 1..0 = {}
    BY <1>8, <1>9, FirstOnes
  <2>. QED BY <2>1 DEF Holds
<1>11. ASSUME NEW i \in Nat, i \in T PROVE i + 1 \in T
  <2>1. CASE i + 1 <= n
    <3>1. i + 1 \in 1..n /\ i <= n
      BY <2>1
    <3>2. /\ 1..(i + 1) \in SUBSET (1..n) /\ 1..(i + 1) # {}
          /\ Max(1..(i + 1)) = i + 1 /\ (1..(i + 1)) \ {i + 1} = 1..i
      <4>1. i + 1 - 1 = i /\ i + 1 \in 0..n
        BY <3>1
      <4>. QED BY <3>1, <4>1, FirstOnes
    <3>3. it[1..(i + 1)] = Put(it[1..i], tags[i + 1])
      BY <1>8, <3>2
    <3>4. Holds(it[1..i], tags, i)
      BY <1>11, <3>1
    <3>5. Holds(Put(it[1..i], tags[i + 1]), tags, i + 1)
      BY <3>4, PutHolds
    <3>. QED BY <3>3, <3>5
  <2>2. CASE ~(i + 1 <= n)
    BY <2>2
  <2>. QED BY <2>1, <2>2
<1>12. Nat \subseteq T
  <2> HIDE DEF T
  <2>. QED BY <1>10, <1>11, NatInduct
<1>13. n \in T
  BY <1>12
<1>. QED BY <1>7, <1>13

\* Of two tags with one key the later counts.
LEMMA ParamIsLast ==
    ASSUME NEW n \in Nat, NEW tags, DOMAIN tags = 1..n, NEW k, k # None
    PROVE  /\ Param(ParseTags(tags), k) = LastOf(tags, k)
           /\ k \in DOMAIN ParseTags(tags) <=> \E i \in 1..n : tags[i].key = k
<1> DEFINE params == ParseTags(tags)
           at == {i \in DOMAIN tags : tags[i].key = k}
<1>1. Holds(params, tags, n)
  BY TagsFold
<1>2. k \in DOMAIN params <=> at # {}
  BY <1>1 DEF Holds
<1> HIDE DEF params
<1>3. Param(params, k) = LastOf(tags, k)
  <2>1. CASE k \notin DOMAIN params
    BY <1>2, <2>1 DEF Param, LastOf
  <2>2. CASE k \in DOMAIN params
    <3>1. PICK j \in 1..n : /\ tags[j].key = k /\ params[k] = tags[j].value
                            /\ \A m \in (j + 1)..n : tags[m].key # k
      BY <1>1, <2>2 DEF Holds
    <3>2. j \in at
      BY <3>1
    <3>3. ASSUME NEW m \in at PROVE m <= j
      <4>1. m \in 1..n /\ m \notin (j + 1)..n
        BY <3>1
      <4>. QED BY <4>1
    <3>4. \A i \in at : (\A m \in at : m <= i) => i = j
      <4>1. \A i \in at : i \in 1..n
        OBVIOUS
      <4> HIDE DEF at
      <4>. QED BY <3>2, <3>3, <4>1
    <3>5. (CHOOSE i \in at : \A m \in at : m <= i) = j
      <4> HIDE DEF at
      <4>. QED BY <3>2, <3>3, <3>4
    <3>6. LastOf(tags, k) = tags[j].value
      BY <3>2, <3>5 DEF LastOf
    <3>. QED BY <2>2, <3>1, <3>6 DEF Param
  <2>. QED BY <2>1, <2>2
<1>. QED BY <1>2, <1>3 DEF params

LEMMA ParseAsAsked ==
    ASSUME NEW l \in Lines, ~Raises(l), ~Skips(l)
    PROVE  IsAsAsked(Parse(l.body, l.tags), l.body, l.tags)
<1> DEFINE text == l.body
           tags == l.tags
           n == Len(tags)
           params == ParseTags(tags)
<1>1. l.kind \in {"blank", "junk", "bytes", "event", "message"}
      /\ (text = None \/ text \in Seq(Nat))
  BY LinesAssumption
<1>2. l.kind = "message"
  BY <1>1 DEF Raises, Skips
<1>3. text \in Seq(Nat) /\ tags # None
  <2>1. CASE NoBody(l)
    BY <1>1, <1>2, <2>1 DEF Raises, Skips, IsMessage, NoBody
  <2>2. CASE ~NoBody(l)
    BY <1>1, <1>2, <2>2 DEF Raises, Skips, IsMessage, Parses
  <2>. QED BY <2>1, <2>2
<1>4. /\ tags \in Seq(Range(tags))
      /\ \A t \in Range(tags) : t.key # None => t.value # None
  BY <1>3, LinesAssumption
<1>5. n \in Nat /\ DOMAIN tags = 1..n /\ \A i \in 1..n : tags[i] \in Range(tags)
  BY <1>4
<1>6. None \notin Keys /\ MaxContent \in Nat
  BY LinesAssumption, NtfyAssumption
<1>7. \A k \in Keys : /\ Param(params, k) = LastOf(tags, k)
                      /\ k \in DOMAIN params <=> \E i \in 1..n : tags[i].key = k
  BY <1>5, <1>6, ParamIsLast
<1>8. "replay" \in DOMAIN params <=> LastOf(tags, "replay") # None
  <2> DEFINE at == {i \in DOMAIN tags : tags[i].key = "replay"}
  <2>0. "replay" \in Keys
    BY DEF Keys
  <2>1. CASE "replay" \notin DOMAIN params
    BY <1>7, <2>0, <2>1 DEF Param
  <2>2. CASE "replay" \in DOMAIN params
    <3>1. Holds(params, tags, n)
      BY <1>5, TagsFold
    <3>2. PICK j \in 1..n : tags[j].key = "replay" /\ params["replay"] = tags[j].value
      BY <2>2, <3>1 DEF Holds
    <3>3. tags[j].value # None
      BY <1>4, <1>5, <1>6, <2>0, <3>2
    <3>. QED BY <1>7, <2>0, <2>2, <3>2, <3>3 DEF Param
  <2>. QED BY <2>1, <2>2
<1>9. IsCut(Truncate(text), text)
  BY <1>3, <1>6, TruncateCuts
<1>10. CASE LastOf(tags, "replay") # None
  <2>1. params["replay"] = LastOf(tags, "replay")
    BY <1>7, <1>8, <1>10 DEF Keys, Param
  <2>2. Parse(text, tags) = BuildRepeat(params["replay"])
    BY <1>8, <1>10 DEF Parse
  <2>. QED BY <1>10, <2>1, <2>2 DEF IsAsAsked, BuildRepeat
<1>11. CASE LastOf(tags, "replay") = None
  <2> DEFINE m == Parse(text, tags)
             v(k) == LastOf(tags, k)
  <2>1. m = BuildMsg(text, params)
    BY <1>8, <1>11 DEF Parse
  <2>2. \A k \in Keys : Param(params, k) = v(k)
    BY <1>7
  <2>3. /\ m.content = Truncate(text)
        /\ m.voice = CleanVoice(v("voice"))
        /\ m.repeat = CleanRepeatCount(v("repeat"))
        /\ m.speed = CleanScale(v("speed"), SpeedRange)
        /\ m.variation = CleanScale(v("variation"), VariationRange)
        /\ m.rhythm = CleanScale(v("rhythm"), RhythmRange)
        /\ m.prepare = CleanFlag(v("prepare"))
    <3> HIDE DEF params, v
    <3>. QED BY <2>1, <2>2 DEF BuildMsg, Keys
  <2> HIDE DEF m
  <2>4. m.voice = IF v("voice") \in Voices THEN v("voice") ELSE None
    BY <2>3 DEF CleanVoice
  <2>5. m.repeat = IF v("repeat") = None \/ IntOf[v("repeat")] = Unreadable THEN 1
                   ELSE Clamped(IntOf[v("repeat")], 1, MaxRepeat)
    BY <2>3 DEF CleanRepeatCount, Clamped
  <2>6. ASSUME NEW knob, NEW w, NEW bounds, knob = CleanScale(w, bounds)
        PROVE  KnobAsAsked(knob, w, bounds)
    BY <2>6 DEF CleanScale, KnobAsAsked, Clamped
  <2>7. /\ KnobAsAsked(m.speed, v("speed"), SpeedRange)
        /\ KnobAsAsked(m.variation, v("variation"), VariationRange)
        /\ KnobAsAsked(m.rhythm, v("rhythm"), RhythmRange)
    BY <2>3, <2>6
  <2>8. m.prepare = (v("prepare") \in On)
    BY <2>3 DEF CleanFlag
  <2>. QED BY <1>9, <1>11, <2>3, <2>4, <2>5, <2>7, <2>8 DEF IsAsAsked, m
<1>. QED BY <1>10, <1>11

-----------------------------------------------------------------------------
(* The lines of the feed that the envelopes stand for.                     *)

Submitted(f) == {i \in DOMAIN f : f[i].fate = "submitted"}

\* What is yet to be handled comes after everything that was submitted.
BeforeWire == \A i \in Submitted(feed), k \in DOMAIN wire : i < wire[k]

TInv == NInv /\ SubmittedAsAsked /\ BeforeWire

\* A step that submits nothing, and leaves the lines and what was submitted.
LEMMA TraceKept ==
    ASSUME SubmittedAsAsked, submitted' = submitted,
           DOMAIN feed \subseteq DOMAIN feed', Submitted(feed)' = Submitted(feed),
           \A i \in DOMAIN feed : feed'[i].line = feed[i].line
    PROVE  SubmittedAsAsked'
<1>1. PICK of \in [DOMAIN submitted -> DOMAIN feed] :
        /\ \A k, l \in DOMAIN submitted : k < l => of[k] < of[l]
        /\ Range(of) = Submitted(feed)
        /\ \A k \in DOMAIN submitted :
              IsAsAsked(submitted[k], feed[of[k]].line.body, feed[of[k]].line.tags)
  BY DEF SubmittedAsAsked, Submitted
<1>2. of \in [DOMAIN submitted -> DOMAIN feed']
  OBVIOUS
<1>3. \A k \in DOMAIN submitted : feed'[of[k]].line = feed[of[k]].line
  OBVIOUS
<1>4. Range(of) = {i \in DOMAIN feed' : feed'[i].fate = "submitted"}
  BY <1>1 DEF Submitted
<1>. QED BY <1>1, <1>2, <1>3, <1>4 DEF SubmittedAsAsked

LEMMA DroppedTrace ==
    ASSUME TInv, NEW f \in Feeds, DOMAIN f = DOMAIN feed,
           \A i \in DOMAIN feed : f[i].line = feed[i].line,
           Submitted(f) = Submitted(feed),
           feed' = Dropped(f), wire' = <<>>, submitted' = submitted
    PROVE  SubmittedAsAsked' /\ BeforeWire'
<1>1. DOMAIN feed' = DOMAIN f
  BY DEF Dropped
<1>2. ASSUME NEW i \in DOMAIN f
      PROVE  feed'[i].line = f[i].line /\ (feed'[i].fate = "submitted" <=> f[i].fate = "submitted")
  <2>1. feed'[i] = IF f[i].fate = "wire" THEN [f[i] EXCEPT !.fate = "lost"] ELSE f[i]
    BY DEF Dropped
  <2>2. f[i] \in Entries
    BY DEF Feeds
  <2>. QED BY <2>1, <2>2 DEF Entries
<1>3. Submitted(feed)' = Submitted(feed)
  BY <1>1, <1>2 DEF Submitted
<1>4. SubmittedAsAsked'
  BY <1>1, <1>2, <1>3, TraceKept DEF TInv
<1>. QED BY <1>4 DEF BeforeWire

LEMMA HandledTrace ==
    ASSUME TInv, NEW i \in DOMAIN feed, NEW fate \in Fates \ {"wire"},
           Reading(i), Becomes(i, fate), wire' = Tail(wire)
    PROVE  /\ DOMAIN feed' = DOMAIN feed
           /\ \A j \in DOMAIN feed : feed'[j].line = feed[j].line
           /\ Submitted(feed)' = IF fate = "submitted" THEN Submitted(feed) \cup {i}
                                 ELSE Submitted(feed)
           /\ \A j \in Submitted(feed) : j < i
           /\ BeforeWire'
<1>1. /\ feed \in Feeds /\ DOMAIN feed' = DOMAIN feed /\ DOMAIN feed = 1..Len(feed)
      /\ Len(feed) \in Nat
  BY BecomesType, FeedType DEF Becomes, Feeds, TInv, NInv
<1>2. ASSUME NEW j \in DOMAIN feed
      PROVE  feed'[j].line = feed[j].line /\ feed'[j].fate = IF j = i THEN fate ELSE feed[j].fate
  <2>1. feed[j] \in Entries
    BY <1>1 DEF Feeds
  <2>2. feed'[j] = IF j = i THEN [feed[j] EXCEPT !.fate = fate] ELSE feed[j]
    BY <1>1 DEF Becomes
  <2>. QED BY <2>1, <2>2 DEF Entries
<1>3. /\ wire \in Seq(1..Len(feed)) /\ Len(wire) \in Nat /\ Len(wire) > 0
      /\ DOMAIN wire = 1..Len(wire) /\ wire[1] = i
      /\ DOMAIN wire' = 1..(Len(wire) - 1)
      /\ \A k \in 1..(Len(wire) - 1) : wire'[k] = wire[k + 1]
  BY <1>1 DEF TInv, NInv, NTypeOK, Reading
<1>4. feed[i].fate = "wire"
  <2>1. 1 \in DOMAIN wire
    BY <1>3
  <2>. QED BY <1>3, <2>1 DEF TInv, NInv, WireInOrder
<1>5. Submitted(feed)' = IF fate = "submitted" THEN Submitted(feed) \cup {i} ELSE Submitted(feed)
  BY <1>1, <1>2, <1>4 DEF Submitted
<1>6. \A j \in Submitted(feed) : j < i
  <2>1. 1 \in DOMAIN wire
    BY <1>3
  <2>. QED BY <1>3, <2>1 DEF TInv, BeforeWire
<1>7. ASSUME NEW j \in Submitted(feed)', NEW k \in DOMAIN wire' PROVE j < wire'[k]
  <2>1. k + 1 \in DOMAIN wire /\ 1 \in DOMAIN wire /\ 1 < k + 1 /\ wire'[k] = wire[k + 1]
    BY <1>3
  <2>2. wire[1] < wire[k + 1]
    BY <2>1 DEF TInv, NInv, WireInOrder
  <2>3. j \in Submitted(feed) \/ j = i
    BY <1>5
  <2>4. CASE j = i
    BY <1>3, <2>1, <2>2, <2>4
  <2>5. CASE j \in Submitted(feed)
    BY <2>1, <2>5 DEF TInv, BeforeWire
  <2>. QED BY <2>3, <2>4, <2>5
<1>8. BeforeWire'
  BY <1>7 DEF BeforeWire
<1>. QED BY <1>1, <1>2, <1>5, <1>6, <1>8

LEMMA PublishTrace ==
    ASSUME TInv, NEW l \in Lines, Publish(l) PROVE SubmittedAsAsked' /\ BeforeWire'
<1> DEFINE n == Len(feed)
           fate == IF link = "streaming" THEN "wire" ELSE "missed"
           r == [line |-> l, fate |-> fate]
<1>1. /\ feed \in Seq(Entries) /\ n \in Nat /\ DOMAIN feed = 1..n
      /\ wire \in Seq(1..n) /\ Len(wire) \in Nat /\ DOMAIN wire = 1..Len(wire)
  BY FeedType DEF TInv, NInv, NTypeOK, Feeds
<1>2. feed' = Append(feed, r) /\ submitted' = submitted
  BY DEF Publish
<1>3. r.fate # "submitted"
  OBVIOUS
<1>4. /\ Len(feed') = n + 1 /\ DOMAIN feed' = 1..(n + 1) /\ feed'[n + 1] = r
      /\ \A i \in 1..n : feed'[i] = feed[i]
  <2>1. r \in Entries
    BY DEF Entries, Fates
  <2> HIDE DEF r
  <2>. QED BY <1>1, <1>2, <2>1
<1> HIDE DEF r
<1>5. Submitted(feed)' = Submitted(feed)
  <2>1. \A i \in 1..(n + 1) : i = n + 1 \/ i \in 1..n
    BY <1>1
  <2>2. \A i \in 1..n : i \in 1..(n + 1)
    BY <1>1
  <2>. QED BY <1>1, <1>3, <1>4, <2>1, <2>2 DEF Submitted
<1>6. SubmittedAsAsked'
  <2>1. DOMAIN feed \subseteq DOMAIN feed' /\ \A i \in DOMAIN feed : feed'[i].line = feed[i].line
    BY <1>1, <1>4
  <2>. QED BY <1>2, <1>5, <2>1, TraceKept DEF TInv
<1>7. ASSUME NEW i \in Submitted(feed), NEW k \in DOMAIN wire' PROVE i < wire'[k]
  <2>1. CASE link = "streaming"
    <3>1. wire' = Append(wire, n + 1)
      BY <1>4, <2>1 DEF Publish
    <3>2. i \in 1..n
      BY <1>1 DEF Submitted
    <3>3. CASE k \in 1..Len(wire)
      BY <1>1, <3>1, <3>3 DEF TInv, BeforeWire
    <3>4. CASE k = Len(wire) + 1
      BY <1>1, <3>1, <3>2, <3>4
    <3>. QED BY <1>1, <3>1, <3>3, <3>4
  <2>2. CASE link # "streaming"
    BY <2>2 DEF Publish, TInv, BeforeWire
  <2>. QED BY <2>1, <2>2
<1>8. BeforeWire'
  BY <1>5, <1>7 DEF BeforeWire
<1>. QED BY <1>6, <1>8

LEMMA SubmitTrace ==
    ASSUME TInv, NEW i \in DOMAIN feed, SubmitLine(i) PROVE SubmittedAsAsked' /\ BeforeWire'
<1> DEFINE l == feed[i].line
           e == Parse(l.body, l.tags)
           n == Len(submitted)
<1>1. Reading(i) /\ Becomes(i, "submitted") /\ wire' = Tail(wire) /\ submitted' = Append(submitted, e)
  BY DEF SubmitLine
<1>2. /\ DOMAIN feed' = DOMAIN feed
      /\ \A j \in DOMAIN feed : feed'[j].line = feed[j].line
      /\ Submitted(feed)' = Submitted(feed) \cup {i}
      /\ \A j \in Submitted(feed) : j < i
      /\ BeforeWire'
  <2>1. "submitted" \in Fates \ {"wire"}
    BY DEF Fates
  <2>. QED BY <1>1, <2>1, HandledTrace
<1>3. IsAsAsked(e, l.body, l.tags)
  <2>1. l \in Lines
    <3>1. feed \in Feeds
      BY FeedType DEF TInv, NInv
    <3>2. feed[i] \in Entries
      BY <3>1 DEF Feeds
    <3>. QED BY <3>2 DEF Entries
  <2>2. ~Raises(l) /\ ~Skips(l)
    BY DEF SubmitLine
  <2> HIDE DEF l
  <2>. QED BY <2>1, <2>2, ParseAsAsked
<1>4. submitted \in Seq(Asked) /\ n \in Nat /\ DOMAIN submitted = 1..n
  BY DEF TInv, NInv
<1>5. e \in Asked
  <2>1. feed \in Feeds
    BY FeedType DEF TInv, NInv
  <2>2. feed[i] \in Entries
    BY <2>1 DEF Feeds
  <2>. QED BY <2>2 DEF Entries, Asked
<1> HIDE DEF e, l
<1>6. /\ DOMAIN submitted' = 1..(n + 1) /\ submitted'[n + 1] = e
      /\ \A k \in 1..n : submitted'[k] = submitted[k]
  BY <1>1, <1>4, <1>5
<1>7. PICK of \in [DOMAIN submitted -> DOMAIN feed] :
        /\ \A k, m \in DOMAIN submitted : k < m => of[k] < of[m]
        /\ Range(of) = Submitted(feed)
        /\ \A k \in DOMAIN submitted :
              IsAsAsked(submitted[k], feed[of[k]].line.body, feed[of[k]].line.tags)
  BY DEF TInv, SubmittedAsAsked, Submitted
<1> HIDE DEF n
<1> DEFINE new == [k \in 1..(n + 1) |-> IF k = n + 1 THEN i ELSE of[k]]
<1>8. /\ \A k \in 1..(n + 1) : k = n + 1 \/ k \in 1..n
      /\ \A k \in 1..n : k \in 1..(n + 1) /\ k # n + 1 /\ k < n + 1
      /\ n + 1 \in 1..(n + 1)
  BY <1>4
<1>9. /\ new[n + 1] = i
      /\ \A k \in 1..n : new[k] = of[k] /\ of[k] \in Submitted(feed) /\ of[k] \in DOMAIN feed
  BY <1>4, <1>7, <1>8 DEF Range
<1>10. DOMAIN new = 1..(n + 1)
  OBVIOUS
<1> HIDE DEF new
<1>11. \A k \in 1..(n + 1) : new[k] \in DOMAIN feed
  BY <1>8, <1>9
<1>12. ASSUME NEW k \in 1..(n + 1), NEW m \in 1..(n + 1), k < m PROVE new[k] < new[m]
  <2>1. k \in 1..n
    BY <1>4, <1>12
  <2>2. CASE m = n + 1
    BY <1>2, <1>9, <2>1, <2>2
  <2>3. CASE m \in 1..n
    BY <1>4, <1>7, <1>9, <1>12, <2>1, <2>3
  <2>. QED BY <1>8, <2>2, <2>3
<1>13. Range(new) = Submitted(feed)'
  <2>1. Range(new) = {new[k] : k \in 1..(n + 1)} /\ Range(of) = {of[k] : k \in 1..n}
    BY <1>4, <1>10 DEF Range
  <2>. QED BY <1>2, <1>7, <1>8, <1>9, <2>1
<1>14. ASSUME NEW k \in 1..(n + 1)
       PROVE  IsAsAsked(submitted'[k], feed'[new[k]].line.body, feed'[new[k]].line.tags)
  <2>1. feed'[new[k]].line = feed[new[k]].line
    BY <1>2, <1>11
  <2>2. CASE k = n + 1
    BY <1>3, <1>6, <1>9, <2>1, <2>2 DEF l
  <2>3. CASE k \in 1..n
    BY <1>4, <1>6, <1>7, <1>9, <2>1, <2>3
  <2>. QED BY <1>8, <2>2, <2>3
<1>15. new \in [DOMAIN submitted' -> DOMAIN feed']
  <2>1. new = [k \in 1..(n + 1) |-> new[k]]
    BY DEF new
  <2>. QED BY <1>2, <1>6, <1>11, <2>1
<1>16. SubmittedAsAsked'
  BY <1>6, <1>12, <1>13, <1>14, <1>15 DEF SubmittedAsAsked, Submitted
<1>. QED BY <1>2, <1>16

LEMMA TInvStep == TInv /\ [NNext]_nvars => TInv'
<1> SUFFICES ASSUME TInv, [NNext]_nvars PROVE SubmittedAsAsked' /\ BeforeWire'
  BY NInvStep DEF TInv
<1>0. /\ feed \in Feeds /\ DOMAIN feed = 1..Len(feed) /\ Len(feed) \in Nat
  BY FeedType DEF TInv, NInv, NTypeOK, Feeds
<1>1. ASSUME NEW l \in Lines, Publish(l) PROVE SubmittedAsAsked' /\ BeforeWire'
  BY <1>1, PublishTrace
<1>2. ASSUME UNCHANGED <<feed, wire, submitted>> PROVE SubmittedAsAsked' /\ BeforeWire'
  BY <1>2 DEF TInv, SubmittedAsAsked, BeforeWire, Submitted
<1>3. CASE Connect \/ ConnectFails \/ Wait \/ UNCHANGED nvars
  BY <1>2, <1>3 DEF Connect, ConnectFails, Wait, nvars
<1>4. CASE StreamEnds \/ Restart
  BY <1>0, <1>4, DroppedTrace DEF StreamEnds, TearDown, Restart
<1>5. ASSUME NEW i \in DOMAIN feed, SkipLine(i) PROVE SubmittedAsAsked' /\ BeforeWire'
  <2>1. /\ "skipped" \in Fates \ {"wire"} /\ Reading(i) /\ Becomes(i, "skipped")
        /\ wire' = Tail(wire) /\ submitted' = submitted
    BY <1>5 DEF SkipLine, Fates
  <2>2. /\ DOMAIN feed' = DOMAIN feed
        /\ \A j \in DOMAIN feed : feed'[j].line = feed[j].line
        /\ Submitted(feed)' = Submitted(feed)
        /\ BeforeWire'
    BY <2>1, HandledTrace
  <2>. QED BY <2>1, <2>2, TraceKept DEF TInv
<1>6. ASSUME NEW i \in DOMAIN feed, LineRaises(i) PROVE SubmittedAsAsked' /\ BeforeWire'
  <2> DEFINE f == [feed EXCEPT ![i].fate = "fatal"]
  <2>1. f \in Feeds /\ DOMAIN f = DOMAIN feed
    BY <1>0, BecomesType DEF Fates
  <2>2. ASSUME NEW j \in DOMAIN feed
        PROVE  f[j].line = feed[j].line /\ f[j].fate = IF j = i THEN "fatal" ELSE feed[j].fate
    <3>1. feed[j] \in Entries
      BY <1>0 DEF Feeds
    <3>2. f[j] = IF j = i THEN [feed[j] EXCEPT !.fate = "fatal"] ELSE feed[j]
      BY <1>0
    <3>. QED BY <3>1, <3>2 DEF Entries
  <2>3. feed[i].fate = "wire"
    <3>1. 1 \in DOMAIN wire /\ wire[1] = i
      <4>1. Reading(i) /\ wire \in Seq(1..Len(feed))
        BY <1>0, <1>6 DEF LineRaises, TInv, NInv, NTypeOK
      <4>. QED BY <4>1 DEF Reading
    <3>. QED BY <3>1 DEF TInv, NInv, WireInOrder
  <2>4. feed' = Dropped(f) /\ wire' = <<>> /\ submitted' = submitted
    BY <1>6 DEF LineRaises, TearDown
  <2> HIDE DEF f
  <2>5. Submitted(f) = Submitted(feed)
    BY <2>1, <2>2, <2>3 DEF Submitted
  <2>. QED BY <2>1, <2>2, <2>4, <2>5, DroppedTrace
<1>7. ASSUME NEW i \in DOMAIN feed, SubmitLine(i) PROVE SubmittedAsAsked' /\ BeforeWire'
  BY <1>7, SubmitTrace
<1>. QED
  BY <1>1, <1>3, <1>4, <1>5, <1>6, <1>7 DEF NNext, HandleLine

LEMMA TInvInit == NInit => TInv
<1> SUFFICES ASSUME NInit PROVE SubmittedAsAsked /\ BeforeWire
  BY NInvInit DEF TInv
<1> DEFINE of == [k \in DOMAIN submitted |-> 1]
<1>1. DOMAIN submitted = {} /\ DOMAIN feed = {} /\ DOMAIN wire = {}
  BY DEF NInit
<1>2. of \in [DOMAIN submitted -> DOMAIN feed] /\ Range(of) = {}
  BY <1>1 DEF Range
<1> HIDE DEF of
<1>3. SubmittedAsAsked
  BY <1>1, <1>2 DEF SubmittedAsAsked
<1>. QED BY <1>1, <1>3 DEF BeforeWire

\* Whatever breaks and whenever the process restarts, the announcer is given
\* the lines that were published, in that order, each at most once, and each
\* as its body and tags ask (ntfy.py:44-68, protocol.py:215-258).
THEOREM EnvelopesAreAsAsked == NSpec => []SubmittedAsAsked
BY TInvInit, TInvStep, PTL DEF NSpec, TInv
=============================================================================
