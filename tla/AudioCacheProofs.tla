-------------------------- MODULE AudioCacheProofs --------------------------
(***************************************************************************)
(* Proofs about AudioCache, for every set of keys and sizes, every limit,  *)
(* time to live and sweep interval.                                        *)
(***************************************************************************)
EXTENDS AudioCache, Induction, TLAPS

Entries == [mtime : 0..MaxTime, whole : BOOLEAN]

\* The directory holds finitely many entries, and the worker a key while it
\* is at work.
DirInv ==
    /\ time \in 0..MaxTime
    /\ IsFiniteSet(Present)
    /\ Present \subseteq Names
    /\ \A f \in Present : files[f] \in Entries
    /\ want \in Keys \cup {None}
    /\ pc # "idle" => want \in Keys

\* What makes ServedWhole inductive: the temporary file about to be renamed
\* is whole.
WholeInv ==
    /\ ServedWhole
    /\ pc = "replace" /\ Tmp(want) \in Present => files[Tmp(want)].whole

Inv == DirInv /\ WholeInv

-----------------------------------------------------------------------------
(* Writing and deleting.                                                   *)

LEMMA NamesDiffer ==
    ASSUME NEW k \in Keys, NEW l \in Keys
    PROVE  /\ Raw(k) \in Names /\ Tmp(k) \in Names
           /\ Raw(k) # Tmp(l)
           /\ Raw(k) = Raw(l) => k = l
           /\ Tmp(k) = Tmp(l) => k = l
BY DEF Raw, Tmp, Names

LEMMA WithoutKeeps ==
    ASSUME DirInv, NEW f
    PROVE  /\ DOMAIN Without(f) = Present \ {f}
           /\ IsFiniteSet(DOMAIN Without(f))
           /\ \A g \in Present \ {f} : Without(f)[g] = files[g]
<1>1. IsFiniteSet(Present \ {f})
  BY FS_RemoveElement DEF DirInv
<1>. QED
  BY <1>1 DEF Without

LEMMA WithKeeps ==
    ASSUME DirInv, NEW f \in Names, NEW whole \in BOOLEAN
    PROVE  /\ DOMAIN With(f, whole) = Present \cup {f}
           /\ IsFiniteSet(DOMAIN With(f, whole))
           /\ With(f, whole)[f] = [mtime |-> time, whole |-> whole]
           /\ \A g \in Present : g # f => With(f, whole)[g] = files[g]
<1>1. IsFiniteSet(Present \cup {f})
  BY FS_AddElement DEF DirInv
<1>. QED
  BY <1>1 DEF With

LEMMA InvInit == AInit => Inv
<1> SUFFICES ASSUME AInit PROVE Inv
  OBVIOUS
<1>1. Present = {}
  BY DEF AInit, Present
<1>2. IsFiniteSet(Present)
  BY <1>1, FS_EmptySet
<1>. QED
  BY <1>1, <1>2, CacheAssumption, AnswersAssumption
     DEF AInit, Inv, DirInv, WholeInv, ServedWhole

\* Files that go, wherever the worker stands.
LEMMA DeletionKeeps ==
    ASSUME Inv, NEW f, files' \in {files, Without(f)},
           UNCHANGED <<time, want, served>>,
           pc' # "replace" \/ pc' = pc,
           pc' = pc \/ pc # "idle",
           pc' = "idle" => pc = "idle"
    PROVE  Inv'
<1>1. /\ Present' \subseteq Present
      /\ IsFiniteSet(Present')
      /\ \A g \in Present' : files'[g] = files[g]
  <2>1. CASE files' = files
    BY <2>1 DEF Present, Inv, DirInv
  <2>2. CASE files' = Without(f)
    BY <2>2, WithoutKeeps DEF Present, Inv
  <2>. QED BY <2>1, <2>2
<1>2. DirInv'
  BY <1>1 DEF Inv, DirInv
<1>3. ServedWhole'
  BY <1>1 DEF Inv, WholeInv, ServedWhole, Raw
<1>4. (pc = "replace" /\ Tmp(want) \in Present => files[Tmp(want)].whole)'
  BY <1>1 DEF Inv, WholeInv, Tmp
<1>. QED
  BY <1>2, <1>3, <1>4 DEF Inv, WholeInv

\* The worker moves on, or answers, and the directory stays as it is.
LEMMA AnswerKeeps ==
    ASSUME Inv, UNCHANGED <<time, files>>,
           want' \in Keys \cup {None}, pc' # "idle" => want' \in Keys,
           served' \in Keys \cup {None, Silence},
           pc' # "replace",
           pc' = "idle" /\ want' # None => served' \in {want', Silence}
    PROVE  Inv'
<1>1. served' # Torn
  BY AnswersAssumption DEF Silence, Torn
<1>. QED
  BY <1>1 DEF Inv, DirInv, WholeInv, ServedWhole, Raw, Tmp, Present

-----------------------------------------------------------------------------
LEMMA InvStep == Inv /\ [ANext]_avars => Inv'
<1> SUFFICES ASSUME Inv, [ANext]_avars PROVE Inv'
  OBVIOUS
<1>0. /\ served # Torn
      /\ want \in Keys \cup {None}
      /\ pc # "idle" => want \in Keys
  BY DEF Inv, DirInv, WholeInv, ServedWhole
<1>1. ASSUME NEW k \in Keys, Request(k) PROVE Inv'
  BY <1>0, <1>1, AnswerKeeps DEF Request
<1>2. CASE Hit
  <2>1. want \in Keys /\ files[Raw(want)].whole
    BY <1>0, <1>2 DEF Hit, Cached, Inv, WholeInv, ServedWhole
  <2>2. served' = want
    BY <1>2, <2>1 DEF Hit
  <2>. QED BY <1>0, <1>2, <2>1, <2>2, AnswerKeeps DEF Hit
<1>3. CASE Miss
  BY <1>3, DeletionKeeps DEF Miss
<1>4. CASE ExpiredMiss
  BY <1>4, DeletionKeeps DEF ExpiredMiss
<1>5. CASE SynthFails
  BY <1>0, <1>5, AnswerKeeps DEF SynthFails
<1>6. CASE SynthWorks
  BY <1>6, DeletionKeeps DEF SynthWorks
<1>7. CASE Write
  <2>1. want \in Keys /\ Tmp(want) \in Names
    BY <1>0, <1>7, NamesDiffer DEF Write
  <2>2. ASSUME NEW whole \in BOOLEAN, files' = With(Tmp(want), whole),
               pc' \in {"replace", "cleanup"}, pc' = "replace" => whole
        PROVE  Inv'
    <3>1. UNCHANGED <<time, want, served>>
      BY <1>7 DEF Write
    <3>2. /\ Present' = Present \cup {Tmp(want)}
          /\ IsFiniteSet(Present')
          /\ files'[Tmp(want)] = [mtime |-> time, whole |-> whole]
          /\ \A g \in Present : g # Tmp(want) => files'[g] = files[g]
      BY <2>1, <2>2, WithKeeps DEF Present, Inv
    <3>3. DirInv'
      BY <2>1, <3>1, <3>2 DEF Inv, DirInv, Entries
    <3>4. ASSUME NEW k \in Keys, Raw(k) \in Present' PROVE files'[Raw(k)].whole
      BY <2>1, <3>2, <3>4, NamesDiffer DEF Inv, WholeInv, ServedWhole
    <3>5. ServedWhole'
      BY <1>0, <2>2, <3>1, <3>4 DEF ServedWhole, Raw
    <3>6. pc' = "replace" => files'[Tmp(want)].whole
      BY <2>2, <3>2
    <3>. QED BY <3>1, <3>3, <3>5, <3>6 DEF Inv, WholeInv, Tmp
  <2>3. CASE files' = files /\ pc' = "cleanup"
    BY <1>7, <2>3, DeletionKeeps DEF Write
  <2>. QED BY <1>7, <2>2, <2>3 DEF Write
<1>8. CASE Replace
  <2>1. want \in Keys /\ Tmp(want) \in Names /\ Raw(want) \in Names /\ pc = "replace"
    BY <1>0, <1>8, NamesDiffer DEF Replace
  <2>2. CASE files' = files /\ pc' = "cleanup"
    BY <1>8, <2>2, DeletionKeeps DEF Replace
  <2>3. ASSUME Tmp(want) \in Present,
               files' = [g \in (Present \ {Tmp(want)}) \cup {Raw(want)} |->
                            IF g = Raw(want) THEN files[Tmp(want)] ELSE files[g]],
               pc' = "maybeSweep"
        PROVE  Inv'
    <3>1. UNCHANGED <<time, want, served>>
      BY <1>8 DEF Replace
    <3>2. IsFiniteSet((Present \ {Tmp(want)}) \cup {Raw(want)})
      <4>1. IsFiniteSet(Present \ {Tmp(want)})
        BY FS_RemoveElement DEF Inv, DirInv
      <4>. QED BY <4>1, FS_AddElement
    <3>3. /\ Present' = (Present \ {Tmp(want)}) \cup {Raw(want)}
          /\ files'[Raw(want)] = files[Tmp(want)]
          /\ \A g \in Present : g \notin {Raw(want), Tmp(want)} => files'[g] = files[g]
      BY <2>3 DEF Present
    <3>4. DirInv'
      BY <2>1, <2>3, <3>1, <3>2, <3>3 DEF Inv, DirInv
    <3>5. files[Tmp(want)].whole
      BY <2>1, <2>3 DEF Inv, WholeInv
    <3>6. ASSUME NEW k \in Keys, Raw(k) \in Present' PROVE files'[Raw(k)].whole
      <4>1. CASE k = want
        BY <3>3, <3>5, <4>1
      <4>2. CASE k # want
        BY <2>1, <3>3, <3>6, <4>2, NamesDiffer DEF Inv, WholeInv, ServedWhole
      <4>. QED BY <4>1, <4>2
    <3>7. ServedWhole'
      BY <1>0, <2>3, <3>1, <3>6 DEF ServedWhole, Raw
    <3>. QED BY <2>3, <3>4, <3>7 DEF Inv, WholeInv
  <2>. QED BY <1>8, <2>2, <2>3 DEF Replace
<1>9. CASE Cleanup
  BY <1>9, DeletionKeeps DEF Cleanup
<1>10. CASE NotDue
  BY <1>0, <1>10, AnswerKeeps DEF NotDue
<1>11. CASE ScanFails
  BY <1>0, <1>11, AnswerKeeps DEF ScanFails
<1>12. CASE Scan
  BY <1>12, DeletionKeeps DEF Scan
<1>13. ASSUME NEW f \in Names, DiscardExpired(f) PROVE Inv'
  BY <1>13, DeletionKeeps DEF DiscardExpired
<1>14. CASE DiscardOldest
  BY <1>14, DeletionKeeps DEF DiscardOldest
<1>15. CASE SweepEnds
  BY <1>0, <1>15, AnswerKeeps DEF SweepEnds
<1>16. CASE Tick
  <2>1. time' \in 0..MaxTime
    BY <1>16, CacheAssumption DEF Tick, Inv, DirInv
  <2>2. UNCHANGED <<files, pc, want, served>>
    BY <1>16 DEF Tick
  <2>. QED
    BY <2>1, <2>2 DEF Inv, DirInv, WholeInv, ServedWhole, Raw, Tmp, Present
<1>17. ASSUME NEW f \in Names, Wipe(f) PROVE Inv'
  BY <1>17, DeletionKeeps DEF Wipe
<1>18. CASE Restart
  BY <1>0, <1>18, AnswerKeeps DEF Restart
<1>19. CASE UNCHANGED avars
  BY <1>19 DEF avars, Inv, DirInv, WholeInv, ServedWhole, Raw, Tmp, Present
<1>. QED
  BY <1>1, <1>2, <1>3, <1>4, <1>5, <1>6, <1>7, <1>8, <1>9, <1>10, <1>11,
     <1>12, <1>13, <1>14, <1>15, <1>16, <1>17, <1>18, <1>19 DEF ANext, Worker

LEMMA InvAlways == ASpec => []Inv
BY InvInit, InvStep, PTL DEF ASpec

\* What is served is whole, whatever fails, dies or is deleted.
THEOREM AlwaysWhole == ASpec => []ServedWhole
BY InvAlways, PTL DEF Inv, WholeInv

-----------------------------------------------------------------------------
(* The sweep.  While it deletes, every file that it may delete is still    *)
(* ahead of it, by age, and none of those it has not reached is older than *)
(* one that it dropped.                                                    *)

Ahead == dead \cup {live[i] : i \in DOMAIN live}

SweepInv ==
    /\ dropped \in Int
    /\ swept => pc = "idle"
    /\ OldestGoFirst
    /\ pc = "discard" =>
          /\ live \in Seq(Names)
          /\ Present \ spared \subseteq Ahead
          /\ \A i \in DOMAIN live : live[i] \in Present => files[live[i]].mtime >= dropped
          /\ \A i, j \in DOMAIN live :
                i < j /\ live[i] \in Present /\ live[j] \in Present =>
                    files[live[i]].mtime <= files[live[j]].mtime

\* The orders of a finite set list all of it.
LEMMA ByAgeLists ==
    ASSUME NEW fs, IsFiniteSet(fs), NEW s \in ByAge(fs)
    PROVE  /\ s \in Seq(fs)
           /\ \A f \in fs : \E i \in DOMAIN s : s[i] = f
           /\ \A i, j \in DOMAIN s : i # j => s[i] # s[j]
           /\ \A i, j \in DOMAIN s : i < j => files[s[i]].mtime <= files[s[j]].mtime
<1>1. Cardinality(fs) \in Nat
  BY FS_CardinalityType
<1>2. s \in [1..Cardinality(fs) -> fs] /\ DOMAIN s = 1..Cardinality(fs)
  BY DEF ByAge
<1>3. s \in Injection(1..Cardinality(fs), fs)
  BY <1>2 DEF ByAge, Injection, IsInjective
<1>4. Cardinality(1..Cardinality(fs)) = Cardinality(fs)
  BY <1>1, FS_Interval
<1>5. s \in Surjection(1..Cardinality(fs), fs)
  BY <1>3, <1>4, FS_Injection
<1>6. \A f \in fs : \E i \in DOMAIN s : s[i] = f
  BY <1>2, <1>5 DEF Surjection
<1>7. s \in Seq(fs)
  BY <1>1, <1>2
<1>. QED
  BY <1>6, <1>7 DEF ByAge

\* A step after which no sweep is under way, and none has ended.
LEMMA NoSweep ==
    ASSUME dropped' \in Int, ~swept', pc' # "discard"
    PROVE  SweepInv'
BY DEF SweepInv, OldestGoFirst

\* Files that go meanwhile.
LEMMA DeletionSpares ==
    ASSUME Inv, SweepInv, NEW f, files' \in {files, Without(f)},
           UNCHANGED <<pc, sweepVars, swept>>
    PROVE  SweepInv'
<1>1. Present' \subseteq Present /\ \A g \in Present' : files'[g] = files[g]
  BY WithoutKeeps DEF Present, Inv
<1>2. UNCHANGED <<dead, live, spared, dropped, Ahead>>
  BY DEF sweepVars, Ahead
<1>3. OldestGoFirst'
  BY <1>1, <1>2 DEF SweepInv, OldestGoFirst
<1>. QED
  BY <1>1, <1>2, <1>3 DEF SweepInv

LEMMA SweepInit == AInit => SweepInv
BY DEF AInit, SweepInv, OldestGoFirst

LEMMA SweepStep == Inv /\ SweepInv /\ [ANext]_avars => SweepInv'
<1> SUFFICES ASSUME Inv, SweepInv, [ANext]_avars PROVE SweepInv'
  OBVIOUS
<1>0. /\ dropped \in Int
      /\ pc # "idle" => ~swept
      /\ \A f \in Present : files[f].mtime \in Nat
  BY CacheAssumption DEF Inv, DirInv, Entries, SweepInv
<1>1. ASSUME NEW k \in Keys, Request(k) PROVE SweepInv'
  BY <1>0, <1>1, NoSweep DEF Request, sweepVars
<1>2. CASE Hit
  <2>1. dropped' = dropped /\ swept' = swept /\ ~swept /\ pc' = "idle"
    BY <1>0, <1>2 DEF Hit, sweepVars
  <2>. QED BY <1>0, <2>1, NoSweep
<1>3. CASE Miss \/ ExpiredMiss \/ SynthFails \/ SynthWorks \/ Write \/ Replace \/ Cleanup \/ NotDue \/ ScanFails
  <2>1. dropped' = dropped /\ swept' = swept /\ ~swept /\ pc' # "discard"
    BY <1>0, <1>3 DEF Miss, ExpiredMiss, SynthFails, SynthWorks, Write, Replace,
                      Cleanup, NotDue, ScanFails, sweepVars
  <2>. QED BY <1>0, <2>1, NoSweep
<1>4. CASE Scan
  <2>1. PICK readable \in SUBSET Present :
               LET kept == {f \in readable : files[f].mtime >= cutoff'}
               IN  /\ dead' = readable \ kept
                   /\ live' \in ByAge(kept)
                   /\ spared' = Present \ readable
    BY <1>4 DEF Scan
  <2> DEFINE kept == {f \in readable : files[f].mtime >= cutoff'}
  <2>2. IsFiniteSet(kept)
    BY FS_Subset DEF Inv, DirInv
  <2>3. /\ live' \in Seq(kept)
        /\ \A f \in kept : \E i \in DOMAIN live' : live'[i] = f
        /\ \A i, j \in DOMAIN live' : i < j => files[live'[i]].mtime <= files[live'[j]].mtime
    BY <2>1, <2>2, ByAgeLists
  <2>4. kept \subseteq Present /\ kept \subseteq Names
    BY DEF Inv, DirInv
  <2>5. \A i \in DOMAIN live' : live'[i] \in kept
    BY <2>3
  <2>6. files' = files /\ Present' = Present /\ dropped' = -1 /\ ~swept'
    BY <1>0, <1>4 DEF Scan, Present
  <2>7. live' \in Seq(Names)
    BY <2>3, <2>4
  <2>8. (Present \ spared)' \subseteq Ahead'
    BY <2>1, <2>3, <2>6 DEF Ahead
  <2>9. \A i \in DOMAIN live' : files'[live'[i]].mtime >= dropped'
    BY <1>0, <2>4, <2>5, <2>6
  <2>. QED
    BY <2>3, <2>6, <2>7, <2>8, <2>9 DEF SweepInv, OldestGoFirst
<1>5. ASSUME NEW f \in Names, DiscardExpired(f) PROVE SweepInv'
  <2>1. /\ pc = "discard" /\ pc' = pc
        /\ UNCHANGED <<live, dropped, swept>>
        /\ dead' = dead \ {f}
        /\ \/ files' = Without(f) /\ spared' = spared
           \/ files' = files /\ spared' = spared \cup {f}
    BY <1>5 DEF DiscardExpired
  <2>2. Present' \subseteq Present /\ \A g \in Present' : files'[g] = files[g]
    BY <2>1, WithoutKeeps DEF Present, Inv
  <2>3. f \notin Present' \ spared'
    BY <2>1, WithoutKeeps DEF Present, Inv
  <2>4. (Present \ spared)' \subseteq Ahead'
    <3>1. (Present \ spared)' \subseteq (Present \ spared) \ {f}
      BY <2>1, <2>2, <2>3
    <3>2. Present \ spared \subseteq Ahead
      BY <2>1 DEF SweepInv
    <3>. QED BY <2>1, <3>1, <3>2 DEF Ahead
  <2>. QED
    BY <1>0, <2>1, <2>2, <2>4 DEF SweepInv, OldestGoFirst
<1>6. CASE DiscardOldest
  <2> DEFINE f == Head(live)
  <2>1. /\ pc = "discard" /\ pc' = pc
        /\ dead = {} /\ dead' = dead
        /\ live # <<>> /\ live' = Tail(live)
        /\ swept' = swept
        /\ \/ /\ files' = Without(f)
              /\ dropped' = IF f \in Present THEN files[f].mtime ELSE dropped
              /\ spared' = spared
           \/ files' = files /\ dropped' = dropped /\ spared' = spared \cup {f}
    BY <1>6 DEF DiscardOldest
  <2>2. /\ live \in Seq(Names)
        /\ Present \ spared \subseteq {live[i] : i \in DOMAIN live}
        /\ \A i \in DOMAIN live : live[i] \in Present => files[live[i]].mtime >= dropped
        /\ \A i, j \in DOMAIN live :
              i < j /\ live[i] \in Present /\ live[j] \in Present =>
                  files[live[i]].mtime <= files[live[j]].mtime
    BY <2>1 DEF SweepInv, Ahead
  <2>3. /\ live' \in Seq(Names)
        /\ f = live[1] /\ 1 \in DOMAIN live
        /\ \A i \in DOMAIN live' : i + 1 \in DOMAIN live /\ i + 1 > 1 /\ live'[i] = live[i + 1]
        /\ \A i \in DOMAIN live : i # 1 => i - 1 \in DOMAIN live' /\ live'[i - 1] = live[i]
        /\ DOMAIN live \subseteq Int /\ DOMAIN live' \subseteq Int
    BY <2>1, <2>2
  <2>4. Present' \subseteq Present /\ \A g \in Present' : files'[g] = files[g]
    BY <2>1, WithoutKeeps DEF Present, Inv
  <2>5. f \notin Present' \ spared'
    BY <2>1, WithoutKeeps DEF Present, Inv
  <2>6. (Present \ spared)' \subseteq Ahead'
    <3>1. ASSUME NEW g \in Present' \ spared' PROVE g \in Ahead'
      <4>1. g \in Present \ spared /\ g # f
        BY <2>1, <2>4, <2>5
      <4>2. PICK i \in DOMAIN live : live[i] = g
        BY <2>2, <4>1
      <4>3. i # 1
        BY <2>3, <4>1, <4>2
      <4>4. i - 1 \in DOMAIN live' /\ live'[i - 1] = g
        BY <2>3, <4>2, <4>3
      <4>. QED BY <4>4 DEF Ahead
    <3>. QED BY <3>1
  <2>7. dropped' \in Int
    BY <1>0, <2>1
  <2>8. ASSUME NEW i \in DOMAIN live', live'[i] \in Present'
        PROVE  files'[live'[i]].mtime >= dropped'
    <3>1. /\ i + 1 \in DOMAIN live /\ 1 < i + 1 /\ live'[i] = live[i + 1]
          /\ live[i + 1] \in Present /\ files'[live'[i]] = files[live[i + 1]]
      BY <2>3, <2>4, <2>8
    <3>2. files[live[i + 1]].mtime >= dropped
      BY <2>2, <3>1
    <3>3. f \in Present => files[f].mtime <= files[live[i + 1]].mtime
      BY <2>2, <2>3, <3>1
    <3>4. f \in Present => files[f].mtime \in Nat
      BY <1>0
    <3>5. files[live[i + 1]].mtime \in Nat
      BY <1>0, <3>1
    <3>. QED BY <2>1, <3>1, <3>2, <3>3, <3>4, <3>5
  <2>9. ASSUME NEW i \in DOMAIN live', NEW j \in DOMAIN live',
               i < j, live'[i] \in Present', live'[j] \in Present'
        PROVE  files'[live'[i]].mtime <= files'[live'[j]].mtime
    <3>1. i + 1 \in DOMAIN live /\ j + 1 \in DOMAIN live /\ i + 1 < j + 1
      BY <2>3, <2>9
    <3>2. live'[i] = live[i + 1] /\ live'[j] = live[j + 1]
      BY <2>3
    <3>3. live[i + 1] \in Present /\ live[j + 1] \in Present
      BY <2>4, <2>9, <3>2
    <3>4. files[live[i + 1]].mtime <= files[live[j + 1]].mtime
      BY <2>2, <3>1, <3>3
    <3>5. files'[live'[i]] = files[live[i + 1]] /\ files'[live'[j]] = files[live[j + 1]]
      BY <2>4, <2>9, <3>2
    <3>. QED BY <3>4, <3>5
  <2>. QED
    BY <1>0, <2>1, <2>3, <2>6, <2>7, <2>8, <2>9 DEF SweepInv, OldestGoFirst
<1>7. CASE SweepEnds
  <2>1. /\ pc = "discard" /\ pc' = "idle" /\ dead = {}
        /\ UNCHANGED <<files, spared, dropped>> /\ Present' = Present
    BY <1>7 DEF SweepEnds, Present
  <2>2. /\ Present \ spared \subseteq {live[i] : i \in DOMAIN live}
        /\ \A i \in DOMAIN live : live[i] \in Present => files[live[i]].mtime >= dropped
    BY <2>1 DEF SweepInv, Ahead
  <2>3. \A f \in Present \ spared : files[f].mtime >= dropped
    BY <2>2
  <2>. QED
    BY <1>0, <2>1, <2>3 DEF SweepInv, OldestGoFirst
<1>8. CASE Tick
  BY <1>8, DeletionSpares DEF Tick
<1>9. ASSUME NEW f \in Names, Wipe(f) PROVE SweepInv'
  BY <1>9, DeletionSpares DEF Wipe
<1>10. CASE Restart
  BY <1>10, NoSweep DEF Restart
<1>11. CASE UNCHANGED avars
  BY <1>11, DeletionSpares DEF avars
<1>. QED
  BY <1>1, <1>2, <1>3, <1>4, <1>5, <1>6, <1>7, <1>8, <1>9, <1>10, <1>11 DEF ANext, Worker

\* Whatever the sweep cannot read or delete, and whatever is deleted under it,
\* it never drops a file to make room while it leaves an older one (_sweep).
THEOREM AlwaysOldestFirst == ASpec => []OldestGoFirst
<1>1. ASpec => []SweepInv
  BY InvAlways, SweepInit, SweepStep, PTL DEF ASpec
<1>. QED
  BY <1>1, PTL DEF SweepInv

-----------------------------------------------------------------------------
(* The sizes.  The sweep's count is the size of the files it has listed    *)
(* and not dropped yet, so what it leaves fits when the count does.        *)

SumOf(fs) == MapThenSumSet(Bytes, fs)

LEMMA SizesAdd ==
    ASSUME NEW fs \in SUBSET Names, IsFiniteSet(fs)
    PROVE  /\ SumOf(fs) \in Nat
           /\ fs = {} => SumOf(fs) = 0
           /\ \A f \in fs : Bytes(f) \in Nat /\ SumOf(fs) = Bytes(f) + SumOf(fs \ {f})
           /\ \A gs \in SUBSET fs : SumOf(gs) <= SumOf(fs)
<1> DEFINE w == [f \in fs |-> Bytes(f)]
           Is(g, gs) == g = [s \in SUBSET gs |->
                                IF s = {} THEN 0
                                ELSE Bytes(CHOOSE x \in s : TRUE) + g[s \ {CHOOSE x \in s : TRUE}]]
           it(gs) == CHOOSE g : Is(g, gs)
<1>1. \A f \in fs : w[f] = Bytes(f) /\ Bytes(f) \in Nat
  BY CacheAssumption DEF Names, Bytes
<1>2. PICK g \in [SUBSET fs -> Nat] : Sums(g, fs, w)
  <2> HIDE DEF w
  <2>. QED BY <1>1, SumExists
<1>3. ASSUME NEW gs \in SUBSET fs PROVE SumOf(gs) = g[gs]
  <2>1. IsFiniteSet(gs)
    BY FS_Subset
  <2> DEFINE h == [s \in SUBSET gs |-> g[s]]
  <2>2. ASSUME NEW s \in SUBSET gs
        PROVE  h[s] = IF s = {} THEN 0
                      ELSE Bytes(CHOOSE x \in s : TRUE) + h[s \ {CHOOSE x \in s : TRUE}]
    <3> HIDE DEF w
    <3>. QED BY <1>1, <1>2 DEF Sums
  <2>3. Is(h, gs)
    <3> HIDE DEF w
    <3>. QED BY <2>2
  <2>4. Is(it(gs), gs)
    <3> HIDE DEF h
    <3>. QED BY <2>3
  <2>5. Sums(it(gs), gs, w)
    <3> HIDE DEF w, it
    <3>. QED BY <1>1, <2>4 DEF Sums
  <2>6. Sums(g, gs, w)
    BY <1>2 DEF Sums
  <2>7. it(gs)[gs] = g[gs]
    <3> HIDE DEF w, it
    <3>. QED BY <2>1, <2>5, <2>6, SumUnique
  <2>8. SumOf(gs) = it(gs)[gs]
    BY DEF SumOf, MapThenSumSet, MapThenFoldSet
  <2>. QED BY <2>7, <2>8
<1>4. /\ g[{}] = 0
      /\ \A f \in fs : g[fs] = w[f] + g[fs \ {f}]
      /\ \A gs \in SUBSET fs : g[gs] <= g[fs]
  <2> HIDE DEF w
  <2>1. fs \in SUBSET fs
    OBVIOUS
  <2>. QED BY <1>1, <1>2, <2>1, SumFacts
<1> HIDE DEF w
<1>. QED BY <1>1, <1>3, <1>4

Listed == {live[i] : i \in DOMAIN live}

FitInv ==
    /\ SweepFits
    /\ pc = "discard" =>
          /\ IsFiniteSet(Listed) /\ Listed \subseteq Names
          /\ \A i, j \in DOMAIN live : i # j => live[i] # live[j]
          /\ total = SumOf(Listed)
          /\ \A f \in Listed \cap Present : files[f].mtime >= cutoff

LEMMA NoFit ==
    ASSUME ~swept', pc' # "discard"
    PROVE  FitInv'
BY DEF FitInv, SweepFits

\* Files that go meanwhile.
LEMMA DeletionFits ==
    ASSUME Inv, FitInv, NEW f, files' \in {files, Without(f)},
           UNCHANGED <<pc, cutoff, live, total, spared, swept>>
    PROVE  FitInv'
<1>1. Present' \subseteq Present /\ \A g \in Present' : files'[g] = files[g]
  BY WithoutKeeps DEF Present, Inv
<1>2. Listed' = Listed
  BY DEF Listed
<1>3. SweepFits'
  <2> SUFFICES ASSUME swept
               PROVE  /\ SumOf(Present' \ spared) <= MaxBytes
                      /\ \A g \in Present' \ spared : files'[g].mtime >= cutoff
    BY DEF SweepFits, SumOf
  <2>1. /\ SumOf(Present \ spared) <= MaxBytes
        /\ \A g \in Present \ spared : files[g].mtime >= cutoff
    BY DEF FitInv, SweepFits, SumOf
  <2>2. IsFiniteSet(Present \ spared) /\ Present \ spared \in SUBSET Names
    BY FS_Subset DEF Inv, DirInv
  <2>3. Present' \ spared \in SUBSET (Present \ spared)
    BY <1>1
  <2>4. IsFiniteSet(Present' \ spared) /\ Present' \ spared \in SUBSET Names
    BY <2>2, <2>3, FS_Subset
  <2>5. SumOf(Present' \ spared) <= SumOf(Present \ spared)
    BY <2>2, <2>3, SizesAdd
  <2>6. SumOf(Present' \ spared) \in Nat /\ SumOf(Present \ spared) \in Nat
    BY <2>2, <2>4, SizesAdd
  <2>7. SumOf(Present' \ spared) <= MaxBytes
    BY <2>1, <2>5, <2>6, CacheAssumption
  <2>. QED BY <1>1, <2>1, <2>7
<1>. QED
  BY <1>1, <1>2, <1>3 DEF FitInv, SumOf

LEMMA FitInit == AInit => FitInv
BY DEF AInit, FitInv, SweepFits

LEMMA FitStep == Inv /\ SweepInv /\ FitInv /\ [ANext]_avars => FitInv'
<1> SUFFICES ASSUME Inv, SweepInv, FitInv, [ANext]_avars PROVE FitInv'
  OBVIOUS
<1>0. pc # "idle" => ~swept
  BY DEF SweepInv
<1>1. ASSUME NEW k \in Keys, Request(k) PROVE FitInv'
  BY <1>1, NoFit DEF Request
<1>2. CASE Hit \/ Miss \/ ExpiredMiss \/ SynthFails \/ SynthWorks
  BY <1>0, <1>2, NoFit DEF Hit, Miss, ExpiredMiss, SynthFails, SynthWorks
<1>3. CASE Write \/ Replace \/ Cleanup \/ NotDue \/ ScanFails
  <2>1. swept' = swept /\ ~swept /\ pc' # "discard"
    BY <1>0, <1>3 DEF Write, Replace, Cleanup, NotDue, ScanFails
  <2>. QED BY <2>1, NoFit
<1>4. CASE Scan
  <2>1. PICK readable \in SUBSET Present :
               LET kept == {f \in readable : files[f].mtime >= cutoff'}
               IN  /\ live' \in ByAge(kept)
                   /\ total' = MapThenSumSet(Bytes, kept)
    BY <1>4 DEF Scan
  <2> DEFINE kept == {f \in readable : files[f].mtime >= cutoff'}
  <2>2. IsFiniteSet(kept) /\ kept \subseteq Names
    BY FS_Subset DEF Inv, DirInv
  <2>3. /\ live' \in Seq(kept)
        /\ \A f \in kept : \E i \in DOMAIN live' : live'[i] = f
        /\ \A i, j \in DOMAIN live' : i # j => live'[i] # live'[j]
    <3>1. live' \in ByAge(kept)
      BY <2>1
    <3> HIDE DEF kept
    <3>. QED BY <2>2, <3>1, ByAgeLists
  <2>4. Listed' = kept
    <3> HIDE DEF kept
    <3>. QED BY <2>3 DEF Listed
  <2>5. files' = files /\ Present' = Present /\ ~swept'
    BY <1>0, <1>4 DEF Scan, Present
  <2>6. total' = SumOf(Listed')
    BY <2>1, <2>4 DEF SumOf
  <2>7. \A f \in Listed' : files'[f].mtime >= cutoff'
    BY <2>4, <2>5
  <2>. QED
    BY <2>2, <2>3, <2>4, <2>5, <2>6, <2>7 DEF FitInv, SweepFits, SumOf
<1>5. ASSUME NEW f \in Names, DiscardExpired(f) PROVE FitInv'
  <2>1. /\ files' \in {files, Without(f)} /\ ~swept'
        /\ UNCHANGED <<pc, cutoff, live, total, swept>>
    BY <1>0, <1>5 DEF DiscardExpired
  <2>2. Present' \subseteq Present /\ \A g \in Present' : files'[g] = files[g]
    BY <2>1, WithoutKeeps DEF Present, Inv
  <2>3. Listed' = Listed
    BY <2>1 DEF Listed
  <2>. QED
    BY <2>1, <2>2, <2>3 DEF FitInv, SweepFits, SumOf
<1>6. CASE DiscardOldest
  <2> DEFINE f == Head(live)
  <2>1. /\ pc = "discard" /\ pc' = pc /\ ~swept' /\ cutoff' = cutoff
        /\ live # <<>> /\ live' = Tail(live)
        /\ total' = total - Bytes(f)
        /\ files' \in {files, Without(f)}
    BY <1>0, <1>6 DEF DiscardOldest
  <2>2. /\ live \in Seq(Names) /\ IsFiniteSet(Listed) /\ Listed \subseteq Names
        /\ \A i, j \in DOMAIN live : i # j => live[i] # live[j]
        /\ total = SumOf(Listed)
        /\ \A g \in Listed \cap Present : files[g].mtime >= cutoff
    BY <2>1 DEF SweepInv, FitInv
  <2>3. /\ f = live[1] /\ 1 \in DOMAIN live
        /\ \A i \in DOMAIN live' : i + 1 \in DOMAIN live /\ i + 1 # 1 /\ live'[i] = live[i + 1]
        /\ \A i \in DOMAIN live : i # 1 => i - 1 \in DOMAIN live' /\ live'[i - 1] = live[i]
        /\ DOMAIN live \subseteq Int /\ DOMAIN live' \subseteq Int
    BY <2>1, <2>2
  <2>4. f \in Listed
    BY <2>3 DEF Listed
  <2>5. Listed' = Listed \ {f}
    <3>1. ASSUME NEW g \in Listed' PROVE g \in Listed \ {f}
      <4>1. PICK i \in DOMAIN live' : live'[i] = g
        BY DEF Listed
      <4>2. i + 1 \in DOMAIN live /\ i + 1 # 1 /\ g = live[i + 1]
        BY <2>3, <4>1
      <4>3. g # f
        BY <2>2, <2>3, <4>2
      <4>. QED BY <4>2, <4>3 DEF Listed
    <3>2. ASSUME NEW g \in Listed \ {f} PROVE g \in Listed'
      <4>1. PICK i \in DOMAIN live : live[i] = g
        BY DEF Listed
      <4>2. i # 1
        BY <2>3, <4>1, <3>2
      <4>. QED BY <2>3, <4>1, <4>2 DEF Listed
    <3>. QED BY <3>1, <3>2
  <2>6. IsFiniteSet(Listed \ {f})
    BY <2>2, FS_RemoveElement
  <2>7. total' = SumOf(Listed \ {f})
    <3>1. SumOf(Listed) = Bytes(f) + SumOf(Listed \ {f}) /\ Bytes(f) \in Nat
      BY <2>2, <2>4, SizesAdd
    <3>2. SumOf(Listed \ {f}) \in Nat
      BY <2>2, <2>6, SizesAdd
    <3> HIDE DEF f
    <3>. QED BY <2>1, <2>2, <3>1, <3>2
  <2>8. ASSUME NEW i \in DOMAIN live', NEW j \in DOMAIN live', i # j
        PROVE  live'[i] # live'[j]
    <3>1. i + 1 # j + 1
      BY <2>3, <2>8
    <3>. QED BY <2>2, <2>3, <3>1
  <2>9. Present' \subseteq Present /\ \A g \in Present' : files'[g] = files[g]
    BY <2>1, WithoutKeeps DEF Present, Inv
  <2>10. \A g \in Listed' \cap Present' : files'[g].mtime >= cutoff'
    BY <2>1, <2>2, <2>5, <2>9
  <2>. QED
    <3> HIDE DEF f
    <3>. QED BY <2>1, <2>2, <2>5, <2>6, <2>7, <2>8, <2>10 DEF FitInv, SweepFits, SumOf
<1>7. CASE SweepEnds
  <2>1. /\ pc = "discard" /\ pc' = "idle" /\ dead = {} /\ (live = <<>> \/ total <= MaxBytes)
        /\ UNCHANGED <<files, spared, cutoff>> /\ Present' = Present
    BY <1>7 DEF SweepEnds, Present, Enough
  <2>2. Present \ spared \in SUBSET Listed
    BY <2>1 DEF SweepInv, Ahead, Listed
  <2>3. /\ IsFiniteSet(Listed) /\ Listed \in SUBSET Names /\ total = SumOf(Listed)
        /\ \A f \in Listed \cap Present : files[f].mtime >= cutoff
    BY <2>1 DEF FitInv
  <2>4. SumOf(Present \ spared) <= SumOf(Listed) /\ SumOf(Listed) \in Nat
    BY <2>2, <2>3, SizesAdd
  <2>5. SumOf(Present \ spared) \in Nat
    <3>1. IsFiniteSet(Present \ spared) /\ Present \ spared \in SUBSET Names
      BY <2>2, <2>3, FS_Subset
    <3>. QED BY <3>1, SizesAdd
  <2>6. live = <<>> => SumOf(Listed) = 0
    <3>1. live = <<>> => Listed = {}
      BY DEF Listed
    <3>. QED BY <2>3, <3>1, SizesAdd
  <2>7. SumOf(Present \ spared) <= MaxBytes
    BY <2>1, <2>3, <2>4, <2>5, <2>6, CacheAssumption
  <2>8. \A f \in Present \ spared : files[f].mtime >= cutoff
    BY <2>2, <2>3
  <2>. QED
    BY <2>1, <2>7, <2>8 DEF FitInv, SweepFits, SumOf
<1>8. CASE Tick
  BY <1>8, DeletionFits DEF Tick, sweepVars
<1>9. ASSUME NEW f \in Names, Wipe(f) PROVE FitInv'
  BY <1>9, DeletionFits DEF Wipe, sweepVars
<1>10. CASE Restart
  BY <1>10, NoFit DEF Restart
<1>11. CASE UNCHANGED avars
  BY <1>11, DeletionFits DEF avars, sweepVars
<1>. QED
  BY <1>1, <1>2, <1>3, <1>4, <1>5, <1>6, <1>7, <1>8, <1>9, <1>10, <1>11 DEF ANext, Worker

\* After a sweep the directory fits its limit and nothing in it had expired,
\* but for the files that the sweep could not read or delete (_sweep).
THEOREM SweepAlwaysFits == ASpec => []SweepFits
<1>1. ASpec => [](SweepInv /\ FitInv)
  BY InvAlways, SweepInit, SweepStep, FitInit, FitStep, PTL DEF ASpec
<1>. QED
  BY <1>1, PTL DEF FitInv

-----------------------------------------------------------------------------
(* Types.                                                                  *)

LEMMA TypeStep ==
    ATypeOK /\ Inv /\ Inv' /\ SweepInv /\ SweepInv' /\ FitInv /\ FitInv' /\ [ANext]_avars => ATypeOK'
<1> SUFFICES ASSUME ATypeOK, Inv, Inv', SweepInv, SweepInv', FitInv, FitInv', [ANext]_avars
             PROVE  ATypeOK'
  OBVIOUS
<1>1. /\ time' \in 0..MaxTime
      /\ Present' \subseteq Names
      /\ \A f \in Present' : files'[f] \in [mtime : 0..MaxTime, whole : BOOLEAN]
      /\ want' \in Keys \cup {None}
  BY DEF Inv, DirInv, Entries
<1>2. /\ pc' = "discard" => live' \in Seq(Names) /\ total' \in Nat
      /\ time \in 0..MaxTime /\ 0 \in 0..MaxTime
      /\ Present \subseteq Names
      /\ \A f \in Present : files[f].mtime \in 0..MaxTime
  <2>1. ASSUME pc' = "discard" PROVE live' \in Seq(Names) /\ total' \in Nat
    <3>1. IsFiniteSet(Listed') /\ Listed' \in SUBSET Names /\ total' = SumOf(Listed')
      BY <2>1 DEF FitInv, SumOf
    <3>2. live' \in Seq(Names)
      BY <2>1 DEF SweepInv
    <3>. QED BY <3>1, <3>2, SizesAdd
  <2>. QED BY <2>1, CacheAssumption DEF Inv, DirInv, Entries
<1> DEFINE Sweep == /\ lastSweep' \in 0..MaxTime
                    /\ dead' \subseteq Names
                    /\ live' \in Seq(Names)
                    /\ total' \in Nat
                    /\ spared' \subseteq Names
                    /\ dropped' \in 0..MaxTime \cup {-1}
                    /\ swept' \in BOOLEAN
           Worked == /\ pc' \in {"idle", "read", "synth", "write", "replace", "cleanup",
                                 "maybeSweep", "discard"}
                     /\ served' \in Keys \cup {None, Silence, Torn}
<1>3. ASSUME UNCHANGED sweepVars, swept' \in {swept, FALSE} PROVE Sweep
  BY <1>3 DEF ATypeOK, sweepVars
<1>4. Sweep /\ Worked
  <2>1. ASSUME NEW k \in Keys, Request(k) PROVE Sweep /\ Worked
    BY <1>3, <2>1 DEF Request
  <2>2. CASE Hit \/ Miss \/ ExpiredMiss \/ SynthFails \/ SynthWorks
    BY <1>3, <2>2 DEF Hit, Miss, ExpiredMiss, SynthFails, SynthWorks, ATypeOK
  <2>3. CASE Write \/ Replace \/ Cleanup \/ NotDue
    BY <1>3, <2>3 DEF Write, Replace, Cleanup, NotDue, ATypeOK
  <2>4. CASE ScanFails
    BY <1>2, <2>4 DEF ScanFails, ATypeOK
  <2>5. CASE Scan
    <3>1. pc' = "discard" /\ lastSweep' = time /\ dropped' = -1 /\ UNCHANGED <<served, swept>>
      BY <2>5 DEF Scan
    <3>2. dead' \subseteq Present /\ spared' \subseteq Present
      BY <2>5 DEF Scan
    <3>. QED BY <1>2, <3>1, <3>2 DEF ATypeOK
  <2>6. ASSUME NEW f \in Names, DiscardExpired(f) PROVE Sweep /\ Worked
    BY <2>6 DEF DiscardExpired, ATypeOK
  <2>7. CASE DiscardOldest
    <3>1. /\ pc' = "discard" /\ UNCHANGED <<lastSweep, dead, served, swept>>
          /\ live # <<>> /\ live \in Seq(Names)
      BY <2>7 DEF DiscardOldest, ATypeOK
    <3>2. Head(live) \in Names
      BY <3>1
    <3>3. /\ spared' \in {spared, spared \cup {Head(live)}}
          /\ \/ dropped' = dropped
             \/ Head(live) \in Present /\ dropped' = files[Head(live)].mtime
      BY <2>7 DEF DiscardOldest
    <3>4. spared' \subseteq Names /\ dropped' \in 0..MaxTime \cup {-1}
      BY <1>2, <3>2, <3>3 DEF ATypeOK
    <3>. QED BY <1>2, <3>1, <3>4 DEF ATypeOK
  <2>8. CASE SweepEnds
    <3>1. want' = want /\ served' = want
      BY <2>8 DEF SweepEnds
    <3>. QED BY <1>1, <2>8, <3>1 DEF SweepEnds, ATypeOK
  <2>9. CASE Tick
    BY <1>3, <2>9 DEF Tick, ATypeOK
  <2>10. ASSUME NEW f \in Names, Wipe(f) PROVE Sweep /\ Worked
    BY <1>3, <2>10 DEF Wipe, ATypeOK
  <2>11. CASE Restart
    <3>1. /\ lastSweep' = 0 /\ dead' = {} /\ live' = <<>> /\ total' = 0
          /\ spared' = {} /\ dropped' = -1 /\ swept' = FALSE
          /\ pc' = "idle" /\ served' = None
      BY <2>11 DEF Restart
    <3>2. <<>> \in Seq(Names) /\ 0 \in Nat /\ -1 \in 0..MaxTime \cup {-1}
      OBVIOUS
    <3>3. Sweep
      BY <1>2, <3>1, <3>2
    <3>. QED BY <3>1, <3>3
  <2>12. CASE UNCHANGED avars
    BY <1>3, <2>12 DEF avars, ATypeOK
  <2>. QED
    BY <2>1, <2>2, <2>3, <2>4, <2>5, <2>6, <2>7, <2>8, <2>9, <2>10, <2>11, <2>12 DEF ANext, Worker
<1>. QED
  BY <1>1, <1>4 DEF ATypeOK, Present

LEMMA TypeInit == AInit => ATypeOK
<1> SUFFICES ASSUME AInit PROVE ATypeOK
  OBVIOUS
<1>1. Present = {}
  BY DEF AInit, Present
<1>2. <<>> \in Seq(Names) /\ 0 \in Nat /\ -1 \in 0..MaxTime \cup {-1} /\ 0 \in 0..MaxTime
  BY CacheAssumption
<1>3. /\ time = 0 /\ pc = "idle" /\ want = None /\ served = None /\ lastSweep = 0
      /\ dead = {} /\ live = <<>> /\ total = 0 /\ spared = {} /\ dropped = -1
      /\ swept = FALSE
  BY DEF AInit
<1>. QED BY <1>1, <1>2, <1>3 DEF ATypeOK

\* Every variable keeps its type; that the sweep's count never drops below
\* zero is that every file is counted before it is subtracted (_sweep).
THEOREM AlwaysTyped == ASpec => []ATypeOK
<1>1. ASpec => [](Inv /\ SweepInv /\ FitInv)
  BY InvAlways, SweepInit, SweepStep, FitInit, FitStep, PTL DEF ASpec
<1>. QED
  BY <1>1, TypeInit, TypeStep, PTL DEF ASpec
=============================================================================
