----------------------------- MODULE AudioCache -----------------------------
(***************************************************************************)
(* The on-disk cache of synthesized audio (src/krzykacz/tts.py, CachedTts) *)
(* as the announcer's worker uses it: look the entry up, synthesize on a   *)
(* miss, write a temporary file, rename it, and now and then sweep the     *)
(* directory.  Every filesystem call may fail, the process may die between *)
(* any two of them, and anyone may delete files meanwhile.                 *)
(*                                                                         *)
(* One clock stands for the wall clock of the file times and for the       *)
(* monotonic clock of the sweeps; it counts from boot and never steps.     *)
(***************************************************************************)
EXTENDS Integers, Sequences, FiniteSetsExt

CONSTANTS
    Keys,           \* what is to be said, with everything that renders it
    SizeOf,         \* SizeOf[k]: the length of the audio of k
    MaxBytes,       \* cache_max_mb
    Ttl,            \* cache_ttl
    SweepInterval,  \* SWEEP_INTERVAL_S
    None,           \* no audio asked for, or none returned
    MaxTime         \* bound: the clock stops here

ASSUME CacheAssumption ==
    /\ SizeOf \in [Keys -> Nat \ {0}]
    /\ MaxBytes \in Nat
    /\ Ttl \in Nat \ {0}
    /\ SweepInterval \in Nat
    /\ MaxTime \in Nat
    /\ None \notin Keys

VARIABLES
    time,       \* the clock
    files,      \* the directory: file -> its mtime and whether it is whole
    pc,         \* where the worker stands in synthesize
    want,       \* the key being synthesized
    served,     \* what synthesize returned last
    lastSweep,  \* _last_sweep
    cutoff,     \* the sweep's limit: older files have expired
    dead,       \* the expired files the sweep has yet to delete
    live,       \* the others it has yet to consider, oldest first
    total,      \* the sweep's count of the live bytes
    spared,     \* auxiliary: files this sweep could not read or delete
    dropped,    \* auxiliary: newest mtime of a live file this sweep dropped, -1 if none
    swept       \* auxiliary: a sweep ran to its end since the last request

sweepVars == <<lastSweep, cutoff, dead, live, total, spared, dropped>>
avars == <<time, files, pc, want, served, sweepVars, swept>>

\* <key>.raw and <key>.tmp
Raw(k) == <<"raw", k>>
Tmp(k) == <<"tmp", k>>
Names  == {"raw", "tmp"} \X Keys
Bytes(f) == SizeOf[f[2]]

\* The answers that are no audio of a key: nothing, and a part of one.
Silence == "silence"
Torn    == "torn"

ASSUME AnswersAssumption == {Silence, Torn} \cap (Keys \cup {None}) = {}

Present == DOMAIN files
Without(f) == [g \in Present \ {f} |-> files[g]]
With(f, whole) ==
    [g \in Present \cup {f} |->
        IF g = f THEN [mtime |-> time, whole |-> whole] ELSE files[g]]

ATypeOK ==
    /\ time \in 0..MaxTime
    /\ Present \subseteq Names
    /\ \A f \in Present : files[f] \in [mtime : 0..MaxTime, whole : BOOLEAN]
    /\ pc \in {"idle", "read", "synth", "write", "replace", "cleanup",
               "maybeSweep", "discard"}
    /\ want \in Keys \cup {None}
    /\ served \in Keys \cup {None, Silence, Torn}
    /\ lastSweep \in 0..MaxTime
    /\ dead \subseteq Names
    /\ live \in Seq(Names)
    /\ total \in Nat
    /\ spared \subseteq Names
    /\ dropped \in 0..MaxTime \cup {-1}
    /\ swept \in BOOLEAN

AInit ==
    /\ time = 0
    /\ files = [f \in {} |-> 0]
    /\ pc = "idle"
    /\ want = None
    /\ served = None
    /\ lastSweep = 0
    /\ cutoff = 0
    /\ dead = {}
    /\ live = <<>>
    /\ total = 0
    /\ spared = {}
    /\ dropped = -1
    /\ swept = FALSE

-----------------------------------------------------------------------------
(* synthesize and _read.                                                   *)

Request(k) ==
    /\ pc = "idle"
    /\ want' = k
    /\ served' = None
    /\ swept' = FALSE
    /\ pc' = "read"
    /\ UNCHANGED <<time, files, sweepVars>>

Cached == Raw(want) \in Present
Expired == time - files[Raw(want)].mtime > Ttl

Hit ==
    /\ pc = "read"
    /\ Cached
    /\ ~Expired
    /\ served' = IF files[Raw(want)].whole THEN want ELSE Torn
    /\ pc' = "idle"
    /\ UNCHANGED <<time, files, want, sweepVars, swept>>

\* No such file, or the filesystem refuses: both are a miss.
Miss ==
    /\ pc = "read"
    /\ pc' = "synth"
    /\ UNCHANGED <<time, files, want, served, sweepVars, swept>>

ExpiredMiss ==
    /\ pc = "read"
    /\ Cached
    /\ Expired
    /\ files' = Without(Raw(want))
    /\ pc' = "synth"
    /\ UNCHANGED <<time, want, served, sweepVars, swept>>

\* The backend raises, or returns nothing: the caller is told, and nothing
\* is cached.
SynthFails ==
    /\ pc = "synth"
    /\ served' = Silence
    /\ pc' = "idle"
    /\ UNCHANGED <<time, files, want, sweepVars, swept>>

SynthWorks ==
    /\ pc = "synth"
    /\ pc' = "write"
    /\ UNCHANGED <<time, files, want, served, sweepVars, swept>>

-----------------------------------------------------------------------------
(* _write: a temporary file, renamed when it is complete.                  *)

\* Mutant: the entry is written in place.
WriteInPlace ==
    /\ pc = "write"
    /\ \/ files' = With(Raw(want), TRUE) /\ pc' = "maybeSweep"
       \/ files' = With(Raw(want), FALSE) /\ pc' = "cleanup"
    /\ UNCHANGED <<time, want, served, sweepVars, swept>>

Write ==
    /\ pc = "write"
    /\ \/ files' = With(Tmp(want), TRUE) /\ pc' = "replace"
       \/ files' \in {files, With(Tmp(want), FALSE)} /\ pc' = "cleanup"
    /\ UNCHANGED <<time, want, served, sweepVars, swept>>

\* os.replace keeps the time the temporary file was written.  The file may
\* have been deleted meanwhile, and the call may fail.
Replace ==
    /\ pc = "replace"
    /\ \/ /\ Tmp(want) \in Present
          /\ files' = [g \in (Present \ {Tmp(want)}) \cup {Raw(want)} |->
                          IF g = Raw(want) THEN files[Tmp(want)] ELSE files[g]]
          /\ pc' = "maybeSweep"
       \/ UNCHANGED files /\ pc' = "cleanup"
    /\ UNCHANGED <<time, want, served, sweepVars, swept>>

\* Mutant: an entry that cannot be written ends the request.
CleanupGivesUp ==
    /\ pc = "cleanup"
    /\ files' \in {files, Without(Tmp(want))}
    /\ served' = Silence
    /\ pc' = "idle"
    /\ UNCHANGED <<time, want, sweepVars, swept>>

Cleanup ==
    /\ pc = "cleanup"
    /\ files' \in {files, Without(Tmp(want))}
    /\ pc' = "maybeSweep"
    /\ UNCHANGED <<time, want, served, sweepVars, swept>>

-----------------------------------------------------------------------------
(* _maybe_sweep and _sweep.                                                *)

Due == time - lastSweep >= SweepInterval

NotDue ==
    /\ pc = "maybeSweep"
    /\ ~Due
    /\ served' = want
    /\ pc' = "idle"
    /\ UNCHANGED <<time, files, want, sweepVars, swept>>

\* The directory cannot be listed: the sweep is over, and counts as done.
ScanFails ==
    /\ pc = "maybeSweep"
    /\ Due
    /\ lastSweep' = time
    /\ served' = want
    /\ pc' = "idle"
    /\ UNCHANGED <<time, files, want, cutoff, dead, live, total, spared,
                   dropped, swept>>

\* Mutant: the newest files come first.
NewestFirst(fs) == {s \in [1..Cardinality(fs) -> fs] :
    /\ \A i, j \in DOMAIN s : i # j => s[i] # s[j]
    /\ \A i, j \in DOMAIN s : i < j => files[s[i]].mtime >= files[s[j]].mtime}

\* The orders sorted() may leave files in: by age, ties as they were listed.
ByAge(fs) == {s \in [1..Cardinality(fs) -> fs] :
    /\ \A i, j \in DOMAIN s : i # j => s[i] # s[j]
    /\ \A i, j \in DOMAIN s : i < j => files[s[i]].mtime <= files[s[j]].mtime}

\* Files that cannot be read are passed over.
Scan ==
    /\ pc = "maybeSweep"
    /\ Due
    /\ lastSweep' = time
    /\ cutoff' = time - Ttl
    /\ \E readable \in SUBSET Present :
          LET kept == {f \in readable : files[f].mtime >= cutoff'}
          IN  /\ dead' = readable \ kept
              /\ live' \in ByAge(kept)
              /\ total' = MapThenSumSet(Bytes, kept)
              /\ spared' = Present \ readable
    /\ dropped' = -1
    /\ pc' = "discard"
    /\ UNCHANGED <<time, files, want, served, swept>>

DiscardExpired(f) ==
    /\ pc = "discard"
    /\ f \in dead
    /\ \/ files' = Without(f) /\ UNCHANGED spared
       \/ spared' = spared \cup {f} /\ UNCHANGED files
    /\ dead' = dead \ {f}
    /\ UNCHANGED <<time, pc, want, served, lastSweep, cutoff, live, total,
                   dropped, swept>>

\* Mutant: one byte over is enough.
EnoughTooSoon == total <= MaxBytes + 1

Enough == total <= MaxBytes

\* Mutant: a file that was deleted is subtracted a second time.
DiscardOldestTwice ==
    /\ pc = "discard"
    /\ dead = {}
    /\ live # <<>>
    /\ ~Enough
    /\ total' = total - 2 * Bytes(Head(live))
    /\ files' = Without(Head(live))
    /\ live' = Tail(live)
    /\ UNCHANGED <<time, pc, want, served, lastSweep, cutoff, dead, spared,
                   dropped, swept>>

\* One that cannot be deleted is counted as gone all the same.
DiscardOldest ==
    /\ pc = "discard"
    /\ dead = {}
    /\ live # <<>>
    /\ ~Enough
    /\ LET f == Head(live)
       IN  /\ total' = total - Bytes(f)
           /\ \/ /\ files' = Without(f)
                 /\ dropped' = IF f \in Present THEN files[f].mtime ELSE dropped
                 /\ UNCHANGED spared
              \/ /\ spared' = spared \cup {f}
                 /\ UNCHANGED <<files, dropped>>
    /\ live' = Tail(live)
    /\ UNCHANGED <<time, pc, want, served, lastSweep, cutoff, dead, swept>>

SweepEnds ==
    /\ pc = "discard"
    /\ dead = {}
    /\ live = <<>> \/ Enough
    /\ live' = <<>>
    /\ total' = 0
    /\ served' = want
    /\ swept' = TRUE
    /\ pc' = "idle"
    /\ UNCHANGED <<time, files, want, lastSweep, cutoff, dead, spared, dropped>>

Worker ==
    \/ Hit \/ Miss \/ ExpiredMiss \/ SynthFails \/ SynthWorks
    \/ Write \/ Replace \/ Cleanup
    \/ NotDue \/ ScanFails \/ Scan
    \/ (\E f \in Names : DiscardExpired(f)) \/ DiscardOldest \/ SweepEnds

-----------------------------------------------------------------------------
(* Around the worker.                                                      *)

Tick ==
    /\ time < MaxTime
    /\ time' = time + 1
    /\ UNCHANGED <<files, pc, want, served, sweepVars, swept>>

\* The cache is "safe to delete at any time" (systemd/krzykacz.service:25).
Wipe(f) ==
    /\ f \in Present
    /\ files' = Without(f)
    /\ UNCHANGED <<time, pc, want, served, sweepVars, swept>>

\* The process dies and is started again; the files stay as they are.
Restart ==
    /\ pc # "idle"
    /\ pc' = "idle"
    /\ want' = None
    /\ served' = None
    /\ lastSweep' = 0
    /\ cutoff' = 0
    /\ dead' = {}
    /\ live' = <<>>
    /\ total' = 0
    /\ spared' = {}
    /\ dropped' = -1
    /\ swept' = FALSE
    /\ UNCHANGED <<time, files>>

ANext ==
    \/ \E k \in Keys : Request(k)
    \/ Worker
    \/ Tick
    \/ \E f \in Names : Wipe(f)
    \/ Restart

ASpec == AInit /\ [][ANext]_avars

\* Filesystem calls return, and the backend has a timeout.
AFairSpec == ASpec /\ WF_avars(Worker)

-----------------------------------------------------------------------------
\* What is served is the whole audio of what was asked for, or the backend's
\* failure; never an entry that a crash or a full disk cut short, and none
\* such is ever under a name that would be served (tts.py:434-448).
ServedWhole ==
    /\ served # Torn
    /\ \A k \in Keys : Raw(k) \in Present => files[Raw(k)].whole
    /\ pc = "idle" /\ want # None => served \in {want, Silence}

\* After a sweep what is left fits, and none of it had expired when the sweep
\* began, but for the files the sweep could not read or delete
\* (tts.py:461-492).
SweepFits ==
    swept =>
        /\ MapThenSumSet(Bytes, Present \ spared) <= MaxBytes
        /\ \A f \in Present \ spared : files[f].mtime >= cutoff

\* A sweep drops the oldest files: none that is left is older than one it
\* dropped to make room.
OldestGoFirst ==
    swept => \A f \in Present \ spared : files[f].mtime >= dropped

\* Whatever the filesystem does, a request for audio ends, and audio that was
\* rendered is given to the caller whether or not it could be kept
\* (tts.py:373-375, 412-419); only the death of the process loses it.
RequestsEnd ==
    /\ pc # "idle" ~> pc = "idle"
    /\ \A k \in Keys : pc = "write" /\ want = k ~> want = None \/ served = k
=============================================================================
