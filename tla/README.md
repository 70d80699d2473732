# krzykacz in TLA+

krzykacz is a one-way announcer on a Raspberry Pi: messages arrive over ntfy,
HTTP or MCP, wait in a queue, and are read aloud through `aplay` while a USB
lamp is lit.  This directory holds its TLA+ models, the TLC configurations that
check them, and proofs for TLAPS.

## The system

| part | state it keeps | operations | what makes it correct |
|---|---|---|---|
| announcer (`announcer.py`) | bounded FIFO queue, current envelope, mute flag, replay history, one worker thread | `submit`, `set_muted`, `snapshot`; the worker's `_run`, `_handle`, `_announce` | accepted envelopes are served once, in order; the worker survives any failure; mute silences; prepared messages stay unheard; replays point at the past |
| lamp (`light.py`) | the port's power | `on`, `off`, `blink` | lit during a playback, dark otherwise |
| child processes (`procutil.py`, `effects.py`, `tts.py`) | the one child the worker waits for | `communicate_or_kill`, `kill` | killed at its timeout, reaped before the next one starts; the worker always gets away |
| rendering (`announcer.py:242-450`, `protocol.split_segments`) | none | segments to playback items, repeats, separators | order kept, budgets respected, a bad tag or a failed synthesis costs only itself |
| HTTP server (`http_server.py`) | one thread per request | publish, random, mute/unmute, views | each call is answered, audited, and counted once against its budget |
| MCP server (`mcp_server.py`) | tool calls | the same as tools | the same |
| rate limiter (`ratelimit.py`) | last admitted call per address | `allow`, `_prune` | calls of one address are spaced, whichever server they come to |
| ntfy listener (`ntfy.py`) | back-off, one connection | `listen`, `_handle_line` | reconnects for ever; a bad line costs at most its stream; nothing is submitted twice |
| message parsing (`protocol.py`) | none | `parse`, `parse_tags`, the cleaning of every field | the envelope is what the body and the tags asked for |
| audio cache (`tts.CachedTts`) | files, `_last_sweep` | `synthesize`, `_read`, `_write`, `_sweep` | never serves a truncated entry; stays within its size; never stops a playback |
| engines and routing (`tts.py`, `config.py`, `__main__.build_tts`) | none, but the cache outlives them | `synthesize`, `fingerprint`, `_route` | what comes from the cache is what would be rendered now |
| random picks (`random_picks.py`) | a random source | `random_sound_msg`, `random_curse_msg` | the tag plays the file that was picked; a curse can be had |
| views, auth, audit, the rest of config and wiring | none | single expressions | - |

How they interact: the listener, the HTTP threads and the MCP tools all call
`Announcer.submit` (a mute test, then `put_nowait` under the queue's lock); HTTP
and MCP first pass their checks and the shared rate limiter.  The worker takes
envelopes from the queue, renders them through the cache and an engine, then
drives lamp and speaker, every time through a child process.  Mute and the queue
view act on the announcer from any thread, with no lock around what they read
together.

Hard parts: handler threads racing for the last slot and with mute; mute
arriving between any two of the worker's steps; every command (lamp, synthesis,
`aplay`, filesystem) failing or hanging; the process dying anywhere and being
restarted by systemd (`Restart=always`) with only files and the lamp surviving,
perhaps under another configuration; clock readings that are old when they are
used; streams that break; views and answers put together from two reads.
`PROJECT.json` lists them under `hazards`, each at its line.

## Modules

| module | models | checked by |
|---|---|---|
| `Announcer` | `announcer.py:86-240`, `light.py`: submit, mute, worker, lamp, restart | `MCAnnouncer` |
| `Playback` | abstract: a bounded FIFO single server, what the announcer promises its clients | refined by `Announcer` |
| `Children` | `procutil.py` and the callers of its helpers, under `Announcer`'s blocking steps | `MCChildren` |
| `RateLimiter` | `ratelimit.py` | `MCRateLimiter` |
| `Gateway` | `http_server.py`, `mcp_server.py` and `snapshot`, composed with `Announcer` and `RateLimiter` | `MCGateway` |
| `Rendering` | `announcer.py:242-450`, `protocol.split_segments`: tags, runs, repeats, budgets | `MCRendering` |
| `AudioCache` | `tts.py:363-498` | `MCAudioCache` |
| `Engines` | operators: voices, routing, the cache key, the engines' commands | through `Speech` |
| `Picks` | operators: random sounds and their tag, random curses | through `Speech` |
| `Speech` | what is heard of a message, through the cache, across restarts under other configurations | `MCSpeech` |
| `Parsing` | operators: `protocol.parse` and what it calls | through `Ntfy` |
| `Ntfy` | `ntfy.py`: stream, reconnect, back-off, lines | `MCNtfy` |
| `AnnouncerProofs`, `ChildrenProofs`, `GatewayProofs`, `RenderingProofs`, `AudioCacheProofs`, `SpeechProofs`, `NtfyProofs` | proofs about the module named; those about `RateLimiter` open `GatewayProofs`, which builds on them | `tlapm` |
| `Induction` | nothing of the code: the lemmas on folds, sums and least counterexamples that the proofs about sequences share | `tlapm` |

### Announcer

An envelope of the model is one call of `submit`: two calls with equal text are
two envelopes.  `stage[e]` follows it: not yet called, past the mute test
(`SubmitCheck`), refused, accepted, finished, or lost to a restart.  `queue` and
`unfinished` are `queue.Queue`'s deque and `unfinished_tasks`.  The worker is one
thread, so its program counter `pc` names its next step; between any two steps
the clients, mute and `Restart` may act.  A step is one statement that another
thread can see or be seen by: the queue's `get`, the store to `_current`, each
read of the mute flag, each lamp command, the start and the end of an item, the
stores of the `finally` block.

| code | action |
|---|---|
| `submit`: mute test, `put_nowait`, `queue.Full` | `SubmitMuted`, `SubmitCheck`, `PutNowait`, `PutFull` |
| `set_muted` | `Mute`, `Unmute` |
| `_run` | `Get`, `SetCurrent`, `ClearCurrent`, `TaskDone`; `RenderRaises` is its `except` |
| `_handle` | `Discard`, `HandleMsg`, `HandleRepeat` (Python's negative indexing in `Replayed`, `deque(maxlen)` in `Remember`) |
| `_announce` | `Render`, `MutedWhileRendering`, `BeginPlayback`, `BlinkOn`, `BlinkOff`, `LightOn`, `NextItem`, `StopPlayback`, `StartItem`, `ItemDone`, `ItemFails`, `LightOff` |
| `UhubctlLight._set` | `Switch`: works, fails silently, or raises |
| the process dies | `Restart` |

Rendering is abstracted to how many playback items it yields (0 to `MaxItems`)
or an exception, which is what `Rendering` models in full.  `_handle`'s last
branch, a log line for an envelope that is neither a message nor a replay, is left
out: `Envelope` has only these two kinds.  `lamp` is the
physical port, which survives a restart; it may be on when the first process
starts.  Three auxiliary variables only record the past: `heard`, `starts` (items
begun since mute came on) and `stuck` (the last lamp command failed, or a process
died with the lamp lit).

An envelope that waits while mute comes on is discarded when the worker takes
it, not when mute comes on: unmuting before that lets it be played.

### Children

What `Announcer` takes in one step (`Render`, `Switch`, `ItemDone`) is here a call
that starts a child, waits for it, and returns or times out: `Popen`, then
`Returns`, or `Expires`, `Kill` and `Reap`, racing `ChildExits`, which may never
happen.  `Rendered`, `Switched`, `Played` and `NotPlayed` are the announcer's steps
at the end of the call.  A command that was killed may or may not have switched
the lamp.  `MaxCalls` bounds the children of one rendering.

### RateLimiter

`allow` is two steps: `ReadClock` outside the lock, then `Limit` or `Admit`
inside it, prune included.  Time is in ticks; the interval is chosen when the
limiter is made, and `<= 0` disables it (`AllowAll`).  `overtaken` marks calls
decided with a reading older than one the table was pruned with.

### Gateway

A call `c` comes to one server (`Via`), is of a kind, and may have flaws
(`MayFail`), which are drawn at the start.  It goes through these steps, and
those of `Announcer`, `RateLimiter`, other calls, mute, a view and a restart come
between any two of them:

| code | action |
|---|---|
| `_authorized`, `_route`, the lengths in `_publish`, the MCP middleware | `Reject`: the first check that fails is answered |
| `rate_limit_or_log`, `IpRateLimiter.allow` | `Budget`, `ReplyLimited` |
| `rfile.read`, the socket's timeout | `BodyTimesOut` |
| a picker that returns `None` | `NothingToPlay` |
| `submit` | `SubmitStep`, also for envelopes that come from ntfy |
| the answer and its audit line; `_dropped`, `is_muted` read anew | `ReplyQueued`, `ReplyDropped` |
| `POST /v1/mute`, `/v1/unmute`, `set_mute` | `SetMuted` |
| `snapshot`, `describe_queue` | `ViewCopy` under the queue's lock, `ViewRead` of `_current` after it |
| the process dies | `RestartAll`: connections break, the limiter's table is gone |

`reply[c]` is what was answered.  `"full"` is a drop without a reason: MCP says
"queue full", HTTP only "dropped".  `"broken"` is an answer that could not be
written, and what a restart leaves of a call.  `audited[c]` counts lines of the
audit log.  Every call is a thread, those of the MCP tools too: that allows all
orders the server's event loop could give, and more.

### Rendering

One behaviour renders one message.  A content is a sequence of tokens, and a
text, like the audio of a text, is a sequence of positions of the content: audio
says where each thing heard was written, so that order, loss and duplication
show.  Lengths are counted in units; the separator, a joining space and each
position are one unit.  `asked` records the requests to the engines and the decoder,
each as the set of segments it was for (`{0}` for the separator), and `outcome` how each segment came out: `sound`, `silent` (an answer
without audio) or `refused` (an exception the code catches, or a missing file).

| code | definition |
|---|---|
| `split_segments` | `Split`, a left fold of `SplitAt` over the content |
| `_with_terminal_punctuation`, `_truncate`, `_repeats_within_budget` | `Punctuated`, `Truncated`, `Copies` |
| `_render_plain`, `_synthesize_plain` | `PlainNothing`, `PlainBody`, `PlainSeparator`, `PlainRaises` |
| `_render_pass` and its effect runs | `DecodeEffect`, `DecodeRaises`, `AddClip`, `EndRun` |
| its speech runs | `RenderSpeech`, `EndRun` |
| `_render_with_effects` | `EndPass`, `Separator` |

`concatenable` is the engine's: engines whose audio cannot be joined exist only
through the base class' default (all engines of the repository set it).
`HeardAsWritten` compares what is played with `OneCopy` and `MostCopies`: how
often each position is due is worked out from the content alone, which segments
failed is read from `outcome`, and the copies are the most whose length fits.

### AudioCache

The announcer's single worker is the only caller.  `pc` walks through `_read`,
the engine, `_write` (temporary file, then `os.replace`), and `_maybe_sweep`.
Each filesystem call may fail; `Wipe` deletes any file at any moment (the
service unit calls the directory safe to delete); `Restart` dies between any two
steps, which is what leaves temporary files behind.  One clock stands for both
of the code's clocks and never steps.

### Engines, Picks, Speech

`Engines` says which command renders a text under a configuration (`Command`: the
route to piper or espeak-ng, the model and speaker or espeak-ng voice, the merged
knobs) and under which key its audio is kept (`Key`, over `Fingerprint`).  `Picks`
works on names of single characters: `Curated` is the filter of the random sounds,
and `TagsOf`, `EffectName` and `IsEffect` read the tag back the way
`split_segments` does.  `Speech` puts them in a process that speaks one thing at a
time (`CacheHit`, `Render`, `RandomSound`, `RandomCurse`) and is restarted under
any of the configurations (`Reconfigure`), with a file of the cache that stays.

### Parsing, Ntfy

A text is the sequence of its characters' lengths in UTF-8 (a lone surrogate has
none), and a tag's value is opaque: `IntOf` and `FloatOf` say what Python's `int`
and `float` make of it, NaN included.  `IsAsAsked` states what an envelope should
be from the last tag of each key, without the code's loops.

`feed` holds what was published and what became of each line; `wire` is what the
stream has yet to hand over.  `Connect`, `ConnectFails`, `StreamEnds` and `Wait` are
the loop of `listen`; `SkipLine`, `LineRaises` and `SubmitLine` are the ways
`_handle_line` can end.  The server keeps nothing for a listener that is away.

## Runs

Symmetry is not used: the messages of the instances differ in what they are.
`CHECK_DEADLOCK FALSE` is set only for the runs of the rate limiter (each call
of the instance is made once and the clock stops at its bound) and of the
rendering (one message is rendered, and then it is over).

| run | instance | shows |
|---|---|---|
| `announcer` | two messages, one prepared message, one replay of index -1; queue of 2, history of 1, up to 2 items | the safety invariants, and that the announcer implements `Playback` |
| `announcer_live` | one message, one prepared, one replay; queue of 2, 1 item; two children per rendering, each of which may hang | no child is left behind; the worker is the fair one `Announcer` assumes; accepted envelopes are handled to their end, the lamp goes dark, the fair `Playback` is implemented |
| `gateway` | a message posted over HTTP (well-formed, too large, or without its body) and a random sound over MCP (allowed, unauthorized, or with nothing to play), both from one address, and a message from ntfy; queue of 2, interval of 1 tick, clock to 1 | answers are kept, one call per interval over both servers, only good calls are charged, audit lines, the view stays in step, calls are answered |
| `rate_limiter` | three calls of one address, one each of two others; interval 0 or 2; clock to 4; pruned above one entry | spacing, no limit without a cause |
| `rendering` | every content of up to 4 tokens from two words (one ends a sentence), a blank and three tags of two effects (one tag played twice); up to 3 repeats; 2 effects; 8 spoken units | the message is heard as written, in budget, with no segment rendered again for a copy and none left out |
| `audio_cache` | an audio of size 1 and one of size 2, limit 2, TTL 1, sweeps a tick apart, time to 2 | only whole entries are served, a sweep makes the directory fit and drops the oldest first, requests end and audio that was rendered is served, cached or not |
| `speech` | 72 configurations that give the same names to other models, speakers and engines; five voices, two texts, two sets of knobs; every file name of up to three of eight kinds of character | what is heard is what would be rendered now; a random sound plays its file and says nothing; a curse can be had, in a configured voice whose name a message can carry or in the default one |
| `ntfy` | two lines out of thirteen: junk, undecodable, empty, without tags, replays, bodies below, at and across the limit, tags twice, unreadable, out of range | submitted as asked, in order, once; the listener comes back and no line is stuck |

Why the bounds are enough to be interesting: four envelopes against a queue of
two fill it, overflow it and leave one in hand; a history of one is pushed out by
a second message; two items allow mute to stop a playback halfway.  Two children
per rendering let one be killed and another be started.  In `gateway` the
messages are only prepared, since what is heard of them is the announcer's
business: that a dropped call is never heard (`AnswersAreKept`) is shown by the theorem
for all messages, not by this run.  The run leaves out renderings with items (`left' = 0`); two calls
from one address and an interval of a tick let one be limited, or admitted at
the boundary, before and after a restart, and three envelopes overflow the queue
of two.  Five calls and four ticks let a call of one address be
admitted, pruned by another address and limited again, in both orders of lock
and clock.  Two ticks are the least that make an entry older than the TTL, and
sizes 1 and 2 against a limit of 2 force a sweep to delete one file, or both with
temporary files about.  Four tokens and a budget of two effects let a tag be cut,
be dropped between two words, and follow another of the same effect; eight units
cut three repeats of a punctuated word to two, and truncate copies joined as
text.  Two lines let one be lost with the stream that the other tears down.
`QueueSize <= 0`, larger histories, more messages, calls and addresses are covered
by the proofs.

Runs that are expected to fail, each showing a sentence of the source or its
documents that the code does not keep:

| run | refutes |
|---|---|
| `history` | "keeping it out of history also keeps the replay indices pointing at what people actually heard" (`announcer.py:161-163`): a message enters the history before it is rendered, and may never be heard |
| `reply` | "for a truthful reply" (`mcp_server.py:273`): the reason is read after the drop |
| `clamp` | "Out-of-range values are clamped rather than rejected" (`protocol.py:39-40`): a NaN passes through `min` and `max` |
| `lookup` | "never raises, same skip-don't-fail stance" (`announcer.py:402-404`): looking the name up touches the filesystem outside the `try` |

Every property of a passing run has a mutant, an operator beside the definition
it breaks, named in `PROJECT.json`: a plausible bug of the code that makes TLC
find the property violated.

Smaller disagreements met while modelling, which have no run of their own
because a property that holds states the exception:

* `announcer.py:364-366` says `split_segments` never emits two speech segments
  back to back; a tag dropped because the effect budget is spent still ends the
  text before it (`SplitAt`).
* `ratelimit.py:48-49` says pruned entries cannot affect a future decision; a
  reading taken before the pruning one can still come to the lock, and its
  address' entry is gone.  `Spaced` and `OneCallPerInterval` except such
  `overtaken` calls.
* `audit.py:9` speaks of one line per call; a rate-limited HTTP call leaves two
  (`ratelimit.py:64` and `http_server.py:75`), and a call that the MCP middleware
  turns away leaves none.  `AuditedAnyway` says what does hold.
* A file name with a backslash, or a blank at an end, passes the filter of the
  random sounds but its tag is not read back as that file.
  `SoundPlaysItsFile` excepts such names.
* A restart forgets who has spent a budget (`before` in `OneCallPerInterval`).
* `random_picks.py:179` passes the voice it picked through `build_msg`, whose
  `_clean_voice` knows only names of letters, digits, `_` and `-`
  (`protocol.py:115-124`); a configured voice with another name is heard as the
  default voice.  `CurseIsHad` allows that for such names only.
* The audit log has no line of an HTTP call whose body never comes: the socket's
  timeout ends its thread before `_publish` gets to it.  `AuditedAnyway` excepts
  it, as one of the `broken` replies.

### Fairness

`Announcer!Fairness` is weak fairness of the worker's step.  `Children` derives it
(`WorkerIsFair`) from less: `CFairness` is weak fairness of the worker with its
timers (`light.py:41`, `tts.py:71`, `tts.py:225`, the `communicate_or_kill` calls) and
of a SIGKILLed child's death; no child is trusted to exit by itself, and what a
dead process left of its children goes with the service's control group.
Nothing makes a client call, mute or unmute, and nothing forces a restart.
`GFairness` assumes that a thread of a call that has reached the limiter is
scheduled while there is one, and nothing of the worker: that is what makes
`CallsAreAnswered` a statement about `put_nowait` and the socket's timeout.  It is
one condition on all such threads, which is as strong as one for each, since none
has endless work.  `NFairness` assumes that the listener's thread is scheduled, its
sleeps end, and of its attempts to connect not all fail for ever (strong fairness
of `Connect`); streams may break at any time.  `AFairSpec` assumes filesystem calls
return and the engine has its timeout.

## Proofs

All are for every value of the constants, from the modules' named assumptions.
Some of these say what the source leaves to its surroundings: a file name is a
finite sequence of characters (`FileNamesAssumption`), a line's fields are of
their kinds (`LinesAssumption`), an effect's name is not a number, and
`RenderingAssumption` has that the spoken budget holds a content twice (full stops
included) and the separators of the most repeats, as the source's 1600 bytes do
with contents of 800 and 10 repeats (`protocol.py:10-21`).

Several of the model's operators are folds (`Total`, `Join`, `SplitSegments`, the
walk over a line's tags, the sizes of a directory), and what a fold does is proved by
induction.  The library's induction theorems take an operator as a parameter,
which the provers cannot instantiate; `Induction` has what is needed in first-order
form.  A predicate is the set of the naturals (or subsets) that have it, and
`NatInduct` and `SetInduct` follow from `Least`: a set of naturals that is not empty
has a least element, so there is no least counterexample.  The folds of the
community modules are defined by a CHOOSE of the function that satisfies the
recursion; `FoldExists` and `LeftFoldExists` show that there is one, and from that on a fold
may be unfolded.

`AnnouncerProofs`, for every set of envelopes, every queue size (zero and negative
ones included), history size and number of items:

* `Core == TypeOK /\ WorkerInv /\ JoinBalanced` is inductive.  `TypeOK` alone is
  not: that the item counter stays natural needs `left > 0` while an item plays,
  and that `task_done` leaves a natural number needs `JoinBalanced`; `WorkerInv`
  says what the worker's locals hold at each step.  `TypeCorrect` and
  `JoinAlwaysBalanced` follow.
* On top of it, each inductive together with `Core`: `Custody` (with lemmas on
  what `Append`, `Head` and `Tail` do to the elements of a sequence without
  repetition), `Bound` for `QueueStaysBounded`, `LampFollowsPlayback` itself,
  `SilenceInv` for `MutedSilence` (at most one start, and none while one is
  still to come), `PreparedStaysSilent`, and `SettledInv` for
  `ReplayFollowsOriginal` (what the history holds has been handled, or is in hand).
* `ImplementsServer`: with `Core` and `Custody`, every step of the announcer is a
  step of `Playback` or leaves its variables alone; this is the safety half of
  the refinement, for all instances.

`ChildrenProofs`: `ChildrenImplement` (the announcer with its children is an
announcer, so all of the above holds of it), `ChildTypes`, and `NoChildStays`.

`GatewayProofs` opens with the limiter on its own: `LimiterTypes`;
`LimiterSpaces` through `SpacedInv(S)`, which adds that for each admitted call
of `S` not overtaken by a prune the table still holds a reading at least as new,
or the entry was pruned by a reading at least one interval newer;
`LimiterBlames` through `CauseInv`: every entry of the table is the reading of
an admitted call.

Then, for any calls over both servers, with any flaws, `GatewayImplements` shows
that the composition implements `Announcer`'s `Spec`, which brings in `Core` and
`Custody`; the limiter's step lemmas are used again for `LNext`, and
`SpacedInv(Calls \ before)` is what survives a restart. `GInv` adds `HeardInv`
(what is heard, in the history or in hand was accepted once) and `CallInv(c)`
for each call (what was answered against how far it got, and how many lines it
left). From it follow `GatewayTypes`, `AnswersAlwaysKept`, `OneCallKept`,
`BudgetWellSpent` and `AlwaysAudited`.

The view of the queue needs what holds between `snapshot`'s two reads: `ViewInv`
is `CurrentInv` (what `_current` says, against what the worker has in hand) and
`InStep(copy, t)`, that the worker has taken the first `t` of what was copied, all
finished but perhaps the last, and the rest stands at the front of the queue.
`InStepMoves` shows that a client or the worker leaves some such `t`, a restart
takes the view along with everything else, and `ViewStaysInStep` follows.

`RenderingProofs`, for every content up to the limit, every set of tags, number of
repeats and way of the engines to fail.  `RInv` is inductive, and TLC checks it on
the instance of `MCRendering`.  Its parts are

* `TypeInv`, `RTypeOK` with the exact types of the sequences; the lemmas on `Strip`,
  `Punctuated`, `Join` and `SplitAt` say what each makes of texts of the content, and
  `WellSplit` what `SplitSegments` returns: no position is in two speech segments, and
  their texts are no longer than the content, nor than twice it when each is given its
  full stop;
* `Stages`, what is already known and still empty at each step;
* `Budget`: what is in the items and in the run so far says no more than
  `Prefix(next - 1)`, the sum over the segments already rendered of what each may
  say, and that sum over all segments is `SpokenPerCopy`, from which `Copies` works out the
  repeats.

From it follow `RenderingTypes` and `SpokenStaysInBudget`.

`EachRenderedOnce` adds the invariant `Requests`: no two requests so far have a
segment in common, and together they were made for exactly the segments already
passed and those `Ahead` of them, the later effects of the same run whose name
`decoded` has.  It is about segments, not about texts: segments that read alike are
rendered one by one, as in the code (`hi <x> hi` asks for `hi.` twice).

`WhatIsPlayedWasWritten` needs more, since the code and `HeardAsWritten` go different
ways: the code splits, renders run by run and joins, and the property filters the
content position by position (`TimesDue`).  Both are brought to one form, the texts of
a sequence put one after the other (`Chain`), and the invariant that is proved on top
of `RInv`, and checked by TLC before, is `Hears`:

* after the split the segments are `Heeded`: what their words and their tags are due,
  in order, is what each position of the content is due.  That is an invariant of the
  fold (`Heeds`), whose effects spent so far are `MaxEffects` or the sum of all
  counts so far (`Adds`), which is what `TimesDue` works out anew for each tag.  Each
  position stands in one segment (`WellSplit`, `Marked`), so the copy less what was lost
  is the chain of what came of the segments (`CopyCame`);
* during a pass, what the items and the run in hand sound like is `CameTo(outcome,
  next - 1)`, what came of the segments rendered so far, and something was put in
  hand exactly when some segment was not refused.  The text of a run is never really
  cut, since the budget has room for all segments once, spaces included (`Roomy`,
  `RunTextHeard`);
* before the repeats the items are one copy, and afterwards, or on the plain path,
  they are the most copies whose length fits (`MostIs`), with the separator where it
  was rendered; a text repeated by joining is a beginning of that, and as long as
  the budget if it is not all of it (`CutHeard`).

`Heard` drops what is not audible from the flattened audio by `Hear`, which says for each
position what is heard of it, so that dropping and flattening may change places.

`AudioCacheProofs`, for every set of texts, size limit, TTL and sweep interval:
`AlwaysWhole` (every file under a final name holds the whole rendering of its
key), `AlwaysOldestFirst` (the list a sweep works through is sorted by age, and
what it has still to delete is younger than what it has deleted), and
`SweepAlwaysFits`: `FitInv` adds that `total` is the sum of the sizes of what is still
listed, whatever of it others have deleted since, and that nothing listed has
expired.  That `total` stays a natural number, in `AlwaysTyped`, comes from the same sum.

`SpeechProofs`, for every set of configurations and of file names:
`AlwaysHeardAsConfigured` (an entry whose key is asked for holds the command that
would be run now, by cases on the two engines), `CurseIsAlwaysHad`, and
`SoundAlwaysPlaysItsFile`: in the message made of a curated name of any length there is one
tag, its name is read back as the file's, and nothing is left to be spoken.

`NtfyProofs`: `ListenerTypes`, and `LinesKeepTheirOrder`: what the stream has yet to
hand over is exactly what is marked so, in the order of its publication, and
nothing without a stream.  `EnvelopesAreAsAsked` has two halves.  One is about
parsing: for every line, with any number of tags in any order, the envelope the
code's loops make satisfies `IsAsAsked`, which looks for the last tag of each key.
The other is about the listener: `TInv` adds that what is yet to be handled comes
after all that was submitted, so that the increasing map from envelopes to lines
can be extended by each new one.

Only model-checked is all liveness (`WorkerIsFair`, `AcceptedIsHandled`, `LampGoesDark`,
`ServesInOrderAndFairly` beyond its safety half, `CallsAreAnswered`, `RequestsEnd`,
`KeepsListening`, `LinesAreHandled`), which is out of the prover's reach.  Every other
property of a passing run is stated by a theorem.

## Not modelled

* Command lines, audio formats, the walk over a WAVE stream (`tts._wav_to_pcm`)
  and the rounding of knobs in flags: `Engines` keeps what tells two commands
  apart, and knobs are opaque.
* Whether an engine's output is complete: piper's exit status is not looked at,
  and the source offers no way to tell.
* A power loss (as opposed to a process dying) and a stepping wall clock, in
  `AudioCache`.
* The MCP SDK: sessions, transports, schemas; its server is a source of tool
  calls.
* The views other than the queue's, the comparison of the token, the text of the
  audit lines, the reading of single environment variables, `main`'s wiring: they
  keep no state and order nothing.
* The installation scripts; of the service unit, `Restart=always` is in the models.
