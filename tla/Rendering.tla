----------------------------- MODULE Rendering -----------------------------
(***************************************************************************)
(* How the announcer turns a message into what will be heard               *)
(* (src/krzykacz/announcer.py, _announce up to the lamp, and               *)
(* src/krzykacz/protocol.py, split_segments): the content is split at its  *)
(* effect tags, each run of segments is rendered to one playback item, and *)
(* a repeated message is put together from one rendered pass.  Every call  *)
(* of an engine may work, yield nothing, or raise.                         *)
(*                                                                         *)
(* A text is a sequence of positions of the content, and so is audio: it   *)
(* says where each thing heard was written.  The unit of length is that of *)
(* the repeat separator, and every position is one unit.                   *)
(***************************************************************************)
EXTENDS Integers, SequencesExt

CONSTANTS
    Words,       \* stretches of text, brackets that are no effect tag included
    Stops,       \* the words that end in sentence-final punctuation
    Blanks,      \* white space
    Tags,        \* effect tags: <name*count>
    NameOf,      \* NameOf[t]: the effect that tag t names
    CountOf,     \* CountOf[t]: how many times, as _clean_effect_count left it
    MaxEffects,  \* MAX_EFFECTS
    MaxSpoken,   \* MAX_SPOKEN_BYTES, in units
    MaxRepeat,   \* MAX_REPEAT_COUNT
    MaxLen       \* bound: the length of a content, MAX_CONTENT_BYTES

Tokens == Words \cup Blanks \cup Tags

ASSUME RenderingAssumption ==
    /\ Stops \subseteq Words
    /\ Words \cap Blanks = {} /\ Words \cap Tags = {} /\ Blanks \cap Tags = {}
    /\ CountOf \in [Tags -> Nat \ {0}]
    /\ MaxEffects \in Nat \ {0}
    /\ MaxRepeat \in Nat \ {0}
    /\ MaxLen \in Nat
    /\ MaxSpoken \in Nat
    /\ MaxSpoken >= 2 * MaxLen
    /\ MaxSpoken >= MaxRepeat - 1
    /\ \A t \in Tags : NameOf[t] \notin Int

VARIABLES
    content,       \* the message's content
    repeat,        \* its repeat_count
    concatenable,  \* whether the engine's audio can be joined
    pc,            \* the next step
    segments,      \* what split_segments made of the content
    next,          \* the first segment not rendered yet
    first,         \* the first segment of the run being rendered, 0 if none
    decoded,       \* the run's effects: name -> what decoding it gave
    parts,         \* audio rendered for the run so far
    items,         \* the playback items
    asked,         \* auxiliary: for which segments each request to an engine
                   \* was made, in order; {0} for the separator
    outcome        \* auxiliary: what became of each segment, and of the separator

inputs == <<content, repeat, concatenable>>
runVars == <<next, first, decoded, parts>>
rvars == <<inputs, pc, segments, runVars, items, asked, outcome>>

Outcomes == {"sound", "silent", "refused"}

\* Texts contain these beside the positions of the content: the full stop
\* that is added, the repeat separator, and the space that joins two texts.
Dot == 0
Powtarzam == -1
Space == -2

Positions == DOMAIN content
TextAtoms == Positions \cup {Dot, Powtarzam, Space}

RTypeOK ==
    /\ content \in BoundedSeq(Tokens, MaxLen)
    /\ repeat \in 1..MaxRepeat
    /\ concatenable \in BOOLEAN
    /\ pc \in {"split", "plain", "plainSeparator", "pass", "separator",
               "done", "raised"}
    /\ \A i \in DOMAIN segments :
          \/ /\ segments[i].kind = "speech"
             /\ segments[i].text \in Seq(Positions) \ {<<>>}
          \/ /\ segments[i].kind = "effect"
             /\ segments[i].at \in Positions
             /\ segments[i].count \in 1..MaxEffects
    /\ next \in 1..(Len(segments) + 1)
    /\ first \in 0..Len(segments)
    /\ \A i \in DOMAIN parts : parts[i] \in Seq(TextAtoms)
    /\ \A i \in DOMAIN items :
          items[i].kind \in {"speech", "effect"} /\ items[i].audio \in Seq(TextAtoms)
    /\ outcome \in [0..Len(segments) -> Outcomes]

RInit ==
    /\ content \in BoundedSeq(Tokens, MaxLen)
    /\ repeat \in 1..MaxRepeat
    /\ concatenable \in BOOLEAN
    /\ pc = "split"
    /\ segments = <<>>
    /\ next = 1
    /\ first = 0
    /\ decoded = [n \in {} |-> "sound"]
    /\ parts = <<>>
    /\ items = <<>>
    /\ asked = <<>>
    /\ outcome = [i \in {0} |-> "sound"]

-----------------------------------------------------------------------------
(* Texts.                                                                  *)

\* Python's sum(counts).
Total(counts) == FoldLeft(LAMBDA sum, n : sum + n, 0, counts)

\* Python's s.join(texts).
Join(s, texts) ==
    FoldLeftDomain(LAMBDA acc, i : acc \o (IF i = 1 THEN <<>> ELSE s) \o texts[i],
                   <<>>, texts)

Strip(text) ==
    LET ink == {i \in DOMAIN text : content[text[i]] \notin Blanks}
    IN  IF ink = {} THEN <<>> ELSE SubSeq(text, Min(ink), Max(ink))

\* _with_terminal_punctuation, of a text that is stripped already.
Punctuated(text) ==
    IF text # <<>> /\ content[Last(text)] \notin Stops
    THEN Append(text, Dot) ELSE text

Truncated(text) == SubSeq(text, 1, Min({Len(text), MaxSpoken}))

\* Mutant: the separators do not count.
CopiesAlone(size) ==
    IF size <= 0 THEN repeat
    ELSE Max({1, Min({repeat, MaxSpoken \div size})})

\* _repeats_within_budget: whole copies, with a separator between each two.
Copies(size) ==
    IF size <= 0 THEN repeat
    ELSE Max({1, Min({repeat, (MaxSpoken + 1) \div (size + 1)})})

-----------------------------------------------------------------------------
(* split_segments.                                                         *)

Flushed(acc) ==
    LET text == Strip(acc.text)
    IN  IF text = <<>> THEN acc.segments
        ELSE Append(acc.segments, [kind |-> "speech", text |-> text])

\* Mutant: a tag above the budget takes the text before it along.
SplitAtLosesText(acc, i) ==
    IF content[i] \notin Tags
    THEN [acc EXCEPT !.text = Append(@, i)]
    ELSE LET count == Min({CountOf[content[i]], MaxEffects - acc.effects})
         IN  [segments |-> IF count = 0 THEN acc.segments
                           ELSE Append(Flushed(acc),
                                       [kind |-> "effect", at |-> i, count |-> count]),
              text |-> <<>>,
              effects |-> acc.effects + count]

\* Mutant: a tag for which nothing is left stays, played no times.
SplitAtKeepsNone(acc, i) ==
    IF content[i] \notin Tags
    THEN [acc EXCEPT !.text = Append(@, i)]
    ELSE LET count == Min({CountOf[content[i]], MaxEffects - acc.effects})
         IN  [segments |-> Append(Flushed(acc),
                                  [kind |-> "effect", at |-> i, count |-> count]),
              text |-> <<>>,
              effects |-> acc.effects + count]

\* A tag ends the text before it; above the budget of effects it is cut to
\* what is left, or dropped when nothing is.
SplitAt(acc, i) ==
    IF content[i] \notin Tags
    THEN [acc EXCEPT !.text = Append(@, i)]
    ELSE LET count == Min({CountOf[content[i]], MaxEffects - acc.effects})
         IN  [segments |-> IF count = 0 THEN Flushed(acc)
                           ELSE Append(Flushed(acc),
                                       [kind |-> "effect", at |-> i, count |-> count]),
              text |-> <<>>,
              effects |-> acc.effects + count]

SplitSegments ==
    Flushed(FoldLeftDomain(SplitAt,
                           [segments |-> <<>>, text |-> <<>>, effects |-> 0],
                           content))

Split ==
    /\ pc = "split"
    /\ segments' = SplitSegments
    /\ outcome' = [i \in 0..Len(segments') |-> "sound"]
    /\ pc' = IF \E i \in DOMAIN segments' : segments'[i].kind = "effect"
             THEN "pass" ELSE "plain"
    /\ UNCHANGED <<inputs, runVars, items, asked>>

-----------------------------------------------------------------------------
(* _render_plain and _synthesize_plain: a message without effects.         *)

SpeechItem(audio) == [kind |-> "speech", audio |-> audio]

TextsOf(from, to) ==
    [i \in 1..(to - from + 1) |-> Punctuated(segments[from + i - 1].text)]

\* The texts joined, and closed by one full stop.
Spoken ==
    Punctuated(Join(<<Space>>, [i \in DOMAIN segments |-> segments[i].text]))

\* An engine's answer: the audio of the text, or nothing at all.
Audio(text, how) == IF how = "sound" THEN text ELSE <<>>

PlainNothing ==
    /\ pc = "plain"
    /\ Spoken = <<>>
    /\ pc' = "done"
    /\ UNCHANGED <<inputs, segments, runVars, items, asked, outcome>>

\* One text, or the copies joined as text when the engine's audio cannot be.
PlainText ==
    IF repeat = 1 \/ concatenable THEN Spoken
    ELSE Truncated(Join(<<Powtarzam>>, [i \in 1..repeat |-> Spoken]))

Joins == repeat > 1 /\ concatenable /\ Copies(Len(Spoken)) > 1

PlainBody ==
    /\ pc = "plain"
    /\ Spoken # <<>>
    /\ asked' = Append(asked, DOMAIN segments)
    /\ \E how \in {"sound", "silent"} :
          /\ outcome' = [outcome EXCEPT ![1] = how]
          /\ \/ /\ Joins
                /\ parts' = <<Audio(PlainText, how)>>
                /\ pc' = "plainSeparator"
                /\ UNCHANGED items
             \/ /\ ~Joins
                /\ items' = <<SpeechItem(Audio(PlainText, how))>>
                /\ pc' = "done"
                /\ UNCHANGED parts
    /\ UNCHANGED <<inputs, segments, next, first, decoded>>

PlainSeparator ==
    /\ pc = "plainSeparator"
    /\ asked' = Append(asked, {0})
    /\ \E how \in {"sound", "silent"} :
          /\ outcome' = [outcome EXCEPT ![0] = how]
          /\ items' = <<SpeechItem(Join(Audio(<<Powtarzam>>, how),
                            [i \in 1..Copies(Len(Spoken)) |-> parts[1]]))>>
    /\ pc' = "done"
    /\ UNCHANGED <<inputs, segments, runVars>>

\* The engine raises, at the body or at the separator: nothing is left.
PlainRaises ==
    /\ \/ /\ pc = "plain"
          /\ Spoken # <<>>
          /\ asked' = Append(asked, DOMAIN segments)
          /\ outcome' = [outcome EXCEPT ![1] = "refused"]
       \/ /\ pc = "plainSeparator"
          /\ asked' = Append(asked, {0})
          /\ outcome' = [outcome EXCEPT ![0] = "refused"]
    /\ pc' = "done"
    /\ UNCHANGED <<inputs, segments, runVars, items>>

-----------------------------------------------------------------------------
(* _render_pass: a message with effects, run by run.                       *)

\* The next segment is of this kind, and opens a run or belongs to the one
\* being rendered.
InRun(kind) ==
    /\ pc = "pass"
    /\ next <= Len(segments)
    /\ segments[next].kind = kind
    /\ first # 0 => segments[first].kind = kind

Open == IF first = 0 THEN next ELSE first

EffectName == NameOf[content[segments[next].at]]

\* The effects of the run that bear this name: one decoding is for them all.
Sharing ==
    {s \in Open..Len(segments) :
        /\ \A j \in Open..s : segments[j].kind = "effect"
        /\ NameOf[content[segments[s].at]] = EffectName}

\* _decode_effect: the effect sounds, is silent, or is skipped because it is
\* not found, lies outside the assets, or cannot be decoded.
DecodeEffect ==
    /\ InRun("effect")
    /\ EffectName \notin DOMAIN decoded
    /\ \E how \in Outcomes :
          decoded' = [n \in DOMAIN decoded \cup {EffectName} |->
                         IF n = EffectName THEN how ELSE decoded[n]]
    /\ asked' = Append(asked, Sharing)
    /\ first' = Open
    /\ UNCHANGED <<inputs, pc, segments, next, parts, items, outcome>>

\* Looking the name up raises, which nothing on the way catches.
DecodeRaises ==
    /\ InRun("effect")
    /\ EffectName \notin DOMAIN decoded
    /\ pc' = "raised"
    /\ UNCHANGED <<inputs, segments, runVars, items, asked, outcome>>

Clip(how) ==
    Audio([i \in 1..segments[next].count |-> segments[next].at], how)

AddClip ==
    /\ InRun("effect")
    /\ EffectName \in DOMAIN decoded
    /\ LET how == decoded[EffectName]
       IN  /\ parts' = IF how = "refused" THEN parts ELSE Append(parts, Clip(how))
           /\ outcome' = [outcome EXCEPT ![next] = how]
    /\ next' = next + 1
    /\ UNCHANGED <<inputs, pc, segments, first, decoded, items, asked>>

\* The speech segments up to this one are rendered together.
RunEnd ==
    Max({i \in next..Len(segments) :
            \A j \in next..i : segments[j].kind = "speech"})

\* Segment by segment when audio can be joined, else the whole run as text.
RenderSpeech ==
    LET upTo == IF concatenable THEN next ELSE RunEnd
        text == IF concatenable THEN Punctuated(segments[next].text)
                ELSE Truncated(Join(<<Space>>, TextsOf(next, upTo)))
    IN  /\ InRun("speech")
        /\ asked' = Append(asked, next..upTo)
        /\ \E how \in Outcomes :
              /\ parts' = IF how = "refused" THEN parts
                          ELSE Append(parts, Audio(text, how))
              /\ outcome' = [i \in DOMAIN outcome |->
                                IF i \in next..upTo THEN how ELSE outcome[i]]
        /\ first' = Open
        /\ next' = upTo + 1
        /\ UNCHANGED <<inputs, pc, segments, decoded, items>>

\* The run is one item, or none when nothing of it was rendered.
EndRun ==
    /\ pc = "pass"
    /\ first # 0
    /\ next <= Len(segments) => segments[next].kind # segments[first].kind
    /\ items' = IF parts = <<>> THEN items
                ELSE Append(items, [kind |-> segments[first].kind,
                                    audio |-> FlattenSeq(parts)])
    /\ first' = 0
    /\ parts' = <<>>
    /\ decoded' = [n \in {} |-> "sound"]
    /\ UNCHANGED <<inputs, pc, segments, next, asked, outcome>>

-----------------------------------------------------------------------------
(* _render_with_effects: the pass is repeated as it was rendered.          *)

SpokenPerCopy ==
    Total([i \in DOMAIN segments |->
              IF segments[i].kind = "speech" THEN Len(Punctuated(segments[i].text)) ELSE 0])

PassOver == pc = "pass" /\ first = 0 /\ next > Len(segments)

Once == items = <<>> \/ repeat = 1 \/ Copies(SpokenPerCopy) = 1

\* Mutant: each copy is rendered anew.
EndPassAnew ==
    /\ PassOver
    /\ pc' = IF Once THEN "done" ELSE "pass"
    /\ next' = 1
    /\ UNCHANGED <<inputs, segments, first, decoded, parts, items, asked, outcome>>

EndPass ==
    /\ PassOver
    /\ pc' = IF Once THEN "done" ELSE "separator"
    /\ UNCHANGED <<inputs, segments, runVars, items, asked, outcome>>

\* A separator that cannot be rendered is left out.
Separator ==
    /\ pc = "separator"
    /\ asked' = Append(asked, {0})
    /\ \E how \in Outcomes :
          LET between == IF how = "refused" THEN <<>>
                         ELSE <<SpeechItem(Audio(<<Powtarzam>>, how))>>
          IN  /\ items' = Join(between, [i \in 1..Copies(SpokenPerCopy) |-> items])
              /\ outcome' = [outcome EXCEPT ![0] = how]
    /\ pc' = "done"
    /\ UNCHANGED <<inputs, segments, runVars>>

RNext ==
    \/ Split
    \/ PlainNothing \/ PlainBody \/ PlainSeparator \/ PlainRaises
    \/ DecodeEffect \/ DecodeRaises \/ AddClip \/ RenderSpeech \/ EndRun
    \/ EndPass \/ Separator

RSpec == RInit /\ [][RNext]_rvars

-----------------------------------------------------------------------------
(* What a listener should hear, worked out from the content alone.         *)

\* How often position i is due to be heard in one copy: a word once, and an
\* effect as long as the effects before it leave some of the budget.
TimesDue(i) ==
    LET before == {j \in 1..(i - 1) : content[j] \in Tags}
        used   == MapThenSumSet(LAMBDA j : CountOf[content[j]], before)
    IN  CASE content[i] \in Words -> 1
          [] content[i] \in Blanks -> 0
          [] content[i] \in Tags ->
                Max({0, Min({CountOf[content[i]], MaxEffects - used})})

StandsFor(s, i) ==
    IF segments[s].kind = "effect" THEN segments[s].at = i
    ELSE i \in ToSet(segments[s].text)

Lost(i) == \E s \in DOMAIN segments : StandsFor(s, i) /\ outcome[s] # "sound"

\* Every position as often as it is due, in the order of the content, but
\* for the segments that an engine failed to render.
OneCopy ==
    FlattenSeq([i \in Positions |->
        IF Lost(i) THEN <<>> ELSE [k \in 1..TimesDue(i) |-> i]])

\* The most copies that fit the budget; one is always played.
MostCopies(size) ==
    Max({c \in 1..repeat : c = 1 \/ size = 0 \/ c * size + c - 1 <= MaxSpoken})

Repeated(n) ==
    Join(IF outcome[0] = "sound" THEN <<Powtarzam>> ELSE <<>>,
         [i \in 1..n |-> OneCopy])

\* Full stops and white space are not heard.
Hear(a) ==
    IF a = Powtarzam \/ (a \in Positions /\ content[a] \notin Blanks) THEN <<a>> ELSE <<>>

HeardOf(audio) == FlattenSeq([k \in DOMAIN audio |-> Hear(audio[k])])

Heard == FlattenSeq([i \in DOMAIN items |-> HeardOf(items[i].audio)])

HasEffects == \E i \in DOMAIN segments : segments[i].kind = "effect"

\* The spaces that join two texts are not counted: the code does not either.
Units(audio) == Total([i \in DOMAIN audio |-> IF audio[i] = Space THEN 0 ELSE 1])

SpokenUnits ==
    Total([i \in DOMAIN items |-> IF items[i].kind = "speech" THEN Units(items[i].audio) ELSE 0])

-----------------------------------------------------------------------------
\* What is played is what was written: every word once per copy and every
\* effect as often as its tag and the budget say, in the order of the
\* content, in as many copies as fit; a segment that an engine failed to
\* render is missing, and nothing else is (protocol.py:286-301,
\* announcer.py:297-308).  A plain message of which the body or the
\* separator raises is not played at all, and one whose copies had to be
\* joined as text may be cut in the last of them.
HeardAsWritten ==
    pc = "done" =>
        IF HasEffects
        THEN Heard = IF \A s \in 1..Len(segments) : outcome[s] = "refused"
                     THEN <<>> ELSE Repeated(MostCopies(SpokenPerCopy))
        ELSE IF \E s \in DOMAIN outcome : outcome[s] = "refused"
        THEN Heard = <<>>
        ELSE IF concatenable \/ repeat = 1
        THEN Heard = (IF segments = <<>> THEN <<>>
                      ELSE Repeated(MostCopies(SpokenPerCopy)))
        ELSE /\ IsPrefix(Heard, Repeated(repeat))
             /\ Heard = Repeated(repeat) \/ SpokenUnits \in {0, MaxSpoken}

\* However a message is repeated, what is spoken of it, separators and added
\* full stops included, stays within the budget (announcer.py:46-61).
SpokenWithinBudget == pc = "done" => SpokenUnits <= MaxSpoken

\* Each segment, and the separator, is rendered at most once however often it
\* is played: no copy is synthesized or decoded anew, and a decoded effect
\* serves all its namesakes of the run (announcer.py:305-308, 383-388).  And
\* none is left out, whatever failed before it.  Segments that read the same
\* are still rendered one by one: "hi <x> hi" asks for "hi." twice.
RenderedOnce ==
    /\ \A i, j \in DOMAIN asked : i # j => asked[i] \cap asked[j] = {}
    /\ pc = "done" => DOMAIN segments \subseteq UNION ToSet(asked)

\* An effect that cannot be had is skipped, and rendering ends with what the
\* rest of the message gives (announcer.py:402-404 "never raises, same
\* skip-don't-fail stance").  The code does not keep this: looking up a name
\* that the filesystem refuses raises.
SkippedNotFailed == pc # "raised"
=============================================================================
