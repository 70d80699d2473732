------------------------------ MODULE Parsing ------------------------------
(***************************************************************************)
(* From a body and tags to an envelope (src/krzykacz/protocol.py, parse    *)
(* and what it calls).  A text is the sequence of its characters' lengths  *)
(* in UTF-8.  The value of a tag is opaque: IntOf and FloatOf say what     *)
(* int() and float() make of it, in whole numbers and in hundredths.       *)
(***************************************************************************)
EXTENDS Integers, SequencesExt

CONSTANTS
    Values,      \* the values tags may carry
    IntOf,       \* IntOf[v]: what int() makes of v, or Unreadable
    FloatOf,     \* FloatOf[v]: what float() makes of v, NaN, or Unreadable
    Voices,      \* the values that pass for the name of a voice
    On,          \* the values that pass for yes
    MaxContent,  \* MAX_CONTENT_BYTES
    MaxRepeat,   \* MAX_REPEAT_COUNT
    Unreadable,  \* int() or float() raised
    NaN,         \* the float that no comparison holds for
    None         \* Python's None

\* A lone surrogate, which json.loads lets through and UTF-8 has no form for.
Surrogate == 0

\* Tags: a plain marker, or a key and a value.
Plain  == [key |-> None, value |-> None]
Tag(k, v) == [key |-> k, value |-> v]

\* The keys that parse looks up.
Keys == {"replay", "voice", "repeat", "speed", "variation", "rhythm", "prepare"}

SpeedRange     == <<50, 200>>
VariationRange == <<0, 150>>
RhythmRange    == <<0, 150>>

-----------------------------------------------------------------------------
ParseTags(tags) ==
    FoldLeft(LAMBDA params, t :
                 IF t.key = None THEN params
                 ELSE [k \in DOMAIN params \cup {t.key} |->
                          IF k = t.key THEN t.value ELSE params[k]],
             [k \in {} |-> None], tags)

\* dict.get
Param(params, k) == IF k \in DOMAIN params THEN params[k] ELSE None

Size(text) == FoldLeft(LAMBDA n, c : n + c, 0, text)

\* Mutant: one character too many.
TruncateLate(text) ==
    LET fits == {n \in 0..Len(text) : n = 0 \/ Size(SubSeq(text, 1, n - 1)) < MaxContent}
    IN  SubSeq(text, 1, CHOOSE n \in fits : \A m \in fits : m <= n)

\* The bytes are cut at the limit and a character cut in two is dropped.
Truncate(text) ==
    LET fits == {n \in 0..Len(text) : Size(SubSeq(text, 1, n)) <= MaxContent}
    IN  SubSeq(text, 1, CHOOSE n \in fits : \A m \in fits : m <= n)

CleanVoice(v) == IF v \in Voices THEN v ELSE None

CleanRepeatCount(v) ==
    IF v = None \/ IntOf[v] = Unreadable \/ IntOf[v] < 1 THEN 1
    ELSE IF IntOf[v] > MaxRepeat THEN MaxRepeat ELSE IntOf[v]

CleanFlag(v) == v \in On

\* Python's min(max(scale, low), high): a comparison with NaN is false, so
\* both calls give NaN back.
CleanScale(v, bounds) ==
    IF v = None \/ FloatOf[v] = Unreadable THEN None
    ELSE IF FloatOf[v] = NaN THEN NaN
    ELSE IF FloatOf[v] < bounds[1] THEN bounds[1]
    ELSE IF FloatOf[v] > bounds[2] THEN bounds[2] ELSE FloatOf[v]

BuildMsg(text, params) ==
    [content   |-> Truncate(text),
     voice     |-> CleanVoice(Param(params, "voice")),
     repeat    |-> CleanRepeatCount(Param(params, "repeat")),
     speed     |-> CleanScale(Param(params, "speed"), SpeedRange),
     variation |-> CleanScale(Param(params, "variation"), VariationRange),
     rhythm    |-> CleanScale(Param(params, "rhythm"), RhythmRange),
     prepare   |-> CleanFlag(Param(params, "prepare"))]

BuildRepeat(v) == [number |-> IF IntOf[v] = Unreadable THEN -1 ELSE IntOf[v]]

Parse(text, tags) ==
    LET params == ParseTags(tags)
    IN  IF "replay" \in DOMAIN params THEN BuildRepeat(params["replay"])
        ELSE BuildMsg(text, params)

\* A text that cannot be encoded makes parse raise, unless it is a replay.
ParseRaises(text, tags) ==
    /\ "replay" \notin DOMAIN ParseTags(tags)
    /\ \E i \in DOMAIN text : text[i] = Surrogate

-----------------------------------------------------------------------------
(* What a message asks for, said without the code's loops.                 *)

\* The value of the last tag with key k.
LastOf(tags, k) ==
    LET at == {i \in DOMAIN tags : tags[i].key = k}
    IN  IF at = {} THEN None
        ELSE tags[CHOOSE i \in at : \A j \in at : j <= i].value

Clamped(x, low, high) == IF x < low THEN low ELSE IF x > high THEN high ELSE x

\* The longest beginning of text that is no longer than MaxContent.
IsCut(content, text) ==
    /\ Size(content) <= MaxContent
    /\ IsPrefix(content, text)
    /\ content # text => Size(SubSeq(text, 1, Len(content) + 1)) > MaxContent

KnobAsAsked(knob, v, bounds) ==
    IF v = None \/ FloatOf[v] = Unreadable THEN knob = None
    ELSE FloatOf[v] # NaN => knob = Clamped(FloatOf[v], bounds[1], bounds[2])

\* The envelope is what the body and the tags ask for: a replay wins over
\* everything, of two tags with one key the later counts, and what cannot be
\* read is as good as absent.
IsAsAsked(envelope, text, tags) ==
    LET v(k) == LastOf(tags, k)
    IN  IF v("replay") # None
        THEN envelope.number = IF IntOf[v("replay")] = Unreadable THEN -1
                               ELSE IntOf[v("replay")]
        ELSE /\ IsCut(envelope.content, text)
             /\ envelope.voice = IF v("voice") \in Voices THEN v("voice") ELSE None
             /\ envelope.repeat =
                   IF v("repeat") = None \/ IntOf[v("repeat")] = Unreadable THEN 1
                   ELSE Clamped(IntOf[v("repeat")], 1, MaxRepeat)
             /\ KnobAsAsked(envelope.speed, v("speed"), SpeedRange)
             /\ KnobAsAsked(envelope.variation, v("variation"), VariationRange)
             /\ KnobAsAsked(envelope.rhythm, v("rhythm"), RhythmRange)
             /\ envelope.prepare = (v("prepare") \in On)

InRange(knob, bounds) == knob = None \/ knob \in bounds[1]..bounds[2]

\* "a float, clamped into `bounds`" (protocol.py:170-171).
KnobsClamped(envelope) ==
    "speed" \in DOMAIN envelope =>
        /\ InRange(envelope.speed, SpeedRange)
        /\ InRange(envelope.variation, VariationRange)
        /\ InRange(envelope.rhythm, RhythmRange)
=============================================================================
