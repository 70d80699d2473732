------------------------------- MODULE Picks -------------------------------
(***************************************************************************)
(* The random picks (src/krzykacz/random_picks.py): a sound whose name is  *)
(* wrapped in a tag that split_segments has to read back, and a curse from *)
(* the library.  A name is a sequence of kinds of character: a letter, a   *)
(* digit, a blank, a dot, a star, a backslash, and the two brackets.       *)
(***************************************************************************)
EXTENDS Engines, Integers, Sequences, SequencesExt

CONSTANTS
    FileNames,   \* the regular files of the assets directory
    Identifiers  \* the voice names that a message may carry: [A-Za-z0-9_-]+

Letter    == "a"
Digit     == "1"
Blank     == " "
Star      == "*"
Dot       == "."
Backslash == "\\"
Chars     == {Letter, Digit, Blank, Star, Dot, Backslash, "<", ">"}

\* A file has a name.
ASSUME FileNamesAssumption == FileNames \subseteq Seq(Chars) \ {<<>>}

-----------------------------------------------------------------------------
(* random_sound_msg.                                                       *)

\* Mutant: stars are let through.
CuratedOrStarred(name) == ToSet(name) \cap {Dot, "<", ">"} = {}

Curated(name) == ToSet(name) \cap {Dot, "<", ">", Star} = {}

SoundMsg(name) == <<"<">> \o name \o <<">">>

-----------------------------------------------------------------------------
(* split_segments, for a content of single characters.                     *)

Lowest(at) == CHOOSE i \in at : \A j \in at : i <= j
Highest(at) == CHOOSE i \in at : \A j \in at : i >= j

Stripped(text) ==
    LET solid == {i \in DOMAIN text : text[i] # Blank}
    IN  IF solid = {} THEN <<>> ELSE SubSeq(text, Lowest(solid), Highest(solid))

\* <[^<>]+>: where the tags begin and end.
TagsOf(content) ==
    {span \in (DOMAIN content) \X (DOMAIN content) :
        /\ content[span[1]] = "<" /\ content[span[2]] = ">"
        /\ span[2] > span[1] + 1
        /\ \A i \in (span[1] + 1)..(span[2] - 1) : content[i] \notin {"<", ">"}}

\* The count that a last "*" and digits after it stand for.
Counted(raw) ==
    {i \in 2..(Len(raw) - 1) :
        raw[i] = Star /\ \A j \in (i + 1)..Len(raw) : raw[j] = Digit}

EffectName(body) ==
    LET raw == Stripped(body)
        at  == Counted(raw)
    IN  IF at = {} THEN raw ELSE Stripped(SubSeq(raw, 1, Highest(at) - 1))

\* Names with a "/" cannot be files, so only these are no effect at all.
IsEffect(name) ==
    name # <<>> /\ Backslash \notin ToSet(name) /\ name \notin {<<Dot>>, <<Dot, Dot>>}

EffectOf(content, span) == EffectName(SubSeq(content, span[1] + 1, span[2] - 1))

EffectsOf(content) == {span \in TagsOf(content) : IsEffect(EffectOf(content, span))}

\* The characters that are read aloud.
SpokenOf(content) ==
    {i \in DOMAIN content :
        /\ content[i] # Blank
        /\ \A span \in EffectsOf(content) : i \notin span[1]..span[2]}

-----------------------------------------------------------------------------
(* random_curse_msg.                                                       *)

Intensities == {"mild", "medium", "strong"}
Styles == {"staropolskie", "modern", "funny", "grim"}

\* What the library has curses for.
Library ==
    ({"mild", "medium"} \X {"funny"}) \cup ({"medium", "strong"} \X {"grim"})
    \cup (Intensities \X {"staropolskie", "modern"})

Matching(intensity, style) ==
    {curse \in Library : /\ intensity \in {Unset, curse[1]}
                         /\ style \in {Unset, curse[2]}}

\* Mutant: a filter that matches nothing picks nothing.
PoolNarrow(intensity, style) == Matching(intensity, style)

Pool(intensity, style) ==
    IF Matching(intensity, style) = {} THEN Library ELSE Matching(intensity, style)

\* A configured name may be anything; one that a message cannot carry is
\* dropped from it, as _clean_voice does.
CleanVoice(name) == IF name \in Identifiers THEN name ELSE Unset

CurseMsgs(cfg, intensity, style) ==
    {<<curse, CleanVoice(name)>> : curse \in Pool(intensity, style), name \in VoiceNames(cfg)}

=============================================================================
