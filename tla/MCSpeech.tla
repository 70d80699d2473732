------------------------------ MODULE MCSpeech ------------------------------
(* An instance of Speech for TLC: 72 configurations that give the same     *)
(* names to other models, speakers and engines, and the file names of up   *)
(* to three characters.                                                    *)
EXTENDS Speech

CONSTANT None

MCVoiceArgs == {"eva", "pl", "man", "ghost", None}
MCKnobs(speed) == [speed |-> speed, variation |-> 60, rhythm |-> None]
MCProsodies == {MCKnobs(100), MCKnobs(None)}
MCTexts == {"hello", "bye"}
MCFlags(knobs) == <<knobs.speed, knobs.rhythm>>

MCExtras ==
    {[n \in {} |-> None],
     [n \in {"eva"} |-> Spec("large", 1)],
     [n \in {"eva", "man"} |-> Spec("large", IF n = "man" THEN 2 ELSE None)]}
MCAliases == {[n \in {} |-> ""], [n \in {"man"} |-> "pl+m3"], [n \in {"eva", "o'man"} |-> "pl+f1"]}

\* What a message can carry of the names above.
MCIdentifiers == {"eva", "man", "pl"}

MCConfigs ==
    [backend : {"piper", "espeak"}, defaultVoice : {"eva"}, model : {"small", "large"},
     extraVoices : MCExtras, espeakVoice : {"pl"}, espeakVoices : MCAliases,
     prosody : {MCKnobs(100), MCKnobs(None)}]

MCFileNames == UNION {[1..n -> Chars] : n \in 1..3}
=============================================================================
