------------------------------ MODULE Engines ------------------------------
(***************************************************************************)
(* Which command renders a text, and under which key its audio is cached   *)
(* (src/krzykacz/tts.py, config.py and __main__.py).  The cache outlives   *)
(* the process, and so sees what was rendered under other configurations.  *)
(*                                                                         *)
(* A configuration is a record of                                          *)
(*    backend       "piper" or "espeak"                                    *)
(*    defaultVoice  KRZYKACZ_PIPER_DEFAULT_VOICE                           *)
(*    model         KRZYKACZ_PIPER_MODEL                                   *)
(*    extraVoices   KRZYKACZ_PIPER_VOICES: name -> model and speaker       *)
(*    espeakVoice   KRZYKACZ_ESPEAK_VOICE                                  *)
(*    espeakVoices  KRZYKACZ_ESPEAK_VOICES: name -> espeak-ng voice        *)
(*    prosody       the instance's speed, variation and rhythm             *)
(* Knobs are opaque: how the engines' flags round them is left open.       *)
(***************************************************************************)
CONSTANTS
    Flags(_),   \* the flags espeak-ng is given for the three knobs
    Unset       \* Python's None

Spec(model, speaker) == [model |-> model, speaker |-> speaker]

\* The extra voices update the default one, and may redefine it.
PiperVoices(cfg) ==
    [name \in {cfg.defaultVoice} \cup DOMAIN cfg.extraVoices |->
        IF name \in DOMAIN cfg.extraVoices THEN cfg.extraVoices[name]
        ELSE Spec(cfg.model, Unset)]

VoiceSpec(cfg, voice) ==
    LET voices == PiperVoices(cfg)
    IN  IF voice \in DOMAIN voices THEN voices[voice] ELSE voices[cfg.defaultVoice]

\* A name that is no alias is taken for an espeak-ng voice.
EspeakSpec(cfg, voice) ==
    IF voice = Unset THEN cfg.espeakVoice
    ELSE IF voice \in DOMAIN cfg.espeakVoices THEN cfg.espeakVoices[voice]
    ELSE voice

\* RoutedTts: espeak-ng's aliases that are no voice of Piper's.
Route(cfg, voice) ==
    IF \/ cfg.backend = "espeak"
       \/ voice \in DOMAIN cfg.espeakVoices \ DOMAIN PiperVoices(cfg)
    THEN "espeak" ELSE "piper"

\* The knobs a message sets win over the instance's.
Merge(prosody, override) ==
    [knob \in {"speed", "variation", "rhythm"} |->
        IF override[knob] # Unset THEN override[knob] ELSE prosody[knob]]

\* Mutant: the instance's knobs are left out.
FingerprintUnscaled(cfg, voice) ==
    [engine |-> Route(cfg, voice),
     spec |-> IF Route(cfg, voice) = "piper" THEN VoiceSpec(cfg, voice)
              ELSE EspeakSpec(cfg, voice),
     prosody |-> Unset]

Fingerprint(cfg, voice) ==
    [engine |-> Route(cfg, voice),
     spec |-> IF Route(cfg, voice) = "piper" THEN VoiceSpec(cfg, voice)
              ELSE EspeakSpec(cfg, voice),
     prosody |-> cfg.prosody]

\* CachedTts._path; the digest is taken for the text that it digests.
Key(cfg, voice, prosody, text) ==
    [fingerprint |-> Fingerprint(cfg, voice), prosody |-> prosody, text |-> text]

\* piper's flags say the knobs one by one, rounded to four digits;
\* espeak-ng's are worked out from them.
PiperCommand(spec, knobs, text) ==
    [engine |-> "piper", model |-> spec.model, speaker |-> spec.speaker,
     knobs |-> knobs, input |-> text]

EspeakCommand(spec, knobs, text) ==
    [engine |-> "espeak", voice |-> spec, flags |-> Flags(knobs), input |-> text]

Command(cfg, voice, prosody, text) ==
    LET knobs == Merge(cfg.prosody, prosody)
    IN  IF Route(cfg, voice) = "piper"
        THEN PiperCommand(VoiceSpec(cfg, voice), knobs, text)
        ELSE EspeakCommand(EspeakSpec(cfg, voice), knobs, text)

\* What a caller is told it may pass as a voice, and the random curses use.
VoiceNames(cfg) ==
    DOMAIN cfg.espeakVoices \cup
        IF cfg.backend = "piper" THEN DOMAIN PiperVoices(cfg) ELSE {cfg.espeakVoice}

=============================================================================
