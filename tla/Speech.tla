------------------------------- MODULE Speech -------------------------------
(***************************************************************************)
(* What is heard of a message, across restarts of the service under other  *)
(* configurations.  The announcer's worker speaks one thing at a time: a   *)
(* segment of a message, from the cache or by an engine, or what one of    *)
(* the random picks put together.  A process that is started anew finds    *)
(* the cache of its predecessors.  Entries do not touch each other, so one *)
(* file of the cache stands for all; how files are kept is AudioCache's.   *)
(***************************************************************************)
EXTENDS Picks

CONSTANTS
    Configs,    \* the configurations the service is ever started with
    VoiceArgs,  \* what messages carry as their voice, Unset included
    Prosodies,  \* what messages carry as their knobs
    Texts       \* what is to be spoken

\* build_tts knows no other engine.
ASSUME ConfigsAssumption == \A c \in Configs : c.backend \in {"piper", "espeak"}

VARIABLES
    cfg,    \* the configuration of the running process
    entry,  \* a file of the cache: its key and the command it came from
    said    \* what was asked for last, and what was given for it

svars == <<cfg, entry, said>>

NoEntry == [key |-> Unset, command |-> Unset]
Silence == [kind |-> "silence"]

SInit ==
    /\ cfg \in Configs
    /\ entry = NoEntry
    /\ said = Silence

-----------------------------------------------------------------------------
\* CachedTts.synthesize, as far as the engine's answer is not empty.
Heard(v, p, t, command) ==
    [kind |-> "speech", voice |-> v, prosody |-> p, text |-> t, command |-> command]

CacheHit(v, p, t) ==
    /\ said = Silence
    /\ entry # NoEntry
    /\ entry.key = Key(cfg, v, p, t)
    /\ said' = Heard(v, p, t, entry.command)
    /\ UNCHANGED <<cfg, entry>>

\* An entry of that key may have expired, be deleted or not readable, or the
\* cache be switched off; and the audio may fail to be stored.
Render(v, p, t) ==
    /\ said = Silence
    /\ LET command == Command(cfg, v, p, t)
       IN  /\ said' = Heard(v, p, t, command)
           /\ entry' \in {entry, [key |-> Key(cfg, v, p, t), command |-> command]}
    /\ UNCHANGED cfg

\* A tag with the name of a file that the pick chose, as it is read back.
RandomSound(name) ==
    /\ said = Silence
    /\ Curated(name)
    /\ LET content == SoundMsg(name)
       IN  said' = [kind |-> "sound", file |-> name, spoken |-> SpokenOf(content),
                    played |-> {EffectOf(content, span) : span \in EffectsOf(content)}]
    /\ UNCHANGED <<cfg, entry>>

\* The pairs of a curse and a voice among which the pick chooses.
RandomCurse(intensity, style) ==
    /\ said = Silence
    /\ said' = [kind |-> "curse", intensity |-> intensity, style |-> style,
                msgs |-> CurseMsgs(cfg, intensity, style)]
    /\ UNCHANGED <<cfg, entry>>

\* It is over, or cut off.
Done ==
    /\ said # Silence
    /\ said' = Silence
    /\ UNCHANGED <<cfg, entry>>

\* The service is started again with other variables in its environment.
Reconfigure ==
    /\ said = Silence
    /\ cfg' \in Configs
    /\ UNCHANGED <<entry, said>>

SNext ==
    \/ \E v \in VoiceArgs, p \in Prosodies, t \in Texts : CacheHit(v, p, t) \/ Render(v, p, t)
    \/ \E name \in FileNames : RandomSound(name)
    \/ \E intensity \in Intensities \cup {Unset, "other"}, style \in Styles \cup {Unset, "other"} :
          RandomCurse(intensity, style)
    \/ Done
    \/ Reconfigure

SpeechSpec == SInit /\ [][SNext]_svars

-----------------------------------------------------------------------------
\* Audio found in the cache is what the engine would render now: whatever
\* was renamed, remapped or retuned since the process that rendered it
\* (tts.py:114-120, 191-195, 396-397).
HeardAsConfigured ==
    said.kind = "speech" =>
        said.command = Command(cfg, said.voice, said.prosody, said.text)

\* A random sound plays the file it was picked for and says nothing, the tag
\* being read back as the name it was built from (random_picks.py:121-136).
\* Two kinds of name are let through though they are not read back: those
\* with a backslash, and those with a blank at an end.
SoundPlaysItsFile ==
    (said.kind = "sound" /\ Backslash \notin ToSet(said.file) /\ Stripped(said.file) = said.file)
        => said.played = {said.file} /\ said.spoken = {}

Asked(intensity, style) ==
    {curse \in Intensities \X Styles :
        (intensity # Unset => curse[1] = intensity) /\ (style # Unset => curse[2] = style)}

\* Does the voice render as it was configured, not as the stand-in for a name
\* that nobody knows?
Known(voice) ==
    IF Route(cfg, voice) = "piper" THEN voice \in DOMAIN PiperVoices(cfg)
    ELSE voice \in DOMAIN cfg.espeakVoices \cup {cfg.espeakVoice}

\* Whatever is asked for, and however the service is configured, a curse can
\* be had: of the kind asked for if the library has any of that kind, and in
\* a voice that the routing knows (random_picks.py:161-176,
\* __main__.py:67-74, tts.py:318-343).  Only where a configured name is none
\* that a message can carry is it had in the default voice instead.
CurseIsHad ==
    said.kind = "curse" =>
        LET asked == Asked(said.intensity, said.style)
        IN  /\ said.msgs # {}
            /\ asked \cap Library # {} => \A m \in said.msgs : m[1] \in asked
            /\ \A m \in said.msgs :
                  Known(m[2]) \/ (m[2] = Unset /\ ~(VoiceNames(cfg) \subseteq Identifiers))
=============================================================================
