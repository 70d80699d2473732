---------------------------- MODULE SpeechProofs ----------------------------
(***************************************************************************)
(* Proofs about Speech, for every set of configurations, voices, knobs and *)
(* texts, and whatever flags espeak-ng is given for three knobs.           *)
(***************************************************************************)
EXTENDS Speech, TLAPS

\* Equal keys have equal parts: the engine, what it speaks with, the
\* instance's knobs, the message's knobs and the text.
LEMMA KeyParts ==
    ASSUME NEW c1, NEW v1, NEW p1, NEW t1, NEW c2, NEW v2, NEW p2, NEW t2,
           Key(c1, v1, p1, t1) = Key(c2, v2, p2, t2)
    PROVE  /\ Fingerprint(c1, v1) = Fingerprint(c2, v2)
           /\ p1 = p2
           /\ t1 = t2
<1>1. /\ Key(c1, v1, p1, t1).fingerprint = Key(c2, v2, p2, t2).fingerprint
      /\ Key(c1, v1, p1, t1).prosody = Key(c2, v2, p2, t2).prosody
      /\ Key(c1, v1, p1, t1).text = Key(c2, v2, p2, t2).text
  OBVIOUS
<1>. QED
  BY <1>1 DEF Key

LEMMA FingerprintParts ==
    ASSUME NEW c1, NEW v1, NEW c2, NEW v2,
           Fingerprint(c1, v1) = Fingerprint(c2, v2)
    PROVE  /\ Route(c1, v1) = Route(c2, v2)
           /\ c1.prosody = c2.prosody
           /\ IF Route(c1, v1) = "piper" THEN VoiceSpec(c1, v1) = VoiceSpec(c2, v2)
              ELSE EspeakSpec(c1, v1) = EspeakSpec(c2, v2)
<1>1. /\ Fingerprint(c1, v1).engine = Fingerprint(c2, v2).engine
      /\ Fingerprint(c1, v1).spec = Fingerprint(c2, v2).spec
      /\ Fingerprint(c1, v1).prosody = Fingerprint(c2, v2).prosody
  OBVIOUS
<1>2. Route(c1, v1) = Route(c2, v2) /\ c1.prosody = c2.prosody
  BY <1>1 DEF Fingerprint
<1>3. Fingerprint(c1, v1).spec = Fingerprint(c2, v2).spec
  BY <1>1
<1>. QED
  BY <1>2, <1>3 DEF Fingerprint

\* The engine's command is a function of the key.
LEMMA KeyTells ==
    ASSUME NEW c1, NEW v1, NEW p1, NEW t1, NEW c2, NEW v2, NEW p2, NEW t2,
           Key(c1, v1, p1, t1) = Key(c2, v2, p2, t2)
    PROVE  Command(c1, v1, p1, t1) = Command(c2, v2, p2, t2)
<1>1. Fingerprint(c1, v1) = Fingerprint(c2, v2) /\ p1 = p2 /\ t1 = t2
  BY KeyParts
<1>2. /\ Route(c1, v1) = Route(c2, v2)
      /\ c1.prosody = c2.prosody
      /\ IF Route(c1, v1) = "piper" THEN VoiceSpec(c1, v1) = VoiceSpec(c2, v2)
         ELSE EspeakSpec(c1, v1) = EspeakSpec(c2, v2)
  BY <1>1, FingerprintParts
<1>3. Merge(c1.prosody, p1) = Merge(c2.prosody, p2)
  BY <1>1, <1>2
<1>4. CASE Route(c1, v1) = "piper"
  BY <1>1, <1>2, <1>3, <1>4 DEF Command
<1>5. CASE Route(c1, v1) # "piper"
  BY <1>1, <1>2, <1>3, <1>5 DEF Command
<1>. QED
  BY <1>4, <1>5

-----------------------------------------------------------------------------
Stored(c, v, p, t) == [key |-> Key(c, v, p, t), command |-> Command(c, v, p, t)]

\* An entry came from the command of some configuration, and some request.
SpeechInv ==
    /\ entry = NoEntry \/ \E c, v, p, t : entry = Stored(c, v, p, t)
    /\ HeardAsConfigured

\* Whatever configurations the service has run under, what is heard is what
\* the running one renders (CachedTts.synthesize, tts.py:402-418).
THEOREM AlwaysHeardAsConfigured == SpeechSpec => []HeardAsConfigured
<1>1. SInit => SpeechInv
  BY DEF SInit, SpeechInv, HeardAsConfigured, Silence
<1>2. SpeechInv /\ [SNext]_svars => SpeechInv'
  <2> SUFFICES ASSUME SpeechInv, [SNext]_svars
               PROVE  SpeechInv'
    OBVIOUS
  <2>1. ASSUME NEW v \in VoiceArgs, NEW p \in Prosodies, NEW t \in Texts, CacheHit(v, p, t)
        PROVE  SpeechInv'
    <3>1. PICK c, v0, p0, t0 : entry = Stored(c, v0, p0, t0)
      BY <2>1 DEF SpeechInv, CacheHit
    <3>2. Key(c, v0, p0, t0) = Key(cfg, v, p, t)
      BY <3>1, <2>1 DEF Stored, CacheHit
    <3>3. entry.command = Command(cfg, v, p, t)
      BY <3>1, <3>2, KeyTells DEF Stored
    <3>4. said' = Heard(v, p, t, Command(cfg, v, p, t)) /\ cfg' = cfg /\ entry' = entry
      BY <3>3, <2>1 DEF CacheHit
    <3>5. HeardAsConfigured'
      BY <3>4 DEF HeardAsConfigured, Heard
    <3>. QED
      BY <3>4, <3>5 DEF SpeechInv
  <2>2. ASSUME NEW v \in VoiceArgs, NEW p \in Prosodies, NEW t \in Texts, Render(v, p, t)
        PROVE  SpeechInv'
    <3>1. said' = Heard(v, p, t, Command(cfg, v, p, t)) /\ cfg' = cfg
      BY <2>2 DEF Render
    <3>2. entry' \in {entry, Stored(cfg, v, p, t)}
      BY <2>2 DEF Render, Stored
    <3>3. HeardAsConfigured'
      BY <3>1 DEF HeardAsConfigured, Heard
    <3>. QED
      BY <3>2, <3>3 DEF SpeechInv
  <2>3. ASSUME NEW name \in FileNames, RandomSound(name)
        PROVE  SpeechInv'
    BY <2>3 DEF RandomSound, SpeechInv, HeardAsConfigured
  <2>4. ASSUME NEW intensity, NEW style, RandomCurse(intensity, style)
        PROVE  SpeechInv'
    BY <2>4 DEF RandomCurse, SpeechInv, HeardAsConfigured
  <2>5. CASE Done
    BY <2>5 DEF Done, SpeechInv, HeardAsConfigured, Silence
  <2>6. CASE Reconfigure
    BY <2>6 DEF Reconfigure, SpeechInv, HeardAsConfigured, Silence
  <2>7. CASE UNCHANGED svars
    BY <2>7 DEF svars, SpeechInv, HeardAsConfigured
  <2>. QED
    BY <2>1, <2>2, <2>3, <2>4, <2>5, <2>6, <2>7 DEF SNext
<1>3. SpeechInv => HeardAsConfigured
  BY DEF SpeechInv
<1>. QED
  BY <1>1, <1>2, <1>3, PTL DEF SpeechSpec

-----------------------------------------------------------------------------
\* What matches is what was asked for, as far as there are curses of the kind.
LEMMA PoolAsAsked ==
    ASSUME NEW intensity, NEW style
    PROVE  /\ Pool(intensity, style) # {}
           /\ Asked(intensity, style) \cap Library # {} =>
                  Pool(intensity, style) \subseteq Asked(intensity, style)
<1>1. Library \subseteq Intensities \X Styles
  BY DEF Library, Intensities, Styles
<1>2. <<"mild", "funny">> \in Library
  BY DEF Library
<1>3. Matching(intensity, style) = Asked(intensity, style) \cap Library
  BY <1>1 DEF Matching, Asked
<1>. QED
  BY <1>2, <1>3 DEF Pool

\* The listed voices are those that the routing knows.
LEMMA ListedVoices ==
    ASSUME cfg \in Configs
    PROVE  VoiceNames(cfg) # {} /\ \A voice \in VoiceNames(cfg) : Known(voice)
<1>1. cfg.backend \in {"piper", "espeak"}
  BY ConfigsAssumption
<1>2. cfg.defaultVoice \in DOMAIN PiperVoices(cfg)
  BY DEF PiperVoices
<1>3. CASE cfg.backend = "piper"
  BY <1>2, <1>3 DEF VoiceNames, Known, Route
<1>4. CASE cfg.backend = "espeak"
  BY <1>4 DEF VoiceNames, Known, Route
<1>. QED
  BY <1>1, <1>3, <1>4

CurseInv ==
    /\ cfg \in Configs
    /\ said.kind = "curse" => said.msgs = CurseMsgs(cfg, said.intensity, said.style)

\* For every configuration and request a curse can be had, of the kind asked
\* for and in a voice that is configured, or in the default voice where a
\* configured name is none that a message can carry (random_curse_msg,
\* voice_names and _clean_voice).
THEOREM CurseIsAlwaysHad == SpeechSpec => []CurseIsHad
<1>1. SInit => CurseInv
  BY DEF SInit, CurseInv, Silence
<1>2. CurseInv /\ [SNext]_svars => CurseInv'
  <2> SUFFICES ASSUME CurseInv, [SNext]_svars
               PROVE  CurseInv'
    OBVIOUS
  <2>1. ASSUME NEW v \in VoiceArgs, NEW p \in Prosodies, NEW t \in Texts,
               CacheHit(v, p, t) \/ Render(v, p, t)
        PROVE  CurseInv'
    BY <2>1 DEF CacheHit, Render, Heard, CurseInv
  <2>2. ASSUME NEW name \in FileNames, RandomSound(name)
        PROVE  CurseInv'
    BY <2>2 DEF RandomSound, CurseInv
  <2>3. ASSUME NEW intensity, NEW style, RandomCurse(intensity, style)
        PROVE  CurseInv'
    BY <2>3 DEF RandomCurse, CurseInv
  <2>4. CASE Done
    BY <2>4 DEF Done, CurseInv, Silence
  <2>5. CASE Reconfigure
    BY <2>5 DEF Reconfigure, CurseInv, Silence
  <2>6. CASE UNCHANGED svars
    BY <2>6 DEF svars, CurseInv
  <2>. QED
    BY <2>1, <2>2, <2>3, <2>4, <2>5, <2>6 DEF SNext
<1>3. CurseInv => CurseIsHad
  <2> SUFFICES ASSUME CurseInv, said.kind = "curse"
               PROVE  /\ said.msgs # {}
                      /\ Asked(said.intensity, said.style) \cap Library # {} =>
                            \A m \in said.msgs : m[1] \in Asked(said.intensity, said.style)
                      /\ \A m \in said.msgs :
                            \/ Known(m[2])
                            \/ m[2] = Unset /\ ~(VoiceNames(cfg) \subseteq Identifiers)
    BY DEF CurseIsHad
  <2>1. said.msgs = {<<curse, CleanVoice(name)>> : curse \in Pool(said.intensity, said.style),
                                                   name \in VoiceNames(cfg)}
    BY DEF CurseInv, CurseMsgs
  <2>2. cfg \in Configs
    BY DEF CurseInv
  <2>3. /\ Pool(said.intensity, said.style) # {}
        /\ Asked(said.intensity, said.style) \cap Library # {} =>
              Pool(said.intensity, said.style) \subseteq Asked(said.intensity, said.style)
    BY PoolAsAsked
  <2>4. VoiceNames(cfg) # {} /\ \A voice \in VoiceNames(cfg) : Known(voice)
    BY <2>2, ListedVoices
  <2>5. said.msgs # {}
    <3>1. PICK curse, voice : curse \in Pool(said.intensity, said.style) /\ voice \in VoiceNames(cfg)
      BY <2>3, <2>4
    <3>2. <<curse, CleanVoice(voice)>> \in said.msgs
      BY <2>1, <3>1
    <3>. QED
      BY <3>2
  <2>6. ASSUME NEW m \in said.msgs
        PROVE  /\ m[1] \in Pool(said.intensity, said.style)
               /\ \/ Known(m[2])
                  \/ m[2] = Unset /\ ~(VoiceNames(cfg) \subseteq Identifiers)
    <3>1. PICK curse \in Pool(said.intensity, said.style), name \in VoiceNames(cfg) :
              m = <<curse, CleanVoice(name)>>
      BY <2>1
    <3>2. m[1] = curse /\ m[2] = CleanVoice(name)
      BY <3>1
    <3>3. CASE name \in Identifiers
      BY <2>4, <3>2, <3>3 DEF CleanVoice
    <3>4. CASE name \notin Identifiers
      BY <3>2, <3>4 DEF CleanVoice
    <3>. QED BY <3>2, <3>3, <3>4
  <2>. QED
    BY <2>3, <2>5, <2>6
<1>. QED
  BY <1>1, <1>2, <1>3, PTL DEF SpeechSpec

-----------------------------------------------------------------------------
\* The name that a pick is built from, where the tag can be read back.
ReadBack(name) ==
    /\ name \in Seq(Chars) \ {<<>>}
    /\ Curated(name)
    /\ Backslash \notin ToSet(name)
    /\ Stripped(name) = name

LEMMA CuratedChars ==
    ASSUME NEW name \in Seq(Chars), Curated(name)
    PROVE  \A i \in DOMAIN name : name[i] \notin {Dot, "<", ">", Star}
BY DEF Curated, ToSet

\* A tag around a curated name holds the name, and is the only tag.
LEMMA OneTag ==
    ASSUME NEW name \in Seq(Chars) \ {<<>>}, Curated(name)
    PROVE  /\ Len(name) \in Nat \ {0}
           /\ SoundMsg(name) \in Seq(Chars)
           /\ DOMAIN SoundMsg(name) = 1..(Len(name) + 2)
           /\ TagsOf(SoundMsg(name)) = {<<1, Len(name) + 2>>}
           /\ SubSeq(SoundMsg(name), 2, Len(name) + 1) = name
<1> DEFINE n == Len(name)
           content == SoundMsg(name)
<1>1. n \in Nat \ {0} /\ DOMAIN name = 1..n
  OBVIOUS
<1>2. content \in Seq(Chars) /\ Len(content) = n + 2
  BY DEF SoundMsg, Chars
<1>3. DOMAIN content = 1..(n + 2)
  BY <1>1, <1>2
<1>4. content[1] = "<" /\ content[n + 2] = ">"
  BY <1>1 DEF SoundMsg
<1>5. \A i \in 2..(n + 1) : content[i] = name[i - 1] /\ i - 1 \in DOMAIN name
  BY <1>1 DEF SoundMsg
<1>6. \A i \in 2..(n + 1) : content[i] \notin {"<", ">"}
  BY <1>5, CuratedChars
<1>7. TagsOf(content) = {<<1, n + 2>>}
  <2> HIDE DEF content, n
  <2>1. <<1, n + 2>> \in TagsOf(content)
    <3>1. \A i \in 2..(n + 2 - 1) : content[i] \notin {"<", ">"}
      BY <1>1, <1>6
    <3>. QED BY <1>1, <1>3, <1>4, <3>1 DEF TagsOf
  <2>2. ASSUME NEW span \in TagsOf(content) PROVE span = <<1, n + 2>>
    <3>1. PICK a \in 1..(n + 2), b \in 1..(n + 2) : span = <<a, b>>
      BY <1>3 DEF TagsOf
    <3>2. content[a] = "<" /\ content[b] = ">"
      BY <3>1 DEF TagsOf
    <3>3. a \notin 2..(n + 1) /\ b \notin 2..(n + 1)
      BY <1>6, <3>2
    <3>4. "<" # ">"
      OBVIOUS
    <3>5. a # n + 2 /\ b # 1
      BY <1>4, <3>2, <3>4
    <3>. QED BY <1>1, <3>1, <3>3, <3>5
  <2>. QED BY <2>1, <2>2
<1>8. SubSeq(content, 2, n + 1) = name
  <2> HIDE DEF content, n
  <2>1. SubSeq(content, 2, n + 1) \in Seq(Chars) /\ Len(SubSeq(content, 2, n + 1)) = n
    BY <1>1, <1>2
  <2>2. \A i \in 1..n : SubSeq(content, 2, n + 1)[i] = content[i + 1]
    BY <1>1, <1>2
  <2>3. \A i \in 1..n : SubSeq(content, 2, n + 1)[i] = name[i]
    BY <1>1, <1>5, <2>2
  <2>. QED BY <1>1, <2>1, <2>3 DEF n
<1>. QED BY <1>1, <1>2, <1>3, <1>7, <1>8

\* What is between the brackets names the file.
LEMMA NameReadBack ==
    ASSUME NEW name, ReadBack(name)
    PROVE  EffectName(name) = name /\ IsEffect(name)
<1>1. \A i \in DOMAIN name : name[i] \notin {Dot, Star}
  BY CuratedChars DEF ReadBack
<1>2. Counted(name) = {}
  <2>1. name \in Seq(Chars) /\ DOMAIN name = 1..Len(name) /\ Len(name) \in Nat
    BY DEF ReadBack
  <2>. QED BY <1>1, <2>1 DEF Counted
<1>3. EffectName(name) = name
  BY <1>2 DEF EffectName, ReadBack
<1>4. name \notin {<<Dot>>, <<Dot, Dot>>}
  BY <1>1
<1>. QED BY <1>3, <1>4 DEF IsEffect, ReadBack

SoundInv ==
    said.kind = "sound" =>
        \E name \in FileNames :
            /\ Curated(name)
            /\ said.file = name
            /\ said.spoken = SpokenOf(SoundMsg(name))
            /\ said.played = {EffectOf(SoundMsg(name), span) : span \in EffectsOf(SoundMsg(name))}

\* For every directory of files, whatever is in their names: a random sound
\* plays the file it was picked for and nothing is read aloud, but for names
\* with a backslash or a blank at an end (random_sound_msg, split_segments).
THEOREM SoundAlwaysPlaysItsFile == SpeechSpec => []SoundPlaysItsFile
<1>1. SInit => SoundInv
  BY DEF SInit, SoundInv, Silence
<1>2. SoundInv /\ [SNext]_svars => SoundInv'
  <2> SUFFICES ASSUME SoundInv, [SNext]_svars
               PROVE  SoundInv'
    OBVIOUS
  <2>1. ASSUME NEW v \in VoiceArgs, NEW p \in Prosodies, NEW t \in Texts,
               CacheHit(v, p, t) \/ Render(v, p, t)
        PROVE  SoundInv'
    BY <2>1 DEF CacheHit, Render, Heard, SoundInv
  <2>2. ASSUME NEW name \in FileNames, RandomSound(name)
        PROVE  SoundInv'
    BY <2>2 DEF RandomSound, SoundInv
  <2>3. ASSUME NEW intensity, NEW style, RandomCurse(intensity, style)
        PROVE  SoundInv'
    BY <2>3 DEF RandomCurse, SoundInv
  <2>4. CASE Done
    BY <2>4 DEF Done, SoundInv, Silence
  <2>5. CASE Reconfigure
    BY <2>5 DEF Reconfigure, SoundInv, Silence
  <2>6. CASE UNCHANGED svars
    BY <2>6 DEF svars, SoundInv
  <2>. QED
    BY <2>1, <2>2, <2>3, <2>4, <2>5, <2>6 DEF SNext
<1>3. SoundInv => SoundPlaysItsFile
  <2> SUFFICES ASSUME SoundInv, said.kind = "sound",
                      Backslash \notin ToSet(said.file), Stripped(said.file) = said.file
               PROVE  said.played = {said.file} /\ said.spoken = {}
    BY DEF SoundPlaysItsFile
  <2>1. PICK name \in FileNames :
            /\ Curated(name)
            /\ said.file = name
            /\ said.spoken = SpokenOf(SoundMsg(name))
            /\ said.played = {EffectOf(SoundMsg(name), span) : span \in EffectsOf(SoundMsg(name))}
    BY DEF SoundInv
  <2> DEFINE content == SoundMsg(name)
             whole == <<1, Len(name) + 2>>
  <2>2. name \in Seq(Chars) \ {<<>>} /\ ReadBack(name)
    BY <2>1, FileNamesAssumption DEF ReadBack
  <2>3. /\ TagsOf(content) = {whole}
        /\ DOMAIN content = 1..(Len(name) + 2)
        /\ SubSeq(content, 2, Len(name) + 1) = name
        /\ Len(name) \in Nat
    BY <2>1, <2>2, OneTag
  <2>4. EffectOf(content, whole) = name
    <3>1. whole[1] + 1 = 2 /\ whole[2] - 1 = Len(name) + 1
      BY <2>3
    <3>2. EffectOf(content, whole) = EffectName(SubSeq(content, 2, Len(name) + 1))
      BY <3>1 DEF EffectOf
    <3>. QED BY <2>2, <2>3, <3>2, NameReadBack
  <2>5. EffectsOf(content) = {whole}
    BY <2>2, <2>3, <2>4, NameReadBack DEF EffectsOf
  <2>6. said.played = {name}
    BY <2>1, <2>4, <2>5
  <2>7. SpokenOf(content) = {}
    <3>1. \A i \in DOMAIN content : i \in whole[1]..whole[2]
      BY <2>3
    <3>. QED BY <2>5, <3>1 DEF SpokenOf
  <2>. QED BY <2>1, <2>6, <2>7
<1>. QED
  BY <1>1, <1>2, <1>3, PTL DEF SpeechSpec
=============================================================================
