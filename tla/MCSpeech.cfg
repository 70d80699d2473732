SPECIFICATION SpeechSpec
CONSTANTS
    None = None
    Unset = None
    Configs <- MCConfigs
    VoiceArgs <- MCVoiceArgs
    Prosodies <- MCProsodies
    Texts <- MCTexts
    Flags <- MCFlags
    FileNames <- MCFileNames
    Identifiers <- MCIdentifiers
INVARIANTS
    HeardAsConfigured
    SoundPlaysItsFile
    CurseIsHad
