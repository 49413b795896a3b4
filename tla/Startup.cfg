SPECIFICATION StartupSpec
CONSTANTS
    Launches <- MCLaunches
    Options <- MCOptions
    ExternalControl = FALSE
    UnwrittenSends = FALSE
    MaxFaults = 2
    MaxHistory = 3
    Texts <- MCTexts
    NULL = NULL
    Unset = Unset
    Trimmed <- MCTrimmed
    LowerCase <- MCLowerCase
    ParseInt <- MCParseInt
    StrictNumber <- MCNumbers
    JidParts <- MCJidParts
    JidLists <- MCJidLists
    Undecodable = {"bad escape"}
    LoopbackHosts = {"localhost", "127.0.0.1"}
    BrokenNames = {"a/b"}
    UnfitNames = {"endless"}
    BadAccounts = {"", "two words"}
    BadDomains = {"", ".plant", "elsewhere:"}
    Decimal <- MCDecimal
INVARIANTS
    ExitIsHonest
    RulesAgree
    CopiedSettingsConnect
PROPERTIES
    DoneIsFinal
    LaunchEnds
CHECK_DEADLOCK FALSE
