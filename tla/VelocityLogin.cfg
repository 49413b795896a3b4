SPECIFICATION FairSpec
CONSTANTS
    s1 = s1
    s2 = s2
    Registered = {s1, s2}
    Custom = Custom
    All = All
    Retries = 1
    Plans <- MCPlans
INVARIANTS
    TokensKeepTheirSignIn
    ServersAreCurrent
PROPERTIES
    SettingsAreApplied
    NewestChangeWins
    DialogIsAnswered
CHECK_DEADLOCK FALSE
