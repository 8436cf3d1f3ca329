SPECIFICATION Spec
CONSTANTS
    none = none
    Nil = none
    DefaultSuites = {"aes"}
    AllSuites = {"aes", "rc4"}
    Pairs <- MCPairs
    CAFiles = {"ca"}
    SetFiles = {"set"}
    Modules = {"mod", "mod2"}
    LiveSockets = {"live"}
    ExtConfigs <- tlsSettings
    Started <- MCNone
    MaxRestarts = 1
    Files <- MCFiles
    Deps <- MCDeps
    Symbols <- MCSymbols
    FileOf <- MCFileOf
    WholeReplies = TRUE
INVARIANTS
    StanzaPrevails
CHECK_DEADLOCK FALSE
