SPECIFICATION Spec
CONSTANTS
    none = none
    Nil = none
    DefaultSuites = {"aes"}
    AllSuites = {"aes", "rc4"}
    Pairs <- MCPairs
    CAFiles = {"ca"}
    SetFiles = {"set"}
    Modules = {"mod", "mod2"}
    LiveSockets = {"live"}
    ExtConfigs <- MCStarted
    Started <- MCStarted
    MaxRestarts = 1
    Files <- MCFiles
    Deps <- MCDeps
    Symbols <- MCSymbols
    FileOf <- MCFileOf
    WholeReplies = TRUE
INVARIANTS
    SyncsAllOthers
CHECK_DEADLOCK FALSE
