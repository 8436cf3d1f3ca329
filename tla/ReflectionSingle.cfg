SPECIFICATION Spec
CONSTANTS
    Files <- MCFiles
    Deps <- MCDeps
    Symbols <- MCSymbols
    FileOf <- MCFileOf
    WholeReplies = FALSE
INVARIANTS
    WholeGraph

CHECK_DEADLOCK FALSE
