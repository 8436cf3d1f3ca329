SPECIFICATION Spec
CONSTANTS
    Services <- MCServices
    Pollers <- MCPollers
    PollerOf <- MCPollerOf
    First = Nil
    Debounce = FALSE
    Bad <- MCBad
    QuietStartup = FALSE
    MaxVersion = 3
    Nil = Nil
INVARIANTS
    NoLostUpdate
CHECK_DEADLOCK FALSE
