SPECIFICATION Spec
CONSTANTS
    Services <- OnePerSource
    Pollers <- MCPollers
    PollerOf <- OnePollerOf
    First = Nil
    Debounce = TRUE
    Bad <- MCBad
    QuietStartup = TRUE
    MaxVersion = 3
    Nil = Nil
INVARIANTS
    NoLostUpdate
PROPERTIES
    SwapsLikeARegister
    EventuallyCurrent
    UpdaterTerminates
CHECK_DEADLOCK FALSE
