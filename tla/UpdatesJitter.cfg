SPECIFICATION Spec
CONSTANTS
    Services <- OnePerSource
    Pollers <- MCPollers
    PollerOf <- OnePollerOf
    First = "bsr"
    Debounce = FALSE
    Bad <- MCBad
    QuietStartup = TRUE
    MaxVersion = 3
    Nil = Nil
PROPERTIES
    EventuallyCurrent
CHECK_DEADLOCK FALSE
