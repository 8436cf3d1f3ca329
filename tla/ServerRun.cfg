SPECIFICATION MCSpec
CONSTANTS
    Listeners <- MCListeners
    Servers <- MCServers
    ServerOf <- MCServerOf
    MaxActive = 2
    Callers = {a, b}
    Radix = 2
    MaxParents = 2
    MaxChildren = 1
    Bases <- MCBases
    none = none
INVARIANTS
    GracefulExit
    RoutedToItsMethod
    GoneStaysGone
    ParentOfItsChild
PROPERTIES
    StopsAsAWhole
    ShutdownHasAReason
    FetchChangesNothing
CHECK_DEADLOCK FALSE
