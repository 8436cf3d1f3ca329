SPECIFICATION Spec
CONSTANTS
    Reqs <- MixedReqs
    Slots <- MixedSlots
    Up <- MixedUp
    Key <- MixedKey
    OnError <- MixedOnError
    ForFetch = TRUE
    MaxParallelism = 0
    Nil = Nil
INVARIANTS
    NoPanic
CHECK_DEADLOCK FALSE
