SPECIFICATION MCSpec
CONSTANTS
    Reqs <- MCReqs
    Slots <- MCSlots
    Up <- MCUp
    Key <- MCKey
    OnError <- FetchOnError
    ForFetch = TRUE
    MaxParallelism = 2
    Nil = Nil
    Contents <- MCContents
    Escapes = TRUE
    Empties = TRUE
    MaxMsgs = 4
    Mask <- MCMask
    Within <- MCWithin
    Path <- MCPath
    Relations <- MCRelations
    Method = "GetUser"
    Procedure = "Knit.Fetch"
    Inbound <- MCInbound
    Kept = {"Authorization", "Knit-Operations", "Knit-Client-Subject"}
    Subjects = {"CN=client"}
    none = none
INVARIANTS
    NoSilentGap
    SemaphoreExact
    NothingLeftRunning
    ResolvedOnce
    OneBatchPerMask
    NoPanic
    FaithfulPrefix
    NothingDropped
    RightUnlessShared
    HeadersReachResolvers
PROPERTIES
    AnswersAtOnce
    FetchTerminates
    Answered
    ResolvedPathsStay
CHECK_DEADLOCK FALSE
