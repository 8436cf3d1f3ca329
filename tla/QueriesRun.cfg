SPECIFICATION QuerySpec
CONSTANTS
    Descriptors <- MCDescriptors
    Services <- MCServices
    Route = Nil
    Options <- MCOptions
    Requests <- MCRequests
    MaxDepth = 3
    ValuesOf <- MCValuesOf
    Errors <- MCErrors
    EnumNames <- MCEnumNames
    MaxAnys = 2
    KnownTypes = {"Post"}
    Bits32 = 3
    Mantissa = 4
    Bits64 = 6
    none = none
    Nil = Nil
INVARIANTS
    AcceptedIsAnswerable
    FetchIsSafe
    ResponseFitsSchema
    EveryFieldSelectable
    ReadableBySchema
    ErrorsStandOut
    ListedAsAccepted
