SPECIFICATION StreamSpec
CONSTANTS
    Contents <- MCContents
    Escapes = TRUE
    Empties = TRUE
    MaxMsgs = 4
INVARIANTS
    EachMessageForItself
CHECK_DEADLOCK FALSE
