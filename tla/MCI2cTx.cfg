SPECIFICATION Spec
CONSTANTS
    Commands   <- MCCommands
    Values     <- MCValues
    Arrays     <- MCArrays
    ArgLists   <- MCArgLists
    BufferSize = 11
    Stale      <- MCStale
INVARIANTS
    SuccessIsDelivered
    ValuesSurvive
    ErrorIsRecognisable
