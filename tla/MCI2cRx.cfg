SPECIFICATION ReadSpec
CONSTANTS
    Deliveries <- MCDeliveries
    Calls = {"bytes", "words", "command", "inplace"}
    Contents <- MCContents
INVARIANTS
    SuccessIsSent
    WordsAreSent
    CrcErrorKeepsGoodWords
    UnreadIsIntact
    AnswerIsFresh
CHECK_DEADLOCK FALSE
