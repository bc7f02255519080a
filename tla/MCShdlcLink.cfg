SPECIFICATION LinkSpec
CONSTANTS
    NumCalls = 5
    Script <- MCScript
    MaxRxDataLen = 2
    MaxFaults = 2
    Blocking = FALSE
PROPERTIES
    ImplementsExchange
    OwnResponse
    Resynchronises
    EveryCallReturns
