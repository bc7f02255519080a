SPECIFICATION LinkSpec
CONSTANTS
    NumCalls = 4
    Script <- MCScript
    MaxRxDataLen = 2
    MaxFaults = 1
    Blocking = TRUE
CHECK_DEADLOCK FALSE
PROPERTIES
    EveryCallReturns
