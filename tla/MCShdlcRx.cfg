SPECIFICATION Spec
CONSTANTS
    Deliveries <- MCDeliveries
    MaxDataLens = {1, 17}
    Garbage <- MCGarbage
    MaxString = 7
CHECK_DEADLOCK FALSE
INVARIANTS
    NoStaleRead
    NoOverrun
    AcceptsExactly
    WholeIsAccepted
    AcceptedIsSent
