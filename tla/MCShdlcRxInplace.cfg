SPECIFICATION Spec
CONSTANTS
    Deliveries <- MCDeliveries
    ExpectedLens = {1, 17}
    Stale <- MCStale
    MaxString = 6
CHECK_DEADLOCK FALSE
INVARIANTS
    InBuffer
    UnreadIsIntact
    AcceptsExactly
    WholeIsAccepted
    AcceptedIsSent
