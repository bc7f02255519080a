SPECIFICATION Spec
CONSTANTS
    Requests <- MCRequests
    DeviceAddress = 98
    MaxPolls = 2
INVARIANTS
    BusIsFree
    MasterReleases
PROPERTIES
    ImplementsTransfer
    EveryCallReturns
