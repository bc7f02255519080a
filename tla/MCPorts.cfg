SPECIFICATION PortsSpec
CONSTANTS
    Hals <- MCHals
    TIMEOUT = 3
    McuAddresses = {0, 98}
    Buses <- MCBuses
    Devices = {1, 9}
    Errors <- MCErrors
    Delays <- MCDelays
    IntBits = 16
    PinLayers <- MCPinLayers
    MaxFiles = 10
    MaxFd = 3
    Addresses <- MCAddresses
    Owned = {98}
INVARIANTS
    SuccessIsTransferred
    SleepsLongEnough
    ActsAsOpenDrain
    HighIsBrief
    OwnDescriptor
    RightOnFirstInit
    OwnTty
PROPERTIES
    EveryCallReturns
