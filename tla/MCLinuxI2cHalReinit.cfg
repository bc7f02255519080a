SPECIFICATION Spec
CONSTANTS
    MaxFd = 2
    Addresses <- MCAddresses
    Owned <- MCNone
INVARIANTS
    RightDevice
