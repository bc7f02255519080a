SPECIFICATION Spec
CONSTANTS
    Requests <- MCRequests
    DeviceAddress = 98
    MaxPolls = 2
PROPERTIES
    ReadIsFaithful
