SPECIFICATION ReadSpec
CONSTANTS
    Deliveries <- MCLongDeliveries
    Calls = {"inplace"}
    Contents <- MCLongContents
INVARIANT SuccessIsSent
CHECK_DEADLOCK FALSE
