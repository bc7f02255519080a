SPECIFICATION Spec
CONSTANTS
    Addresses <- MCAddresses
    Commands <- MCCommands
    Payloads <- MCPayloads
    Uint8Args <- MCUint8Args
    Int16Args <- MCInt16Args
    Int32Args <- MCInt32Args
    MaxPayload = 4
    HalErrors <- MCHalErrors
INVARIANTS
    TypeOK
    Transparent
    FitsBuffer
    BuilderMatchesTx
    SuccessIsDelivered
    IncompleteIsRejected
