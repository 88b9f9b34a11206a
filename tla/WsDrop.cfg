SPECIFICATION WsSpec
CONSTANTS
    TxCapacity = 3
    RxCapacity = 2
    MaxTransmitAge = 3
    CloseTimeout = 2
    Prompt = TRUE
    MaxWsMessages = 3
CHECK_DEADLOCK FALSE
INVARIANT DropCostsCloseTimeout
