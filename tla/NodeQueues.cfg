SPECIFICATION QueueSpec
CONSTANTS
    Tpdos = {}
    Rpdos = {1}
    Inhibit <- NoTimes
    EventTimer <- NoTimes
    Deadline <- Deadline1
    SyncConfigs <- NoSync
    HbIntervals = {0}
    HbTimeout = 1
    SdoTimeout = 2
    MaxSegments = 2
    Channels = {1, 2}
    Monitored = {5}
    Values = {"a"}
    TpdoConfigs <- NoConfigs
    RpdoConfigs <- QueueRpdos
    AutoStart = FALSE
    EvtCap = 1
    HbCap = 1
    EmcyCap = 0
    CountMax = 2
    Frames <- QueueFrames
    RxCap = 1
    ArriveAt = {"rx"}
    AppCalls = {"next_event", "request_reset", "take_reset_event"}
INVARIANTS
    TimeoutAbortReplacesNothing
    EvictionsCounted
