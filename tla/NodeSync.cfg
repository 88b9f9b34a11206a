SPECIFICATION Spec
CONSTANTS
    Tpdos = {1}
    Rpdos = {1}
    Inhibit <- NoTimes
    EventTimer <- NoTimes
    Deadline <- NoDeadlines
    SyncConfigs <- SyncedWays
    HbIntervals = {0}
    CountMax = 0
    HbTimeout = 1
    SdoTimeout = 1
    MaxSegments = 1
    Channels = {1}
    Monitored = {}
    Values = {"a", "b"}
    TpdoConfigs <- SyncedTpdos
    RpdoConfigs <- SyncedRpdos
    AutoStart = TRUE
    EvtCap = 1
    HbCap = 1
    EmcyCap = 0
    Frames <- SyncFrames
    RxCap = 1
    ArriveAt = {"rx"}
    AppCalls = {"notify", "od_mut"}
INVARIANTS
    NoPdoWorkOutsideOperational
    SamplesOfLastPulse
PROPERTIES
    CountersFollowBus
