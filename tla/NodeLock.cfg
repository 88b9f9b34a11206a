SPECIFICATION Spec
CONSTANTS
    Tpdos = {1}
    Rpdos = {}
    Inhibit <- NoTimes
    EventTimer <- NoTimes
    Deadline <- NoDeadlines
    SyncConfigs <- NoSync
    HbIntervals = {0}
    CountMax = 0
    HbTimeout = 1
    SdoTimeout = 2
    MaxSegments = 1
    Channels = {1}
    Monitored = {}
    Values = {"a", "b"}
    TpdoConfigs <- LockTpdos
    RpdoConfigs <- NoConfigs
    AutoStart = FALSE
    EvtCap = 1
    HbCap = 1
    EmcyCap = 0
    Frames <- LockFrames
    RxCap = 1
    ArriveAt = {"rx"}
    AppCalls = {}
PROPERTIES
    PdoConfigLockedInOperational
