SPECIFICATION FairSpec
CONSTANTS
    Tpdos = {}
    Rpdos = {}
    Inhibit <- NoTimes
    EventTimer <- NoTimes
    Deadline <- NoDeadlines
    SyncConfigs <- NoSync
    HbIntervals = {0, 1, 2}
    CountMax = 0
    HbTimeout = 1
    SdoTimeout = 1
    MaxSegments = 1
    Channels = {1}
    Monitored = {}
    Values = {"a", "b"}
    TpdoConfigs <- NoConfigs
    RpdoConfigs <- NoConfigs
    AutoStart = FALSE
    EvtCap = 1
    HbCap = 1
    EmcyCap = 1
    Frames <- LifeFrames
    RxCap = 1
    ArriveAt = {"idle"}
    AppCalls = {"set_error", "od_config", "request_reset", "take_reset_event", "next_event"}
INVARIANTS
    ServicesPermitted
PROPERTIES
    BootsAgain
    ChannelFreed
    HeartbeatsContinue
