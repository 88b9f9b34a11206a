SPECIFICATION Spec
CONSTANTS
    Tpdos = {1, 2}
    Rpdos = {1}
    Inhibit <- Inhibit1
    EventTimer <- Timer2
    Deadline <- Deadline1
    SyncConfigs <- NoSync
    HbIntervals = {0}
    CountMax = 0
    HbTimeout = 1
    SdoTimeout = 1
    MaxSegments = 1
    Channels = {1}
    Monitored = {}
    Values = {"a"}
    TpdoConfigs <- EventTpdos
    RpdoConfigs <- EventRpdos
    AutoStart = FALSE
    EvtCap = 1
    HbCap = 1
    EmcyCap = 0
    Frames <- EventFrames
    RxCap = 1
    ArriveAt = {"rx"}
    AppCalls = {"notify", "od_config"}
PROPERTIES
    TriggersKept
