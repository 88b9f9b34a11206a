SPECIFICATION PartsSpec
CONSTANTS
    Categories = {"current", "voltage"}
    GENERIC = "generic"
    QueueCap = 2
    MaxRaised = 6
    LssIds = {0, 127, 128, 255}
    FactoryId = 255
    Own = 5
    Tpdos = {1}
    Rpdos = {1}
    Extra = {1}
    ExtraPlans <- MCExtraPlans
    Subs = {1, 2}
    MaxMonitors = 1
    ReservedCap = 6
    PlanIds = {0, 128, 389, 517, 1413, 1541, 1600, 1797, 1798, 2021}
    PlanNodes = {0, 5, 6}
    Files <- MCFiles
    Options <- MCOptions
    Linked <- MCBootable
    Bootable <- MCBootable
    FlashFF = 0
    FlashJunk = 9
    FlashWord = 2
    ChunkSize = 2
    Capacity = 4
    Slots = 3
    SeqSpan = 16
    Polls = 1
    MaxQueued = 1
    MaxFaults = 1
    ChannelCap = 1
    MaxSessions = 2
    MaxSent = 2
    MaxSpoken = 2
    RxBufLen = 12
    WebBufLen = 12
    BusFrames <- MCBusFrames
    Noise <- MCNoise
    MaxLines = 2
    ReadSizes = {0, 1, 4}
    Target = 5
    RouterFrames <- MCRouterFrames
    HbCap = 3
    PdoCap = 2
    OtherCap = 1
    PortCap = 2
    MaxRouted = 4
    TxCapacity = 3
    RxCapacity = 2
    MaxTransmitAge = 3
    CloseTimeout = 2
    Prompt = FALSE
    MaxWsMessages = 2
    MaxMappings = 4
    MaxPdoNumber = 5
    StringCap = 8
    Scenarios = {"mixed", "records", "twins", "remapped", "vendor"}
    Declared <- MCDeclared
    AppValues <- MCAppValues
    Downloads <- MCDownloads
    Values <- MCValues
    LinkNode = 5
CHECK_DEADLOCK FALSE
INVARIANTS
    BusNeverUnderreports
    SelectedByWholeIdentity
    ServicesReached
    RecordedIsStored
    ReportIsTrue
    SessionFaithful
    FramesAreWholeLines
    RoutedInOrder
    NothingStale
    LinkAgrees
    ActiveMappingLegal
    DefaultsAgree
