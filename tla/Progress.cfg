SPECIFICATION ProgressSpec
CONSTANTS
    Contents = {"blank", "x", "y"}
    Blank = "blank"
    MetaSlots = 3
    SeqRange = 16
    Nodes = {1}
    NoNode = 0
    Objects = {"a", "b"}
    Requests <- MCRequests
    MaxPending = 2
    NoFilter = NoFilter
    CanIds = {a, b}
    FrameBuffer = 2
    KernelLimit = 1
    FailingCalls = {"drop_all", "filters"}
    MaxArrivals = 3
    MaxQuiet = 1
    MaxCommands = 1
    AttachBuffer = 2
    MaxBridged = 3
CHECK_DEADLOCK FALSE
INVARIANTS
    OutcomesRight
    LossAnnounced
    FilterExact
PROPERTIES
    IsRegister
    LogKeepsRecording
    RequestsAnswered
    ConnectionEnds
    NothingLeftAsleep
