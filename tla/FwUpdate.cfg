SPECIFICATION Spec
CONSTANTS
    Bytes = {0, 1}
    FF = 0
    JunkByte = 7
    Images <- MCImages
    Plausible <- MCPlausible
    Chunks <- WholeChunks
    Lengths = {3, 4, 5}
    WriteSize = 3
    PageSize = 3
    AppSize = 6
    EvtCap = 2
    Pipelined = TRUE
INVARIANTS
    ValidMeansVerified
    StatusTellsNextBoot
PROPERTIES
    BootableUntilCleared
