SPECIFICATION Spec
CONSTANTS
    Bytes = {0, 1}
    FF = 0
    JunkByte = 7
    Images <- MCImages
    Plausible <- MCPlausible
    Chunks <- ShortChunks
    Lengths = {1, 2, 3, 4, 6}
    WriteSize = 3
    PageSize = 3
    AppSize = 6
    EvtCap = 1
    Pipelined = FALSE
INVARIANTS
    TailCarriedOver
