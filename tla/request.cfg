SPECIFICATION FairSpec
CONSTANTS
    NULL = NULL
    Bios = {x1, x2}
    x1 = x1 x2 = x2
    Blks = {0, 1, 2}
    MaxParts = 2
    Shapes <- MixedShapes
    Mapped0 = {1}
    Room = 1
    MaxErrors = 1
    MaxMetaErrors = 1
INVARIANTS
    TypeOK
    CompletedByLast
    OkMeansAllParts
    ErrorMeansFaulty
    DrainedMeansIdle
PROPERTIES
    EveryBioEnds
