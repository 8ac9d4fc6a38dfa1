SPECIFICATION ApprovedSpec
CONSTANTS
    b1 = b1 b2 = b2 b3 = b3
    t1 = t1 t2 = t2 r1 = r1
    v1 = v1 v2 = v2
    NULL = NULL
    INVALID = INVALID
    NrZones = 2
    ZoneNrBlocks = 2
    Blks = {b1, b2}
    Values = {v1, v2}
    UTasks = {t1}
    Readers = {r1}
    MaxWrites = 3
    MaxErrors = 0
    DiskWp <- FreshDisk
    StreamId <- OneStream
    ReclaimWmGcLow = 50
    ReclaimWmGcHigh = 60
    ZoneReclaimWm = 50
    SplitPut = FALSE
    GcTimer = FALSE
SYMMETRY Symmetry
INVARIANTS
    RefcountExact

    
