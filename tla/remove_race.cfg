SPECIFICATION Spec
CONSTANTS
    LBZ_LEAF_NODE_ENTIRES = 2
    LBZ_INT_NODE_ENTRIES = 2
    MaxCreates = 1
    Sizes <- SmallSizes
    MaxVictims = 2
    MaxCopies = 2
    Calm = FALSE
INVARIANTS
    IoCompleteAfterWait
