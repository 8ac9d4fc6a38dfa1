SPECIFICATION FairSpec
CONSTANTS
    Slots <- TwoSlots
    sit_blkaddr = 2
    blocks_per_segment = 1
    NAT_SIT_NODE_ENTRIES = 1
    MaxCps = 2
    MaxCopies = 1
    MaxRules = 1
INVARIANTS
    TypeOK
    
    ValidExact
    HalfFreed
    NatSitInflightExact

    
