CONSTANTS
    Threads = {guardJob, analysisJob, web}
    Markets = {btc, eth}
    Locks = {l1, l2, l3}
    NoLock = NoLock
    Nobody = Nobody
    MaxDepth = 2
SPECIFICATION FairSpec
INVARIANTS
    TypeOK
    MutualExclusion
    LocksFollowHolds
PROPERTIES
    WaitEnds
