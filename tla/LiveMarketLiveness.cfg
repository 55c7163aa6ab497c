CONSTANTS
    EntryAmount = 2
    MinAmount = 1
    MaxOrders = 3
    MaxFaults = 1
    MaxCrashes = 1
SPECIFICATION FairSpec
PROPERTIES
    EveryOrderSettles
    PositionGetsStop
    OrphansAreSwept
