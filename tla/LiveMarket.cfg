CONSTANTS
    EntryAmount = 3
    MinAmount = 2
    MaxOrders = 4
    MaxFaults = 1
    MaxCrashes = 1
SPECIFICATION Spec
INVARIANTS
    TypeOK
    LiveStopIsLinked
    AtMostOneUnsettled
    NeverOversized
