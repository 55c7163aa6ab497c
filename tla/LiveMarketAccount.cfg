CONSTANTS
    EntryAmount = 3
    MinAmount = 2
    MaxOrders = 3
    MaxFaults = 2
    MaxCrashes = 1
SPECIFICATION Spec
INVARIANTS
    BooksFollowExchange
    RejectedMeansAbsent
    CommittedSalesCovered
PROPERTIES
    SentIntoQuietMarket
    ImplementsAccount
