\* Three records of which one a replayed copy, one tick of lateness, two crashes.
CONSTANTS
    BidPrice = {1, 2}
    AskPrice = {3}
    Qty = {1}
    Diffs <- TwoDiffs
    LateAfter = 0
    MaxFailures = 1
    MaxLog = 3
    MaxCopies = 1
    MaxBad = 1
    MaxClock = 1
    MaxCrashes = 2
    MaxExpired = 1
SPECIFICATION FairSpec
INVARIANTS
    TypeOK
    OneRowPerUpdate
    KafkaCoversIceberg
PROPERTIES
    ImplementsTickerTable
    EveryRecordCommitted
\* The job stops when it has failed too often, or consumed a finite topic.
CHECK_DEADLOCK FALSE
