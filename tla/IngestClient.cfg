\* Two levels of one side, a snapshot of one level, one quantity, four update ids, one retry.
CONSTANTS
    l1 = l1
    l2 = l2
    Level = {l1, l2}
    Qty = {1}
    MaxRetries = 1
    SnapshotDepth = 1
    Ahead <- BetterFirst
    MaxId = 4
SPECIFICATION FairSpec
INVARIANTS
    TypeOK
    BookMatchesExchange
    TopicStrictlyOrdered
    NoSilentHole
PROPERTIES
    BookNeverRewinds
    BufferingEnds
    ReceivedIsHandled
    FailureIsAnswered
\* The client stops for good once it has given up.
CHECK_DEADLOCK FALSE
