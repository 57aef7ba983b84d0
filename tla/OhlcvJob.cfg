\* Two partitions, three ticks and a repeated one, a crash.
CONSTANTS
    p0 = p0
    p1 = p1
    Partition = {p0, p1}
    Width = 2
    Delay = 1
    Ticks <- TwoWindows
    MaxFailures = 1
    MaxTicks = 3
    MaxRepeats = 1
    MaxCrashes = 1
SPECIFICATION FairSpec
INVARIANTS
    TypeOK
    OneBarPerWindow
    TicksAccounted
    LateInOwnPartition
PROPERTIES
    BarsAppear
\* The topic is finite, and the job stops when it has failed too often.
CHECK_DEADLOCK FALSE
