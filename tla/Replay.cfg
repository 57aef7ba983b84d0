\* Two partitions with room for a record of the window and a copy or a later record.
CONSTANTS
    btc = btc
    eth = eth
    Symbol = {btc, eth}
    Partition = {0, 1}
    Home <- TwoHomes
    StartTs = 0
    EndTs = 1
    MaxOffset = 99
    Brokers = {kafka, market, copies}
    SourceTopic = market
    Targets = {market, copies, plain}
    Asked = {none, btc}
    Budget = {unlimited, 2}
    NoSymbol = none
    NoBudget = unlimited
    MaxLog <- TwoEach
    MaxClock = 1
SPECIFICATION FairSpec
INVARIANTS
    TypeOK
    WindowCovered
    WithinBudget
    CopiedOnceInOrder
    NoFeedback
PROPERTY EndsBeyondWindow
\* A run ends, and a bounded topic stops growing.
CHECK_DEADLOCK FALSE
