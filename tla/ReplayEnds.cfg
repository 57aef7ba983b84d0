\* The smallest run in which the window is the end of the log.
CONSTANTS
    btc = btc
    eth = eth
    Symbol = {btc}
    Partition = {0}
    Home <- OneHome
    StartTs = 0
    EndTs = 1
    MaxOffset = 99
    Brokers = {kafka}
    SourceTopic = market
    Targets = {copies}
    Asked = {none}
    Budget = {unlimited, 1}
    NoSymbol = none
    NoBudget = unlimited
    MaxLog <- TwoEach
    MaxClock = 1
SPECIFICATION FairSpec
PROPERTY RunEnds
\* A run ends, and a bounded topic stops growing.
CHECK_DEADLOCK FALSE
