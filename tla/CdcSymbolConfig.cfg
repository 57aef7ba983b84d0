\* Two short histories, one restart of the connector or stray message, a crash.
CONSTANTS
    btc = btc
    eth = eth
    None = None
    Symbol = {btc, eth}
    Value = {1, 2}
    Histories <- TwoHistories
    MaxFailures = 1
    MaxTrouble = 1
    MaxCrashes = 1
SPECIFICATION CdcFairSpec
INVARIANTS
    TypeOK
    NormalizedIsSourceState
    BronzeRederives
PROPERTIES
    ImplementsCdcTables
    NormalizedFollowsSource
\* The source has a finite history, and the job stops when it has failed too often.
CHECK_DEADLOCK FALSE
