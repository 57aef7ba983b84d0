\* A poll of every cycle and one of every second, two symbols, two versions of the marts, one failure.
CONSTANTS
    btc = btc
    eth = eth
    r1 = r1
    r2 = r2
    Symbol = {btc, eth}
    Listed <- LosesOne
    Ttl = 2
    Kind = {"liquidity", "ohlcv"}
    Interval <- EverySecond
    AskedCold = {btc}
    Request = {r1, r2}
    MaxFailures = 1
SPECIFICATION FairSpec
INVARIANTS
    TypeOK
    WholePollServed
    GaugesNotBehind
PROPERTIES
    AnswersMoveForward
    ModelFollowsMarts
    OutdatedColdGoes
