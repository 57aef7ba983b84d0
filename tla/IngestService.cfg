\* Three clients, two retries.
CONSTANTS
    Symbol = {btc, eth, sol}
    RetryLimit = 2
SPECIFICATION ServiceFairSpec
INVARIANTS
    ServiceTypeOK
    NothingLeftBehind
PROPERTIES
    GivingUpRestarts
