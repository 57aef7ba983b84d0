CONSTANTS
    BidPrice = {1}
    AskPrice = {3}
    Qty = {1}
    Diffs <- OneDiff
    LateAfter = 0
    MaxFailures = 1
    MaxLog = 1
    MaxCopies = 0
    MaxBad = 1
    MaxClock = 1
    MaxCrashes = 0
    MaxExpired = 0
SPECIFICATION FairSpec
PROPERTY MalformedIsPassed
CHECK_DEADLOCK FALSE
