SPECIFICATION FairSpec
CONSTANTS
    Worker = {w1}
    Backfill = {job}
    Polling = {sub}
    Token = {k1, k2}
    None = None
    Failure = {}
    LeaseTicks = 1
    RetryTicks = 1
    LongRetryTicks = 1
    PollTicks = 1
    PageSize = 2
    BackfillEnd = 2
    FirstBars = 2
    MaxBars = 2
    AccessStates <- MCOneAccess
PROPERTIES
    BackfillEnds
    PollingIsServed
