SPECIFICATION Spec
CONSTANTS
    Worker = {w1,w2}
    Backfill = {}
    Polling = {sub}
    Token = {k1,k2,k3}
    None = None
    Failure <- MCRetryable
    LeaseTicks = 1
    RetryTicks = 1
    LongRetryTicks = 1
    PollTicks = 1
    PageSize = 2
    BackfillEnd = 3
    FirstBars = 3
    MaxBars = 4
    AccessStates <- MCLosesAccess
SYMMETRY Symmetry
PROPERTIES
    DisabledIsLeftAlone
    StopsAreAnnounced
