SPECIFICATION Spec
CONSTANTS
    Worker = {w1,w2}
    Backfill = {job}
    Polling = {}
    Token = {k1,k2,k3}
    None = None
    Failure <- MCRetryable
    LeaseTicks = 2
    RetryTicks = 1
    LongRetryTicks = 1
    PollTicks = 1
    PageSize = 2
    BackfillEnd = 3
    FirstBars = 3
    MaxBars = 3
    AccessStates <- MCNewCredentials
SYMMETRY Symmetry
INVARIANTS
    TypeOK
    OpenWriteIsOwner
    CursorMeansHandled
PROPERTIES
    SavedUnderItsAccess
    ImplementsFencedFeed
