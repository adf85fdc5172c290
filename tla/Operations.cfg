SPECIFICATION Operations
CONSTANTS
    Worker = {w1}
    Request = {q1, q2}
    None = None
    AllowShort = FALSE
    Threshold = 1
    EmergencyScope = {"bot"}
    MaxBars = 1
    MaxRuns = 1
    MaxUnits = 2
    MaxRows = 1
    Caller = {u1, u2}
    Session = {s1}
    Ticket = {t1}
    Ttl = 1
    MaxSecrets = 2
    MaxClock = 1
    Asker = {a1, a2}
    Closed = {5}
    MaxNow = 6
    Days = {3, 6}
    MaxGapRows = 3
    MaxJobs = 2
    Closes <- MCCloses
    Reach = 192
    Entry = 2
    Exit = 1
    MaxHour = 5
    Oversold = 65000
    ExitLevel = 70000
    MomentumCap = 75000
    Prices = {0, 1, 2}
    Bucket = 2
    MaxTime = 5
    MaxTicks = 4
    PriceMoves <- MCMoves
    TrainBars = 3
    TestBars = 2
    HistoryWindow = 3
    MaxPoints = 6
    Cost = 1
    BarsPerDay = 2
    MaxHistory = 8
    FillPrices = {6, 12}
    Quantities <- MCQuantities
    MaxOrders = 3
SYMMETRY Symmetry
INVARIANTS
    ActiveBotHasRun
    SecretIsKept
    AccessIsClosed
    NothingIsAskedTwice
    SignalsAreSound
    FinalsAreExact
    WalkForwardIsSound
    LossIsFound
PROPERTIES
    JobSettlesItsGap
    VerdictsNeedCause
CHECK_DEADLOCK FALSE
