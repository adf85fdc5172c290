SPECIFICATION Trading
CONSTANTS
    Worker = {w1,w2}
    Request = {q1}
    None = None
    AllowShort = FALSE
    Threshold = 2
    EmergencyScope = {"bot"}
    MaxBars = 1
    MaxRuns = 2
    MaxUnits = 1
    MaxRows = 2
    Trader = {b1, b2}
    Id = {1, 2}
    PageSize = 1
    Gains <- MCGains
    Asked <- MCAsked
    MaxWall = 1
    Task = {t1, t2}
    Name = {n1}
    Series = {s1, s2}
    Content = {c1, c2}
SYMMETRY Symmetry
INVARIANTS
    
    JournalIsTrue
    ProvisioningIsSound
CHECK_DEADLOCK FALSE
