SPECIFICATION FairSpec
CONSTANTS
    Worker = {w1}
    Request = {q1}
    None = None
    AllowShort = TRUE
    Threshold = 2
    EmergencyScope = {"bot"}
    MaxBars = 2
    MaxRuns = 2
    MaxUnits = 1
    MaxRows = 3
INVARIANTS
    EmergencyMeansStopped
    FewLateEntries
PROPERTIES
    EveryBarIsHandled
CHECK_DEADLOCK FALSE
