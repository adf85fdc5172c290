SPECIFICATION Spec
CONSTANTS
    Worker = {w1}
    Request = {q1,q2}
    None = None
    AllowShort = FALSE
    Threshold = 2
    EmergencyScope = {"bot"}
    MaxBars = 1
    MaxRuns = 2
    MaxUnits = 1
    MaxRows = 2
INVARIANTS
    PositionMatchesFills
CHECK_DEADLOCK FALSE
