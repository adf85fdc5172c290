SPECIFICATION GapSpec
CONSTANTS
    Asker = {a1, a2}
    Closed = {5}
    MaxNow = 6
    Days = {3, 6}
    MaxGapRows = 3
    MaxJobs = 2
PROPERTIES
    IgnoredIsMissing
CHECK_DEADLOCK FALSE
