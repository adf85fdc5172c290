SPECIFICATION Spec
CONSTANTS
    Item = {i1, i2}
    Watcher = {d1, d2}
    Poll = 1
    StaleAfter = 0
    MaxMinute = 3
    Evaluator = {e1, e2}
    Owner = {o1}
    MaxSwings = 3
    MaxReleases = 2
PROPERTIES
    AlertsAreNews
    StalledIsReported
    TwoStepsDown
    HaltsSettle
CHECK_DEADLOCK FALSE
