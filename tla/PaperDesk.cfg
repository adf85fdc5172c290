SPECIFICATION Spec
CONSTANTS
    None = None
    Rules <- MCRules
    Spread = 2
    BrokerMinimum = 6
    MinQuantity = 1
    Setup <- MCSetup
    Shape <- MCShape
    InitialEquity = 2100000
    BarMinutes = 60
    DayBars = 2
    WeekBars = 4
    MaxBars = 4
    Window = 2
    MaxLate = 1
INVARIANTS
    TradesExplainEquity
    
    
PROPERTIES
    TrailingStopNeverFalls
    NoSilentLock
CHECK_DEADLOCK FALSE
