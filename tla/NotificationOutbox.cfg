SPECIFICATION FairSpec
CONSTANTS
    Worker = {w1, w2}
    Subject = {s1, s2}
    Person = {p1}
    Channel <- MCChannels
    None = None
    BatchSize = 2
    MaxAttempts = 2
    Backoff <- MCBackoff
INVARIANTS
    EndsAreTrue
PROPERTIES
    NobodyIsToldAgain
    EventsEnd
