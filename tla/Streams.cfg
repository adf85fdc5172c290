SPECIFICATION MarketSpec
CONSTANTS
    None = None
    Subscriber = {s1, s2}
    Client = {c1}
    RingSize = 2
    QueueSize = 1
    DelayedAttempts = 2
    MaxFeeds = 2
    MaxSequence = 3
INVARIANTS
    NothingIsSkipped
PROPERTIES
    UnwatchedFeedEnds
    FeedRetries
