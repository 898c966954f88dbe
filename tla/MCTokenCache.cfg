SPECIFICATION FairSpec
CONSTANTS
    c1 = c1  c2 = c2
    None = None
    Caller = {c1, c2}
    Margin = 2
    Timeout = 2
    DefaultLife = 4
    Lives <- Lifetimes
    MaxTime = 8
CHECK_DEADLOCK FALSE
INVARIANT TypeOK
INVARIANT ExpiryBound
PROPERTY CachedTokenLives
PROPERTY FetchEnds
