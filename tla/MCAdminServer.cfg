SPECIFICATION FairSpec
CONSTANTS
    c1 = c1  c2 = c2
    Conn = {c1, c2}
    Address = {"blank", "free", "taken"}
    Results = {"done", "not_implemented", "error"}
CHECK_DEADLOCK FALSE
INVARIANT TypeOK
INVARIANT CleanExit
INVARIANT OneAnswer
INVARIANT ListenerNeverBlocks
PROPERTY ServerEnds
