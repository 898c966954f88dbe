SPECIFICATION FairClientSpec
CONSTANTS
    c1 = c1  c2 = c2
    g1 = g1  g2 = g2  g3 = g3  g4 = g4  g5 = g5  g6 = g6
    alice = alice  bob = bob
    mirror = mirror  NoAttrs = NoAttrs  None = None
    Segment = {"irods", "team", "sub"}
    User = {alice, bob}
    Account = {alice}
    Attrs = {NoAttrs, mirror}
    EditAttrs = {NoAttrs, mirror}
    StartRealms <- Starts
    PageSize = 2
    Client = {c1, c2}
    GroupId = {g1, g2, g3, g4, g5, g6}
    Path <- DeepPaths
    Operation <- DeepOperations
    MaxEdits = 1
    MaxLate = 1
CHECK_DEADLOCK FALSE
INVARIANT PostsAimAtTarget
INVARIANT CallsOnCourse
PROPERTY SuccessIsTrue
PROPERTY SuccessWritesAttributes
PROPERTY CallsAdvance
PROPERTY CallsEnd
