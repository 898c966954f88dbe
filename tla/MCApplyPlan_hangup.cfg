SPECIFICATION ApplySpec
CONSTANTS
    c1 = c1  c2 = c2
    g1 = g1  g2 = g2  g3 = g3  g4 = g4  g5 = g5
    alice = alice carol = carol  bob = bob
    mirror = mirror  NoAttrs = NoAttrs  None = None
    Segment = {"irods", "team", "old"}
    User = {alice, bob, carol}
    Irregular = {carol}
    Attrs = {NoAttrs, mirror}
    EditAttrs = {NoAttrs, mirror}
    Account = {alice, bob}
    Path <- Paths
    Operation <- AllOperations
    StartRealms <- Starts
    Expected <- Configured
    PageSize = 2
    Client = {c1}
    GroupId = {g1, g2, g3, g4, g5}
    Plans <- RacePlans
    Modes = {"required"}
    Typed = {"a", "s"}
    MaxStarts = 1
    MaxEdits = 0
    MaxLate = 0
CHECK_DEADLOCK FALSE
INVARIANT PartialResultReported
