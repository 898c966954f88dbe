SPECIFICATION Spec
CONSTANTS
    g1 = g1  g2 = g2  g3 = g3  g4 = g4  g5 = g5  g6 = g6
    abe = abe  alice = alice  bob = bob
    None = None
    Segment = {"irods", "lab", "team", "teams"}
    User = {alice, bob}
    RootName = "irods"
    RealmName = "main"
    Irregular = {}
    Zone = "home"
    Attrs <- AllAttrs
    NoAttrs <- BareAttrs
    UserOrder <- AliceBob
    NameOrder <- BothNames
    GroupId = {g1, g2, g3, g4, g5, g6, g7, g8}
    Account = {alice, bob}
    Path <- MirrorPaths
    StartRealms <- Starts
    StartIrods <- IrodsTeams
    EditAttrs <- OnlyBare
    PageSize = 2
    MaxIrodsEdits = 2
    MaxEdits = 1
    MaxMishaps = 1
CHECK_DEADLOCK FALSE
INVARIANT TypeOK
INVARIANT CleanCycleSyncs
INVARIANT WrittenPlansApply
PROPERTY DriftShrinks
PROPERTY SteadyGrantsKept
