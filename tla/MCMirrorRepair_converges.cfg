SPECIFICATION FairSpec
CONSTANTS
    g1 = g1  g2 = g2  g3 = g3  g4 = g4  g5 = g5  g6 = g6
    abe = abe  alice = alice  bob = bob
    None = None
    Segment = {"irods", "lab", "team", "teams"}
    User = {abe, alice, bob}
    RootName = "irods"
    RealmName = "main"
    Irregular = {}
    Zone = "home"
    Attrs <- AllAttrs
    NoAttrs <- BareAttrs
    UserOrder <- ThreeUsers
    NameOrder <- BothNames
    GroupId = {g1, g2, g3, g4, g5, g6, g7, g8, g9, g10, g11, g12}
    Account = {alice, bob}
    Path <- NestedPaths
    StartRealms <- NestedStarts
    StartIrods <- IrodsThree
    EditAttrs = {}
    PageSize = 3
    MaxIrodsEdits = 2
    MaxEdits = 1
    MaxMishaps = 1
CHECK_DEADLOCK FALSE
PROPERTY MirrorConverges
