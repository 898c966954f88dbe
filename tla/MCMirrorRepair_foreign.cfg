SPECIFICATION Spec
CONSTANTS
    g1 = g1  g2 = g2  g3 = g3  g4 = g4  g5 = g5  g6 = g6
    abe = abe  alice = alice  bob = bob
    None = None
    Segment = {"irods", "lab", "team", "teams"}
    User = {alice, bob}
    RootName = "irods"
    RealmName = "main"
    Irregular = {}
    Zone = "home"
    Attrs <- AllAttrs
    NoAttrs <- BareAttrs
    UserOrder <- AliceBob
    NameOrder <- OneName
    GroupId = {g1, g2, g3, g4, g5}
    Account = {alice, bob}
    Path <- TeamPaths
    StartRealms <- Foreign
    StartIrods <- IrodsTeam
    EditAttrs = {}
    PageSize = 2
    MaxIrodsEdits = 0
    MaxEdits = 0
    MaxMishaps = 0
CHECK_DEADLOCK FALSE
PROPERTY ForeignGroupsUntouched
