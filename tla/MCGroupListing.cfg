SPECIFICATION FairSpec
CONSTANTS
    g1 = g1  g2 = g2  g3 = g3  g4 = g4  g5 = g5  g6 = g6  g7 = g7  g8 = g8
    GroupId = {g1, g2, g3, g4, g5, g6, g7, g8}
    Segment <- Names
    Path <- Tree
    NameRank <- Ranks
    User = {}
    Account = {}
    NoAttrs = NoAttrs  None = None
    Attrs = {NoAttrs}
    EditAttrs = {NoAttrs}
    StartRealms <- Starts
    PageSize = 2
    Answers = {"counted", "embedded", "both"}
    MaxEdits = 3
CHECK_DEADLOCK FALSE
INVARIANT TypeOK
INVARIANT ListedOnceAfterParent
INVARIANT DeletionsHideOneEach
PROPERTY ListingEnds
