CONSTANTS
    a = a
    b = b
    w = w
    m = m
    new1 = new1
    new2 = new2
    old = old
    NoFile = NoFile
    NoCollection = NoCollection
    Nobody = Nobody
    Content <- MCContent
    NumPaths = 2
    Indexable = {1, 2}
    NumBatches <- MCNumBatches
    Collection = {old, new1}
    Legacy = old
    LegacyPoints <- MCLegacyPoints
    PointId = {1, 2, 3, 4, 5, 6, 7, 8}
    Watcher = w
    Manuals = {m}
    Grace = 1
    MaxLag = 1
    MaxEdits = 2
    MaxAborts = 0
    LiveEdits = TRUE
SPECIFICATION Spec
INVARIANTS
    SteadyContentSafe
    RowsAreServed
    NoOrphans
PROPERTIES
    EmbedBeforePrune
