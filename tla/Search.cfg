CONSTANTS
    v1 = v1
    v2 = v2
    other = other
    here = here
    there = there
    old = old
    new1 = new1
    NoCollection = NoCollection
    Collection = {old, new1}
    Legacy = old
    Content <- MCContent
    NumBatches <- MCNumBatches
    Point <- MCPoint
    Chunk <- MCChunk
    BaseName <- MCBaseName
    Twins <- MCTwins
    UseRerank = {TRUE, FALSE}
    Candidates = 4
    Expand = 1
    ExpandMax = 6
    TopK <- MCTopK
    Score = {0, 1, 3}
    LNum = 3
    LDen = 10
    Kneedle = TRUE
    MinScore = 1
    MinSet = 2
    WeakNum = 1
    WeakDen = 20
    MaxChanges = 1
SPECIFICATION Spec
INVARIANTS
    TypeOK
    
    QuotesAPassage
    
