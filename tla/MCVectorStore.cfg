SPECIFICATION Spec
CONSTANTS
    c1 = c1
    c2 = c2
    c3 = c3
    c4 = c4
    d1 = d1
    d2 = d2
    h1 = h1
    h2 = h2
    Chunks = {c1, c2, c3, c4}
    Documents = {d1, d2}
    DocumentOf <- TwoDocuments
    Hashes = {h1, h2}
    HashOf <- SharedText
    BatchSize = 2
    TopK = 2
    MaxIds = 5
    CanCrash = FALSE
INVARIANTS TypeOK TablesAgree HitsAreTrue
PROPERTIES ImplementsChunkMap
CHECK_DEADLOCK FALSE
