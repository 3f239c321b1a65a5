SPECIFICATION Spec
CONSTANTS
    k1 = k1
    k2 = k2
    d1 = d1
    d2 = d2
    ChunkSize = 4
    Overlap = 2
    Calls = {k1, k2}
    Documents = {d1, d2}
    DocumentOf <- OneEach
    Texts <- SmallTexts
    MaxChunks <- TwoAndOne
    Searches = {s1}
INVARIANTS TypeOK IndexesAgree AnswersAreSound ChunksCoverText
CHECK_DEADLOCK FALSE
