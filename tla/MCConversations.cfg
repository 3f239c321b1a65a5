SPECIFICATION FairStoreSpec
CONSTANTS
    MaxPairs = 2
    Sessions = {s1, s2}
    Questions = {q1, q2, q3, q4}
    MaxAge = 2
    MaxLag = 1
    None = None
INVARIANTS StoresTypeOK HistoriesAreWhole
PROPERTIES ImplementsConversationStore AbandonedIsForgotten
CHECK_DEADLOCK FALSE
