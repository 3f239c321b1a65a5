SPECIFICATION FairSpec
CONSTANTS
    MaxPairs = 1
    Sessions = {s1, s2}
    Questions = {q1, q2}
    MaxAge = 1
    MaxTokens = 2
INVARIANTS TypeOK OnlyWholeAnswers
PROPERTIES FollowUpSeesAnswer LeavingEndsTheHandler
CHECK_DEADLOCK FALSE
