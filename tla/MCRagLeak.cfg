SPECIFICATION AnsweringSpec
CONSTANTS
    MaxPairs = 1
    Sessions = {s1}
    Questions = {q1}
    MaxAge = 1
    MaxTokens = 1
PROPERTIES ChannelCloses
CHECK_DEADLOCK FALSE
