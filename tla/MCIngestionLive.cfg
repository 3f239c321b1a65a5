SPECIFICATION UploadFairSpec
CONSTANTS
    Uploads = {u1, u2, u3}
    Contents = {c1}
    DocTypes = {general}
    Workers = {w1}
    QueueSize = 1
    None = None
PROPERTIES AcceptedIsFinished ShutdownEnds UploadIsAnswered
CHECK_DEADLOCK FALSE
