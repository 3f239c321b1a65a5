SPECIFICATION FairSpec
CONSTANTS
    Uploads = {u1, u2, u3}
    Contents = {c1, c2}
    DocTypes = {general}
    Workers = {w1}
    QueueSize = 1
    None = None
PROPERTY RetriedUploadIsProcessed
CHECK_DEADLOCK FALSE
