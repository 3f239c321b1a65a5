SPECIFICATION Spec
CONSTANTS
    Uploads = {u1, u2}
    Contents = {c1}
    DocTypes = {general}
    Workers = {w1}
    QueueSize = 1
    None = None
INVARIANT OneDocumentPerContent
CHECK_DEADLOCK FALSE
