SPECIFICATION ViewSpec
CONSTANTS
    Uploads = {u1, u2, u3}
    Contents = {c1, c2}
    DocTypes = {general}
    Workers = {w1, w2}
    QueueSize = 1
    None = None
SYMMETRY Symmetry
INVARIANTS TypeOK RecordsResolve JobsAccountedFor FieldsMatchStatus AnswersAreHonest NoSendOnClosedQueue CleanStopFinishesAccepted ToldIsListed
PROPERTIES StatusMovesForward PollsMoveForward
CHECK_DEADLOCK FALSE
