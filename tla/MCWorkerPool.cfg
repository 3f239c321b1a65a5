SPECIFICATION FairSpec
CONSTANTS
    Items = {i1, i2, i3, i4}
    Workers = {w1, w2}
    QueueSize = 1
    NoItem = NoItem
INVARIANTS TypeOK Placement DrainedMeansDone DrainedMeansQuiet
PROPERTIES ImplementsBoundedWork AcceptedIsProcessed StopReturns
CHECK_DEADLOCK FALSE
