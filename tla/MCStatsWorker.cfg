SPECIFICATION Spec
CONSTANTS
    Jobs = {j1}
    NoJob = NoJob
    Workers = {w1, w2}
    MaxDeliver = 3
    Datasets <- MCDatasets
    Malformed = Malformed
INVARIANTS
    SettledMeansDone
    PostedMeansStored
    PostedStatsTakeFramesOnce
PROPERTIES
    JobsLeaveTheQueue
    SignalStops
CHECK_DEADLOCK FALSE
