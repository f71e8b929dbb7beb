SPECIFICATION Spec
CONSTANTS
    Episodes = {0, 1}
    MaxLines = 3
    PipeSize = 2
    Stamps = {0, 1, 3}
    MaxPlan = 3
    MaxRows = 3
INVARIANTS
    LastEventCountsAll
    SpansTile
    PairsAreAnswers
PROPERTIES
    RunEnds
    IsTrainer
CHECK_DEADLOCK FALSE
