SPECIFICATION Spec
CONSTANTS
    EpochChoices = {0, 1, 2, 3}
    BatchChoices = {1, 2, 3}
    Subdirs = {1, 2, 3}
    Direct = {1, 3}
    Backups = {1}
    CapChoices = {0, 1, 2, 3, 4, 5, 6, 9, 10}
INVARIANTS
    SavedMeansFullyTrained
    MetricCountsSteps
    SameRootTwice
PROPERTIES
    IsFlatLoop
CHECK_DEADLOCK FALSE
