SPECIFICATION Spec
CONSTANTS
    Episodes = 2
    MaxLength = 9
    Requests <- MCRequests
    FramesChoices <- MCFrames
    PointsChoices <- MCPoints
INVARIANTS
    WindowFits
    CurveCoversEpisode
CHECK_DEADLOCK FALSE
