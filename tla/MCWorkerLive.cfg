SPECIFICATION Spec
CONSTANTS
    Jobs = {j1}
    NoJob = NoJob
    Main = main
    Threads = {j1, main}
    MaxRetries = 2
    MaxLateClaims = 1
    SubprocessJobs = {j1}
    ReplayJobs = {j1}
PROPERTIES
    ShutdownStops
    CancelEndsRun
    StoppedHeartbeatEnds
    LetsGoOfJobs
CHECK_DEADLOCK FALSE
