SPECIFICATION CancelSpec
CONSTANTS
    Jobs = {j1, j2}
    NoJob = NoJob
    Main = main
    Threads = {j1, j2, main}
    MaxRetries = 1
    MaxLateClaims = 0
    SubprocessJobs = {j2}
    ReplayJobs = {j2}
INVARIANTS
    CancelledStaysCancelled
CHECK_DEADLOCK FALSE
