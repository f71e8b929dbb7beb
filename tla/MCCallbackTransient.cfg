SPECIFICATION Spec
CONSTANTS
    Jobs = {j1}
    NoJob = NoJob
    Threads = {main}
    MaxRetries = 4
    MaxLateClaims = 1
INVARIANTS
    TransientErrorsAreRetried
