SPECIFICATION StorageSpec
CONSTANTS
    MaxObjects = 6
    PoolSize = 3
    Clients = {w1, w2}
    Nobody = nobody
    Self = w1
INVARIANTS
    ReturnMeansComplete
    OverMeansQuiet
    LostRaceHasWinner
PROPERTIES
    DownloadEnds
CHECK_DEADLOCK FALSE
