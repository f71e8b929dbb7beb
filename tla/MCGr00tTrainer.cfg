SPECIFICATION TrainSpec
CONSTANTS
    Subdirs = {1, 2, 3}
    Direct = {1, 2, 3}
    Backups = {1, 3}
    Layouts <- MCLayouts
    BackupOf <- MCBackupOf
    MaxStep = 2
    ReplayLimit = 1
INVARIANTS
    LaunchedDatasetFits
    ArtifactIsReplayed
    ReplayCorrectsCurve
PROPERTIES
    RunEnds
    IsTrainer
CHECK_DEADLOCK FALSE
