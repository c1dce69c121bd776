SPECIFICATION FairSpec
CONSTANTS
    File <- MCFile
    Configs <- MCConfigs
    Workers = 2
    ChannelSize = 1
    MaxBatchSize = 2
    MaxLaunches = 2
INVARIANTS
    CheckpointIsDelivered
    NothingIsDropped
    CompletionDelivers
PROPERTIES
    ResumedNeverMovesBack
    RunEnds
CHECK_DEADLOCK FALSE
