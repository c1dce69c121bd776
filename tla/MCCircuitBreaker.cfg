CONSTANTS
    HighCpu = 80
    LowCpu = 75
    Batches = 2
    MaxBusy = 5
    MaxIdle = 3
    MaxIowait = 2
    MaxRises = 2
SPECIFICATION Spec
INVARIANT UsageIsAPercentage
INVARIANT OpenIsNeverAsked
PROPERTY EveryBatchIsProcessed
CHECK_DEADLOCK FALSE
