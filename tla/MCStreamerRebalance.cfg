CONSTANTS
    Partitions = {0}
    Events = {"a", "b", "c"}
    Log <- MCLog
    MaxRecords = 4
    MaxBytes = 9
    MaxFailures = 1
    MaxDay = 0
    MaxRebalances = 2
SPECIFICATION RebalanceSpec
INVARIANTS
    CommittedIsReadable
PROPERTY EverythingBecomesReadable
