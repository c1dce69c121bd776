CONSTANTS
    Partitions = {0, 1}
    Events = {"a", "b"}
    Log <- MCLog
    MaxRecords = 2
    MaxBytes = 3
    MaxFailures = 2
    MaxDay = 1
SPECIFICATION Spec
INVARIANTS
    TypeOK
    CommittedIsReadable
    GoldReadyIsBacked
    StoredUnderIdIsItsRange
    ManifestAccountsForBatch
    InFlightIsTheGap
PROPERTIES
    CommitsNeverRegress
    EverythingIsCommitted
    KeepsPromise
