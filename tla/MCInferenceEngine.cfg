SPECIFICATION PlatformSpec
CONSTANTS
    Versions = {"v1", "v2", "v3"}
    Objects = {"a"}
    Gold <- MCGold
    MaxPoll = 2
    MaxRetries = 2
    BundleSize = 2
    MaxFaults = 1
    MaxDeaths = 2
    MaxOverwrites = 1
    PoolSize = 2
    MaxLoadFaults = 1
INVARIANTS
    CurrentIsComplete
    AnnouncedIsBacked
    LossIsWithinAPoll
    MatchingChecksumIsWhole
PROPERTIES
    CurrentNeverMovesBack
    ServedOnlyMovesForward
    EverythingIsCommitted
    SettlesOnCurrent
