CONSTANTS
    t1 = t1
    t2 = t2
    Trainers = {t1, t2}
    Files <- MCFiles
    None = None
    PageSize = 2
    BundleSize = 2
    MaxRuns = 2
    MaxClock = 1
SPECIFICATION Spec
SYMMETRY MCSymmetry
INVARIANT RecordedIsInTheModel
INVARIANT ReleasedIsComplete
CHECK_DEADLOCK FALSE
