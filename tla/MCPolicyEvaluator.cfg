CONSTANTS
    Requests <- MCRequests
    Absent = Absent
SPECIFICATION PolicySpec
INVARIANT DecisionMeetsPolicy
INVARIANT MoreHeadshotsNeverMilder
CHECK_DEADLOCK FALSE
