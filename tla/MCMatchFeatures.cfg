CONSTANTS
    Rows <- MCRows
    None = None
    alice = alice
    bob = bob
    rifle = rifle
    knife = knife
    zone = zone
    match1 = match1
    match2 = match2
    MaxRows = 4
    MaxRewinds = 1
SPECIFICATION Spec
INVARIANT GoldMeetsReference
INVARIANT SplitNeverExaggerates
CHECK_DEADLOCK FALSE
