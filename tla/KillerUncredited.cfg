CONSTANTS
    Rows <- MCRows
    None = None
    alice = alice
    bob = bob
    rifle = rifle
    knife = knife
    zone = zone
    match1 = match1
    match2 = match2
    MaxRows = 3
    MaxRewinds = 1
SPECIFICATION Spec
INVARIANT KillsAreCredited
CHECK_DEADLOCK FALSE
