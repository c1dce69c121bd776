CONSTANTS
    s1 = s1
    s2 = s2
    kills = kills
    stats = stats
    Syncs = {s1, s2}
    Names = {kills, stats}
    CsvsOf <- MCCsvsOf
    None = None
SPECIFICATION Spec
SYMMETRY MCSymmetry
INVARIANT ManifestedFilesExist
INVARIANT LoneRunAgrees
