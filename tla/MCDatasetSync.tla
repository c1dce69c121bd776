------------------------------ MODULE MCDatasetSync ------------------------------
EXTENDS DatasetSync, TLC

CONSTANTS s1, s2, kills, stats

\* The second version has lost a file, the third has it again.
MCCsvsOf == <<{kills, stats}, {kills}, {kills, stats}>>

MCSymmetry == Permutations({s1, s2})
================================================================================
