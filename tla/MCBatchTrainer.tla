----------------------------- MODULE MCBatchTrainer -----------------------------
EXTENDS BatchTrainer, TLC

CONSTANTS t1, t2

MCFiles == {1, 2, 3}

MCSymmetry == Permutations({t1, t2})
================================================================================
