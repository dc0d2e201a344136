--------------------------- MODULE MCTaskAttempts ---------------------------
EXTENDS TaskAttempts, TLC

CONSTANTS t1, t2
MCTasks == {t1, t2}
MCOneTask == {t1}
TaskSymmetry == Permutations(MCTasks)
=============================================================================
