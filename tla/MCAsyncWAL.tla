------------------------------ MODULE MCAsyncWAL ------------------------------
EXTENDS AsyncWAL, TLC

CONSTANT k1

OneKey == {k1}
AllOnOneKey == [r \in Records |-> k1]
AsyncRecordSymmetry == Permutations(Records)
===============================================================================
