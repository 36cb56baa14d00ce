------------------------------ MODULE MCEngine ------------------------------
\* Small instances of Engine: all records write one key, so that they overtake and
\* overwrite each other, and are interchangeable.
EXTENDS Engine, TLC

CONSTANT k1

OneKey == {k1}
AllOnOneKey == [r \in Records |-> k1]
RecordSymmetry == Permutations(Records)
=============================================================================
