---------------------------- MODULE MCWalManager ----------------------------
\* Model values for checking WalManager; the three writers are interchangeable.
EXTENDS WalManager, TLC, FiniteSets

WriterSymmetry == Permutations(Records)
=============================================================================
