CONSTANTS
  Records = {r1, r2, r3}
  Batchings = {TRUE, FALSE}
SPECIFICATION Spec
SYMMETRY WriterSymmetry
INVARIANTS TypeOK AckedDurable HeldOnce FlushSettles
PROPERTIES RefinesWalService WalImmutable
