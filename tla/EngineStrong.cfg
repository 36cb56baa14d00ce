CONSTANTS
  k1 = k1
  Records = {r1, r2, r3}
  Keys <- OneKey
  KeyOf <- AllOnOneKey
  None = None
  Batching = TRUE
  Strong = TRUE
  ManifestFaults = FALSE
  ColdMisses = FALSE
  LongOutages = FALSE
SPECIFICATION Spec
SYMMETRY RecordSymmetry
INVARIANTS LossExplained ServesAcked UncoveredKept
