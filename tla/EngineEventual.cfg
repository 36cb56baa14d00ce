CONSTANTS
  k1 = k1
  Records = {r1, r2}
  Keys <- OneKey
  KeyOf <- AllOnOneKey
  None = None
  Batching = TRUE
  Strong = FALSE
  ManifestFaults = FALSE
  ColdMisses = FALSE
  LongOutages = FALSE
SPECIFICATION Spec
SYMMETRY RecordSymmetry
INVARIANTS TypeOK WriteAhead UncoveredKept
