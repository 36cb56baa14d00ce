CONSTANTS
  k1 = k1
  Records = {r1, r2}
  Keys <- OneKey
  KeyOf <- AllOnOneKey
  None = None
  Partial = Partial
  Batching = TRUE
  Strong = TRUE
  ManifestFaults = FALSE
  ColdMisses = FALSE
  LongOutages = TRUE
SPECIFICATION AsyncSpec
SYMMETRY AsyncRecordSymmetry
INVARIANTS AsyncTypeOK AsyncLossExplained AsyncServes UploadedOwned
