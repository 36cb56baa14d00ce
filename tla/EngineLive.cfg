CONSTANTS
  k1 = k1
  Records = {r1, r2}
  Keys <- OneKey
  KeyOf <- AllOnOneKey
  None = None
  Batching = TRUE
  Strong = TRUE
  ManifestFaults = FALSE
  ColdMisses = TRUE
  LongOutages = FALSE
SPECIFICATION FairSpec
PROPERTY AckedCheckpointed
