CONSTANTS
  k1 = k1
  Records = {r1}
  Keys <- OneKey
  KeyOf <- AllOnOneKey
  None = None
  Batching = TRUE
  Strong = TRUE
  ManifestFaults = FALSE
  ColdMisses = FALSE
  LongOutages = FALSE
SPECIFICATION Spec
INVARIANT SurvivesSync
