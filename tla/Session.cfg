CONSTANTS
  Tables = {t1, t2}
  NoTable = NoTable
  None = None
SPECIFICATION Spec
INVARIANTS WritesAsked ReadsServed AppliedOnlySpoilt
CHECK_DEADLOCK FALSE
