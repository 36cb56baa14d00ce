CONSTANTS
  MaxFile = 3
  MaxLife = 2
  MaxVersion = 2
  ColdMisses = TRUE
SPECIFICATION Spec
INVARIANTS ListedNotReplaced UploadedIsStored
PROPERTY PublishedSound
CHECK_DEADLOCK FALSE
