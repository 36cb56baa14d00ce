CONSTANTS
  Records = {r1, r2}
  Batchings = {TRUE, FALSE}
SPECIFICATION FairSpec
PROPERTIES WritersAnswered CloseEnds
