CONSTANTS
  Content <- MCContent
  Requests <- MCRequests
  BufferSize = 3
  MaxDepth = 2
SPECIFICATION Spec
CHECK_DEADLOCK FALSE
INVARIANTS TypeOK RowsExact ResumeSafe PredicateExact
