CONSTANTS
    Calls = {c1, c2, c3}
    Rows = {r1, r2}
    NoCall = NoCall
    Kinds = {"mutate", "rows", "check", "rmw"}
    MaxTime = 1
    MaxRules = 2
    MutationLists <- SomeLists
    Filters <- SomeFilters
SPECIFICATION Spec
INVARIANTS TypeOK OneEngine CheckIsolated LocksReleased ErrorLeavesNothing SequentialRules
SYMMETRY CallSymmetry
CHECK_DEADLOCK FALSE
