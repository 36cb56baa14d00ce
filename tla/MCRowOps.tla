------------------------------ MODULE MCRowOps ------------------------------
(* RowOps with mutations that delete and replace what is older, and with   *)
(* a list that fails half-way.                                             *)
EXTENDS RowOps, TLC

SetCell(t) == [op |-> "SetCell", at |-> t]
DeleteUpToNow == [op |-> "DeleteRange", from |-> 0, to |-> 0]

SomeLists ==
    {<<DeleteUpToNow, SetCell(ServerTime)>>,
     <<SetCell(MaxTime), [op |-> "Unsupported"]>>}

(* No filter, and one that the mutations above can turn on and off.        *)
SomeFilters == {Times, {0}}

(* Calls and rows differ in nothing but their names.                       *)
CallSymmetry ==
    {p @@ q : p \in Permutations(Calls), q \in Permutations(Rows)}
=============================================================================
