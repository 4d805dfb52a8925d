------------------------------ MODULE MCChangeSet ------------------------------
(* A small instance of ChangeSetApply for TLC, and Version diffs between every  *)
(* two small states: three Objects at two paths, moved, swapped, edited and     *)
(* replaced, and beside one of them every change of Tombstone and exclusion.    *)
EXTENDS ChangeSetApply, TLC

CONSTANTS textA, textB, textC

VersionDiffs == INSTANCE VersionDiff

TwoPaths == {1, 2}
At(path, edition) ==
  [object |-> <<0, path>>, kind |-> "regular_file", over |-> <<edition, path>>,
   data |-> IF edition = 0 THEN textA ELSE textB]
Gone(path, edition) == [object |-> <<0, path>>, kind |-> "regular_file", over |-> <<edition, path>>]

StateOf(b, t, e, m) == [bindings |-> b, tombstones |-> t, exclusions |-> e, manifest |-> m]
BindingStates ==
  {StateOf(b, EmptyFunction, EmptyFunction, 0) :
     b \in PartialFunctions(TwoPaths, {At(p, n) : p \in Paths, n \in {0, 1}})}
RecordStates ==
  {StateOf(b, t, e, m) :
     b \in PartialFunctions({1}, {At(1, 0)}),
     t \in PartialFunctions(TwoPaths, {Gone(p, n) : p \in {1, 2}, n \in {0, 1}}),
     e \in PartialFunctions({2}, {"fifo", "socket"}), m \in {0, 1}}

DiffHolds(states) ==
  LET valid == {s \in states : VersionDiffs!ValidState(s)}
  IN  \A v, w \in valid : /\ VersionDiffs!Complete(v, w)
                          /\ VersionDiffs!EditsTold(v, w)
                          /\ VersionDiffs!OrderIsTotal(v, w)
                          /\ VersionDiffs!EmptyMeansEqual(v, w)

ASSUME DiffsOfBindings == DiffHolds(BindingStates)
ASSUME DiffsOfRecords == DiffHolds(RecordStates)
=============================================================================
