--------------------------- MODULE MCSnapshotStore ---------------------------
(* SnapshotStore for TLC: keys and requests are model values.              *)
EXTENDS SnapshotStore, TLC

Symmetry == Permutations(Key) \cup Permutations(Proc)
=============================================================================
