-------------------------- MODULE MCSnapshotArchive --------------------------
(* Three archiving calls over two snapshots with limits 0, 1 and 2: the     *)
(* same content twice, an eviction, overlaps and crashes, and a dashboard.  *)
EXTENDS SnapshotArchive, TLC

CONSTANTS r1, r2, r3, s1, s2

Interchangeable == Permutations({r1, r2, r3}) \cup Permutations({s1, s2})
=============================================================================
