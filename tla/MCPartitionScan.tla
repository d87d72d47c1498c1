---------------------------- MODULE MCPartitionScan ----------------------------
(* Small instances of PartitionScan.  A record's partition is its digest      *)
(* modulo the number of partitions.  A scan returns records without an index  *)
(* value; a query orders them by an index value, against their digests.  Only *)
(* a ScanPolicy has a max_records to set, so a query always runs to its end.  *)
EXTENDS PartitionScan, TLC

CONSTANT NB   \* model value for the absent index value

Rec(d, b) == [digest |-> d, bval |-> b]

\* Three partitions with two, two and one records, for scans.
ScanRecords == {Rec(3, NB), Rec(6, NB), Rec(1, NB), Rec(4, NB), Rec(2, NB)}

\* Two partitions with three and one records, for queries.  The index values of
\* the first one lie on both sides of 0, the value an absent one is sent as.
QueryRecords == {Rec(6, -5), Rec(2, -1), Rec(4, 3), Rec(1, 0)}

\* all(), range(0, 1) and partition(1).
AllOf2 == {[begin |-> 0, count |-> 2], [begin |-> 0, count |-> 1], [begin |-> 1, count |-> 1]}

\* Filters that start at partition 0: all() and range(0, n).
WholeOf3 == {[begin |-> 0, count |-> 3], [begin |-> 0, count |-> 2]}

\* Filters that start later: range(1, 2) and partition(2).
InnerOf3 == {[begin |-> 1, count |-> 2], [begin |-> 2, count |-> 1]}

Symmetry == Permutations(Recordsets)
================================================================================
