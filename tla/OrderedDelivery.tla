---------------------------- MODULE OrderedDelivery ----------------------------
(* What a paginated scan promises to the PHP program that loops over it:      *)
(* every record reaches the program once, and within a partition in the       *)
(* server's order.  `times[x]` counts the deliveries of record x.             *)
EXTENDS Naturals

CONSTANTS
    Records,         \* the records of the scanned set
    PartitionOf(_),  \* the partition a record lives in
    Leq(_, _)        \* the server's order inside one partition

VARIABLE times

\* No record has been delivered yet.
Init == times = [x \in Records |-> 0]

\* The next record of a partition is one that was not delivered and that no
\* other undelivered record of its partition precedes.
Deliver(x) ==
    /\ times[x] = 0
    /\ \A y \in Records :
          PartitionOf(y) = PartitionOf(x) /\ times[y] = 0 => Leq(x, y)
    /\ times' = [times EXCEPT ![x] = 1]

Next == \E x \in Records : Deliver(x)

Spec == Init /\ [][Next]_times
================================================================================
