-------------------------------- MODULE MCKvCalls --------------------------------
(* Instances of KvCalls for model checking.                                    *)
EXTENDS KvCalls

CONSTANTS t1, t2, t3, none

Ask(op, action, expect) == [op |-> op, action |-> action, expect |-> expect, valid |-> TRUE, timed |-> TRUE]

\* t1 and t2 share the client of their process, t3 is in another one.
MCThreads == {t1, t2, t3}
MCClientOf == [t \in MCThreads |-> IF t = t3 THEN 2 ELSE 1]

\* All operations, a write guarded by a generation, and a key that cannot be hashed.
AllRequests ==
    {Ask(op, "update", none) : op \in Writes \cup {"get", "get_header", "exists", "delete"}}
    \cup {Ask("put", "create_only", none), Ask("put", "update_only", none), Ask("put", "update", 1)}
    \cup {[Ask("get", "update", none) EXCEPT !.valid = FALSE]}

\* Writes whose second execution differs from the first, one of them with the
\* timeouts of a new WritePolicy, and a handler that panics.
RetryRequests ==
    {[Ask("append", "update", none) EXCEPT !.timed = FALSE],
     Ask("put", "create_only", none), Ask("delete", "update", none),
     [Ask("get", "update", none) EXCEPT !.valid = FALSE]}

\* A delete of what another call wrote, or of nothing.
DeleteRequests == {Ask("put", "update", none), Ask("delete", "update", none)}
================================================================================
