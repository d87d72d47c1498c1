----------------------------- MODULE PartitionScan -----------------------------
(* A scan or query over partitions, read page by page.                        *)
(*                                                                            *)
(* The PHP program holds one PartitionFilter object and opens Recordsets on   *)
(* it with Client.scan or Client.query.  Each request carries a copy of the   *)
(* filter's statuses; the connection manager's Scan or Query handler streams  *)
(* the results back, and Recordset.next stores the position of each record it *)
(* hands out in the shared filter, so that a later request resumes there.     *)
(*                                                                            *)
(* A partition yields its records in the order of the pair (bval, digest):    *)
(* bval is the index value of a query and absent in a scan.                   *)
EXTENDS Integers, Sequences

CONSTANTS
    PARTITIONS,  \* number of partitions of a namespace (4096 in the code)
    Records,     \* the stored records, [digest : Nat, bval : Int or NoBval]
    NoBval,      \* the absent index value of a scan result
    Filters,     \* [begin, count] of the filters the program may build
    MaxRecords,  \* values of the ScanPolicy's max_records, 0 for no limit; a
                 \* QueryPolicy has no such property, and its limit is 0
    Recordsets,  \* handles the program keeps recordsets in
    StreamCap,   \* messages that fit in a stream before Send blocks
    MaxFaults    \* bound on errors, failures and cancellations in a behaviour

NoDigest == 0    \* `digest: vec![]`, no record of the partition was read yet

Pids == 0 .. PARTITIONS - 1

ASSUME PartitionsAssumption == PARTITIONS \in Nat \ {0}
ASSUME RecordsAssumption ==
    \A x \in Records :
        /\ x \in [digest : Nat \ {NoDigest}, bval : Int \cup {NoBval}]
        /\ \A y \in Records : x.digest = y.digest => x = y
ASSUME NoBvalAssumption == NoBval \notin Int
ASSUME FiltersAssumption ==
    /\ Filters # {}
    /\ \A f \in Filters : /\ f \in [begin : Pids, count : 1 .. PARTITIONS]
                          /\ f.begin + f.count <= PARTITIONS
ASSUME BoundsAssumption ==
    /\ MaxRecords \subseteq Nat
    /\ StreamCap \in Nat \ {0}
    /\ MaxFaults \in Nat

VARIABLES
    filter,   \* [begin, count] of the shared PartitionFilter
    inited,   \* its `partitions` vector is filled (empty before the first scan)
    status,   \* its `partitions` vector: index -> [id, bval, digest]
    rs,       \* per handle, the Recordset: open, and what its caller has seen
    srv,      \* per handle, the connection manager's handler of the request
    stream,   \* per handle, the messages in flight, first in first out
    times,    \* how often each record was handed to the program (0, 1, 2 = more)
    alive,    \* the PHP process has not aborted
    faults    \* errors, failures and cancellations so far

vars == <<filter, inited, status, rs, srv, stream, times, alive, faults>>

(* -------------------------------- positions ------------------------------- *)

\* Key.partition_id: the low bits of the digest.
PartitionId(digest) == digest % PARTITIONS

\* toPartitionStatus turns an absent index value into 0.
BvalOr0(b) == IF b = NoBval THEN 0 ELSE b

\* The order in which the server walks a partition.
Leq(x, c) ==
    \/ BvalOr0(x.bval) < BvalOr0(c.bval)
    \/ BvalOr0(x.bval) = BvalOr0(c.bval) /\ x.digest <= c.digest

\* Record x lies at or before position c; nothing lies before an empty digest.
Covered(x, c) == c.digest # NoDigest /\ Leq(x, c)

InPartition(p) == {x \in Records : PartitionId(x.digest) = p}

Delivered == {x \in Records : times[x] > 0}

(* --------------------------------- messages ------------------------------- *)

Start == [bval |-> NoBval, digest |-> NoDigest]
NoRecord == Start

RecMsg(x) == [kind |-> "rec", rec |-> x]
ErrMsg    == [kind |-> "err", rec |-> NoRecord]   \* AerospikeStreamResponse.error
FailMsg   == [kind |-> "fail", rec |-> NoRecord]  \* gRPC status or lost connection
EndMsg    == [kind |-> "end", rec |-> NoRecord]   \* end of the stream

(* ------------------------------ initial states ---------------------------- *)

\* Mutant: ids count from 1.
NewStatusFromOne(id) == [id |-> id + 1, bval |-> NoBval, digest |-> NoDigest]

\* PartitionStatus::__construct(id).  The retry fields of statuses and filters and the
\* done field of filters are false in every message, and left out.
NewStatus(id) == [id |-> id, bval |-> NoBval, digest |-> NoDigest]

ClosedRecordset == [open |-> FALSE, ended |-> FALSE, erred |-> FALSE,
                    got |-> 0, max |-> 0]

IdleHandler == [phase |-> "stopped", todo |-> {}, cur |-> [p \in Pids |-> Start],
                sent |-> 0, max |-> 0, failed |-> FALSE]

Init ==
    /\ filter \in Filters
    /\ inited = FALSE
    /\ status = [i \in Pids |-> NewStatus(i)]
    /\ rs = [r \in Recordsets |-> ClosedRecordset]
    /\ srv = [r \in Recordsets |-> IdleHandler]
    /\ stream = [r \in Recordsets |-> <<>>]
    /\ times = [x \in Records |-> 0]
    /\ alive = TRUE
    /\ faults = 0

(* ----------------------------- PHP: scan / query --------------------------- *)

\* Mutant: the statuses are filled on every scan.
InitPartitionStatusAlways ==
    /\ inited' = TRUE
    /\ status' = [i \in Pids |-> NewStatus(i)]

\* init_partition_status: fill the statuses once, whatever begin and count are.
InitPartitionStatus ==
    /\ inited' = TRUE
    /\ status' = IF inited THEN status ELSE [i \in Pids |-> NewStatus(i)]

\* toPartitionFilter and toPartitionStatuses: the positions a request asks for.
\* A filter without statuses stands for its range from the start; one with
\* statuses stands for the partitions they name.
RequestedIds ==
    IF inited THEN {status[i].id : i \in Pids}
              ELSE filter.begin .. filter.begin + filter.count - 1

\* Mutant: toPartitionStatus forgets the index value.
RequestedPositionNoBval(p) ==
    [bval |-> 0, digest |-> IF inited THEN status[p].digest ELSE NoDigest]

\* Mutant: a status is sent without its digest.
RequestedPositionFresh(p) == Start

RequestedPosition(p) ==
    IF inited /\ \E i \in Pids : status[i].id = p
    THEN LET s == status[CHOOSE i \in Pids : status[i].id = p]
         IN  [bval |-> BvalOr0(s.bval), digest |-> s.digest]
    ELSE Start

\* Client.scan and Client.query: the request takes the filter as it is before
\* its statuses are initialised.  The call waits for the handler's first message,
\* with the filter locked; it is one step here, so that what other recordsets do
\* meanwhile is a little freer than in the code.
Scan(r, max) ==
    /\ alive
    /\ ~rs[r].open
    /\ srv' = [srv EXCEPT ![r] =
                 [phase |-> "starting", todo |-> RequestedIds,
                  cur |-> [p \in Pids |-> RequestedPosition(p)],
                  sent |-> 0, max |-> max, failed |-> FALSE]]
    /\ stream' = [stream EXCEPT ![r] = <<>>]
    /\ rs' = [rs EXCEPT ![r] = [open |-> TRUE, ended |-> FALSE, erred |-> FALSE,
                                got |-> 0, max |-> max]]
    /\ InitPartitionStatus
    /\ UNCHANGED <<filter, times, alive, faults>>

(* ----------------------- connection manager: Scan / Query ------------------ *)

\* Send appends to the stream of an open recordset; it blocks while it is full.
Room(r) == rs[r].open /\ Len(stream[r]) < StreamCap

Fault == faults < MaxFaults /\ faults' = faults + 1

\* ScanPartitions or QueryPartitions returned a result set.
HandlerStarts(r) ==
    /\ rs[r].open
    /\ srv[r].phase = "starting"
    /\ srv' = [srv EXCEPT ![r].phase = "running"]
    /\ UNCHANGED <<filter, inited, status, rs, stream, times, alive, faults>>

\* It returned an error: the handler sends it, then returns it as the status.
HandlerStartError(r) ==
    /\ rs[r].open
    /\ srv[r].phase = "starting"
    /\ Fault
    /\ stream' = [stream EXCEPT ![r] = Append(Append(@, ErrMsg), FailMsg)]
    /\ srv' = [srv EXCEPT ![r].phase = "stopped"]
    /\ UNCHANGED <<filter, inited, status, rs, times, alive>>

MaxReached(r) == srv[r].max # 0 /\ srv[r].sent >= srv[r].max

\* max_records is divided by the number of nodes, and a node with few records leaves
\* its share unused: a page may be shorter than its limit.  It is not empty while
\* records remain, as long as every node has a share.
ShareUsed(r) == srv[r].max # 0 /\ srv[r].sent > 0

\* The records partition p still has to yield to the handler of r.
Remaining(r, p) == {x \in InPartition(p) : ~Covered(x, srv[r].cur[p])}

\* Mutant: the result loop sends a record twice.
HandlerSendsRecordTwice(r, p) ==
    /\ srv[r].phase = "running"
    /\ Room(r)
    /\ ~MaxReached(r)
    /\ p \in srv[r].todo
    /\ \E x \in Remaining(r, p) :
          /\ \A y \in Remaining(r, p) : Leq(x, y)
          /\ stream' = [stream EXCEPT ![r] = Append(Append(@, RecMsg(x)), RecMsg(x))]
          /\ srv' = [srv EXCEPT ![r].cur[p] = x, ![r].sent = @ + 1]
    /\ UNCHANGED <<filter, inited, status, rs, times, alive, faults>>

\* The result loop sends a record, the next one of some partition.
HandlerSendsRecord(r, p) ==
    /\ srv[r].phase = "running"
    /\ Room(r)
    /\ ~MaxReached(r)
    /\ p \in srv[r].todo
    /\ \E x \in Remaining(r, p) :
          /\ \A y \in Remaining(r, p) : Leq(x, y)
          /\ stream' = [stream EXCEPT ![r] = Append(@, RecMsg(x))]
          /\ srv' = [srv EXCEPT ![r].cur[p] = x, ![r].sent = @ + 1]
    /\ UNCHANGED <<filter, inited, status, rs, times, alive, faults>>

\* The result loop sends an error result and goes on.
HandlerSendsError(r) ==
    /\ srv[r].phase = "running"
    /\ Room(r)
    /\ Fault
    /\ stream' = [stream EXCEPT ![r] = Append(@, ErrMsg)]
    /\ srv' = [srv EXCEPT ![r].failed = TRUE]
    /\ UNCHANGED <<filter, inited, status, rs, times, alive>>

\* The result channel is closed: nothing remains, the nodes have used their shares
\* of the limit, or the server reported an error.
HandlerReturns(r) ==
    /\ srv[r].phase = "running"
    /\ rs[r].open
    /\ srv[r].failed \/ ShareUsed(r) \/ \A p \in srv[r].todo : Remaining(r, p) = {}
    /\ stream' = [stream EXCEPT ![r] = Append(@, EndMsg)]
    /\ srv' = [srv EXCEPT ![r].phase = "stopped"]
    /\ UNCHANGED <<filter, inited, status, rs, times, alive, faults>>

\* The connection manager dies or the handler panics: what the client had not
\* yet received is lost, and the stream fails.  Something was received before: a
\* request that fails before its first message makes Client.scan throw, with no
\* Recordset and no status changed, and is no step here.
StreamFails(r) ==
    /\ rs[r].open
    /\ srv[r].phase # "stopped"
    /\ Fault
    /\ \E k \in 0 .. Len(stream[r]) :
          /\ k > 0 \/ rs[r].got > 0 \/ rs[r].erred
          /\ stream' = [stream EXCEPT ![r] = Append(SubSeq(@, 1, k), FailMsg)]
    /\ srv' = [srv EXCEPT ![r].phase = "stopped"]
    /\ UNCHANGED <<filter, inited, status, rs, times, alive>>

(* --------------------------- PHP: Recordset.next -------------------------- *)

\* next() is called on an open recordset and the stream yields a message.
Yields(r, kind) ==
    /\ alive
    /\ rs[r].open
    /\ stream[r] # <<>>
    /\ Head(stream[r]).kind = kind

\* Mutant: the index is off by one.
StatusIndexShifted(x) == PartitionId(x.digest) - filter.begin + 1

\* `pid - begin`, the index of the status that next() updates.
StatusIndex(x) == PartitionId(x.digest) - filter.begin

Seen(n) == IF n = 0 THEN 1 ELSE 2

\* A record: its position goes into the filter, the record to the caller.
NextRecord(r) ==
    /\ Yields(r, "rec")
    /\ LET x == Head(stream[r]).rec IN
          /\ StatusIndex(x) \in Pids
          /\ status' = [status EXCEPT ![StatusIndex(x)] =
                          [id |-> @.id, bval |-> x.bval, digest |-> x.digest]]
          /\ times' = [times EXCEPT ![x] = Seen(@)]
    /\ stream' = [stream EXCEPT ![r] = Tail(@)]
    /\ rs' = [rs EXCEPT ![r].got = @ + 1]
    /\ UNCHANGED <<filter, inited, srv, alive, faults>>

\* A record whose index is outside the vector: the Rust code panics inside an
\* `extern "C"` function and the PHP process aborts.
NextPanics(r) ==
    /\ Yields(r, "rec")
    /\ StatusIndex(Head(stream[r]).rec) \notin Pids
    /\ alive' = FALSE
    /\ UNCHANGED <<filter, inited, status, rs, srv, stream, times, faults>>

\* An error result: the exception is thrown and the recordset stays open.
NextError(r) ==
    /\ Yields(r, "err")
    /\ stream' = [stream EXCEPT ![r] = Tail(@)]
    /\ rs' = [rs EXCEPT ![r].erred = TRUE]
    /\ UNCHANGED <<filter, inited, status, srv, times, alive, faults>>

\* Mutant: a failed stream ends silently.
NextFailureSilent(r) ==
    /\ Yields(r, "fail")
    /\ stream' = [stream EXCEPT ![r] = <<EndMsg>>]
    /\ UNCHANGED <<filter, inited, status, rs, srv, times, alive, faults>>

\* A failed stream: the exception is thrown, the recordset stays open and the
\* stream has nothing more to yield.
NextFailure(r) ==
    /\ Yields(r, "fail")
    /\ stream' = [stream EXCEPT ![r] = <<EndMsg>>]
    /\ rs' = [rs EXCEPT ![r].erred = TRUE]
    /\ UNCHANGED <<filter, inited, status, srv, times, alive, faults>>

\* Mutant: the end of the stream leaves the recordset open.
NextEndStaysOpen(r) ==
    /\ Yields(r, "end")
    /\ stream' = [stream EXCEPT ![r] = <<>>]
    /\ UNCHANGED <<filter, inited, status, rs, srv, times, alive, faults>>

\* The end of the stream closes the recordset.
NextEnd(r) ==
    /\ Yields(r, "end")
    /\ stream' = [stream EXCEPT ![r] = <<>>]
    /\ rs' = [rs EXCEPT ![r].open = FALSE, ![r].ended = TRUE]
    /\ UNCHANGED <<filter, inited, status, srv, times, alive, faults>>

\* Recordset.close by the program, in the middle of a page.
Close(r) ==
    /\ alive
    /\ rs[r].open
    /\ Fault
    /\ stream' = [stream EXCEPT ![r] = <<>>]
    /\ rs' = [rs EXCEPT ![r].open = FALSE]
    /\ UNCHANGED <<filter, inited, status, srv, times, alive>>

(* ------------------------------ specification ----------------------------- *)

NextCall(r) ==
    \/ NextRecord(r)
    \/ NextPanics(r)
    \/ NextError(r)
    \/ NextFailure(r)
    \/ NextEnd(r)

Handler(r) ==
    \/ HandlerStarts(r)
    \/ \E p \in Pids : HandlerSendsRecord(r, p)
    \/ HandlerReturns(r)

Trouble(r) ==
    \/ HandlerStartError(r)
    \/ HandlerSendsError(r)
    \/ StreamFails(r)
    \/ Close(r)

Next ==
    \E r \in Recordsets :
        \/ \E max \in MaxRecords : Scan(r, max)
        \/ Handler(r)
        \/ NextCall(r)
        \/ Trouble(r)

Spec == Init /\ [][Next]_vars

\* The connection manager's goroutines keep running, and the program keeps
\* paging: it reads each recordset to its end and opens the next one.
Fairness ==
    \A r \in Recordsets :
        /\ WF_vars(Handler(r))
        /\ WF_vars(NextCall(r))
        /\ WF_vars(\E max \in MaxRecords : Scan(r, max))

FairSpec == Spec /\ Fairness

(* -------------------------------- properties ------------------------------ *)

Positions == [bval : Int \cup {NoBval}, digest : Nat]

Messages == [kind : {"rec"}, rec : Records] \cup {ErrMsg, FailMsg, EndMsg}

Statuses == [id : Pids, bval : Int \cup {NoBval}, digest : Nat]

RecordsetStates == [open : BOOLEAN, ended : BOOLEAN, erred : BOOLEAN,
                    got : Nat, max : Nat]

HandlerStates == [phase : {"starting", "running", "stopped"},
                  todo : SUBSET Pids, cur : [Pids -> Positions],
                  sent : Nat, max : Nat, failed : BOOLEAN]

\* Every variable keeps its type; the vector of statuses keeps one status per
\* partition, at the index of its id.
TypeOK ==
    /\ filter \in Filters
    /\ inited \in BOOLEAN
    /\ status \in [Pids -> Statuses]
    /\ \A i \in Pids : status[i].id = i
    /\ rs \in [Recordsets -> RecordsetStates]
    /\ srv \in [Recordsets -> HandlerStates]
    /\ stream \in [Recordsets -> Seq(Messages)]
    /\ times \in [Records -> 0 .. 2]
    /\ alive \in BOOLEAN
    /\ faults \in 0 .. MaxFaults

\* All records up to the stored position of a partition have reached the program.
PositionsSound ==
    \A i \in Pids : \A x \in InPartition(status[i].id) :
        Covered(x, status[i]) => x \in Delivered

\* No record is lost by resuming (Recordset.next and Client.scan together): with a
\* filter that starts at partition 0, where the index of a status is its partition,
\* stored positions are sound, whatever was cancelled, failed or read through
\* another recordset meanwhile.
CursorSound == filter.begin = 0 => PositionsSound

\* Record x is in the stream q.
Carries(q, x) == \E j \in 1 .. Len(q) : q[j] = RecMsg(x)

\* What precedes a record of the stream q is in D or ahead of it in q.
Accounted(q, D) ==
    \A i \in 1 .. Len(q) :
        q[i].kind = "rec" =>
            \A x \in InPartition(PartitionId(q[i].rec.digest)) :
                Leq(x, q[i].rec) => x \in D \/ \E j \in 1 .. i : q[j] = RecMsg(x)

StreamAccounts == \A r \in Recordsets : Accounted(stream[r], Delivered)

\* What a running handler has passed is delivered or on its way.
HandlerAccounts ==
    \A r \in Recordsets : rs[r].open /\ srv[r].phase # "stopped" =>
        \A p \in Pids : \A x \in InPartition(p) :
            Covered(x, srv[r].cur[p]) => x \in Delivered \/ Carries(stream[r], x)

\* A failed stream has no handler any more.
FailureStopsHandler ==
    \A r \in Recordsets : \A i \in 1 .. Len(stream[r]) :
        stream[r][i].kind = "fail" => srv[r].phase = "stopped"

\* The inductive strengthening of PositionsSound.
ScanInv ==
    /\ TypeOK
    /\ PositionsSound
    /\ HandlerAccounts
    /\ StreamAccounts
    /\ FailureStopsHandler

\* A scan without a limit that ends without an exception (`None` from Recordset.next)
\* was complete, and so was the scan before an empty page: every record of the filter
\* has arrived, if the filter starts at partition 0.  A page that is only below its
\* limit need not be the last.
LastPageComplete ==
    filter.begin = 0 => \A r \in Recordsets :
        rs[r].ended /\ ~rs[r].erred /\ (rs[r].max = 0 \/ rs[r].got = 0)
        => \A p \in filter.begin .. filter.begin + filter.count - 1 :
              InPartition(p) \subseteq Delivered

\* PartitionStatus: "Digest records the digest of the last key digest received
\* from the server for this partition."
StatusHoldsOwnDigest ==
    \A i \in Pids : status[i].digest # NoDigest
                     => PartitionId(status[i].digest) = status[i].id

\* Recordset.next never moves the stored position of a partition backwards while
\* the program reads one recordset at a time.
CursorNeverMovesBack ==
    [][\A i \in Pids : status[i].digest # NoDigest => Covered(status[i], status'[i])]_vars

\* One stream never yields a record to Recordset.next twice, nor records of one
\* partition out of order, even with statuses of the wrong partitions.
StreamInOrder ==
    \A r \in Recordsets : \A i, j \in 1 .. Len(stream[r]) :
        /\ i < j
        /\ stream[r][i].kind = "rec" /\ stream[r][j].kind = "rec"
        /\ PartitionId(stream[r][i].rec.digest) = PartitionId(stream[r][j].rec.digest)
        => ~Leq(stream[r][j].rec, stream[r][i].rec)

\* Paging with one recordset at a time (scan, next until null, scan again)
\* delivers every record at most once and in order: it implements the promise of
\* OrderedDelivery.
RecordPartition(x) == PartitionId(x.digest)
Promise == INSTANCE OrderedDelivery WITH PartitionOf <- RecordPartition
ExactlyOnce == Promise!Spec

\* A program that keeps paging receives every record of its filter, in spite of a
\* bounded number of errors, lost streams and cancellations.
EveryRecordArrives ==
    <>(\A p \in filter.begin .. filter.begin + filter.count - 1 :
          InPartition(p) \subseteq Delivered)
================================================================================
