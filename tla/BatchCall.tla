-------------------------------- MODULE BatchCall --------------------------------
(* Client::batch: reads, writes, deletes and UDF calls on several keys in one  *)
(* request.  The constructors of the commands encode their operations; batch   *)
(* collects the messages of the commands it recognises and sends them in one   *)
(* request; the handler BatchOperate converts all of them before it calls the  *)
(* Go client, which sends the commands to their nodes; the results come back   *)
(* by position.  A conversion that panics becomes a gRPC error, and the        *)
(* connection manager may crash at any point.  A program may write back, in a  *)
(* second batch, the values it has read in the first.                          *)
EXTENDS CdtCodec, ExpressionCodec, ValueCodec

CONSTANT Batches   \* sequences of commands a program may pass to batch

\* The optional list of bins of a BatchRead.
NoBins == [given |-> FALSE, names |-> << >>]
Bins(names) == [given |-> TRUE, names |-> names]

\* Commands, as a program makes them: operations, kind of the key's value, filter
\* expression of the policy, value of the bin that is put, and what the bin holds
\* before the call.  The key of a command is its position.
Cmd(kind, bins, ops) ==
    [kind |-> kind, bins |-> bins, ops |-> ops, key |-> "int", filter |-> << >>,
     value |-> Scalar("int"), holds |-> Scalar("int")]

Kinds == {"read", "write", "delete", "udf", "invalid"}

IsCommand(c) ==
    /\ c = [kind |-> c.kind, bins |-> c.bins, ops |-> c.ops, key |-> c.key, filter |-> c.filter,
            value |-> c.value, holds |-> c.holds]
    /\ c.kind \in Kinds

IsBatch(b) == Len(b) \in Nat /\ DOMAIN b = 1 .. Len(b) /\ \A i \in DOMAIN b : IsCommand(b[i])

ASSUME BatchesAssumption == \A b \in Batches : IsBatch(b)

ASSUME ValuesAssumption == \A b \in Batches : \A i \in DOMAIN b : IsZval(b[i].value) /\ IsNative(b[i].holds)

\* A command has names of bins or operations, never both.
IsMeant(c) ==
    /\ c.bins = NoBins \/ c.bins = Bins(c.bins.names)
    /\ c.bins.names # << >> => c.ops = << >>
    /\ Len(c.ops) \in Nat /\ DOMAIN c.ops = 1 .. Len(c.ops)
    /\ \A k \in DOMAIN c.ops : IsOp(c.ops[k])
    /\ IsFilter(c.filter)

ASSUME CommandsAssumption == \A b \in Batches : \A i \in DOMAIN b : IsMeant(b[i])

VARIABLES
    asked,   \* the commands of the call
    round,   \* 1, or 2 when values are written back
    bin,     \* per key, what its bin holds in the cluster
    was,     \* the same, when the second round began
    pc,      \* where the call is
    msgs,    \* the messages of the request
    recs,    \* the Go client's records, once converted
    net,     \* positions of recs on their way to their nodes
    done,    \* positions of recs executed by the cluster
    answer,  \* positions of recs whose result has come in
    thrown,  \* an exception is pending
    seen     \* what the program gets

vars == <<asked, round, bin, was, pc, msgs, recs, net, done, answer, thrown, seen>>

Init ==
    /\ asked \in Batches
    /\ round = 1
    /\ bin = [i \in DOMAIN asked |-> asked[i].holds] /\ was = bin
    /\ pc = "new"
    /\ msgs = << >> /\ recs = << >>
    /\ net = {} /\ done = {} /\ answer = {}
    /\ thrown = FALSE
    /\ seen = [kind |-> "nothing", records |-> << >>]

(* ------------------------------ PHP: the request -------------------------- *)

PutsValue(cmd) == \E k \in DOMAIN cmd.ops : cmd.ops[k].method = "Put"

\* The program makes its bins, policies and operations.  A value of a foreign class,
\* flags of another class and an argument or a map constant of another shape are refused
\* with an exception, and no batch is sent; a foreign object in an array ends the process.  Of the two, what
\* the program comes to first happens.
Construct ==
    LET Values == {asked[i].value : i \in {j \in DOMAIN asked : PutsValue(asked[j])}}
        Ops == UNION {{asked[i].ops[k] : k \in DOMAIN asked[i].ops} : i \in DOMAIN asked}
        Ends == \E v \in Values : Aborts(v)
        Refuses == \/ \E v \in Values : Throws(v)
                   \/ \E op \in Ops : OpRefused(op)
                   \/ \E i \in DOMAIN asked : FilterRefused(asked[i].filter)
    IN
    /\ pc = "new"
    /\ \/ Ends /\ pc' = "aborted"
       \/ Refuses /\ pc' = "refused"
       \/ ~Ends /\ ~Refuses /\ pc' = "called"
    /\ UNCHANGED <<asked, round, bin, was, msgs, recs, net, done, answer, thrown, seen>>

EncodeOps(ops) == [k \in DOMAIN ops |-> Encode(ops[k])]

\* The message a constructor builds: BatchRead (bins, ops or header), BatchWrite,
\* BatchDelete, BatchUdf.
Message(cmd, i) ==
    [kind |-> cmd.kind, key |-> i, key_value |-> cmd.key,
     filter_expression |-> EncodeFilter(cmd.filter),
     value |-> IF PutsValue(cmd) THEN ToMessage(cmd.value) ELSE Scalar("Nil"),
     bin_names |-> cmd.bins.names,
     read_all_bins |-> cmd.bins = Bins(<< >>),
     ops |-> EncodeOps(cmd.ops)]

\* Mutant: what is not a command is skipped without a word.
BuildSkips ==
    /\ pc = "called"
    /\ msgs' = SelectSeq([i \in DOMAIN asked |-> Message(asked[i], i)], LAMBDA m : m.kind # "invalid")
    /\ pc' = "rpc"
    /\ UNCHANGED <<asked, round, bin, was, recs, net, done, answer, thrown, seen>>

\* Mutant: a command is recognised by two of the branches.
BuildTwice ==
    /\ pc = "called"
    /\ LET all == [i \in DOMAIN asked |-> Message(asked[i], i)] IN msgs' = all \o all
    /\ pc' = "rpc"
    /\ UNCHANGED <<asked, round, bin, was, recs, net, done, answer, thrown, seen>>

\* The arguments batch recognises as commands, and the k-th of them.
Recognised == {i \in DOMAIN asked : asked[i].kind # "invalid"}
Nth(k) == CHOOSE i \in Recognised : Cardinality({j \in Recognised : j <= i}) = k

\* batch: what is not a command makes an exception pending; the others are sent.
Build ==
    /\ pc = "called"
    /\ msgs' = [k \in 1 .. Cardinality(Recognised) |-> Message(asked[Nth(k)], Nth(k))]
    /\ thrown' = (Recognised # DOMAIN asked)
    /\ pc' = "rpc"
    /\ UNCHANGED <<asked, round, bin, was, recs, net, done, answer, seen>>

(* --------------------------- connection manager --------------------------- *)

\* toBatchRecordIfc, toOps: which record a message becomes.
BatchRecordIfc(m) ==
    [kind |-> m.kind, key |-> m.key,
     filter |-> ToFilter(m.filter_expression),
     value |-> ToValue(m.value),
     bins |-> m.bin_names,
     ops  |-> IF m.bin_names # << >> THEN << >> ELSE [k \in DOMAIN m.ops |-> ToOp(m.ops[k])],
     read |-> IF m.kind # "read" THEN "no"
              ELSE IF m.bin_names # << >> THEN "bins"
              ELSE IF m.ops # << >> THEN "ops"
              ELSE IF m.read_all_bins THEN "all" ELSE "header"]

MessagePanics(m) ==
    \/ ~KeyAccepted(m.key_value)
    \/ FilterPanics(m.filter_expression)
    \/ m.bin_names = << >> /\ \E k \in DOMAIN m.ops : Panics(m.ops[k])

\* Mutant: the records converted before a panic are executed.
HandleEach ==
    LET Bad == {i \in DOMAIN msgs : MessagePanics(msgs[i])}
        Good == {i \in DOMAIN msgs : \A j \in Bad : i < j}
    IN
    /\ pc = "rpc"
    /\ recs' = [i \in 1 .. Cardinality(Good) |-> BatchRecordIfc(msgs[i])]
    /\ net' = Good
    /\ pc' = IF Bad = {} THEN "go" ELSE "broken"
    /\ UNCHANGED <<asked, round, bin, was, msgs, done, answer, thrown, seen>>

\* BatchOperate: all messages are converted, then the Go client is called.
Handle ==
    /\ pc = "rpc"
    /\ IF \E i \in DOMAIN msgs : MessagePanics(msgs[i])
       THEN /\ pc' = "broken"
            /\ UNCHANGED <<recs, net>>
       ELSE /\ pc' = "go"
            /\ recs' = [i \in DOMAIN msgs |-> BatchRecordIfc(msgs[i])]
            /\ net' = DOMAIN msgs
    /\ UNCHANGED <<asked, round, bin, was, msgs, done, answer, thrown, seen>>

\* A node executes a command; the result reaches the Go client or is lost.
Execute(i) ==
    /\ i \in net
    /\ bin' = IF PutsValue(asked[recs[i].key])
              THEN [bin EXCEPT ![recs[i].key] = Stored(recs[i].value)]
              ELSE bin
    /\ net' = net \ {i}
    /\ done' = done \cup {i}
    /\ \/ pc = "go" /\ answer' = answer \cup {i}
       \/ UNCHANGED answer
    /\ UNCHANGED <<asked, round, was, pc, msgs, recs, thrown, seen>>

\* A command does not reach its node, or its filter keeps it from the record.
Lose(i) ==
    /\ i \in net
    /\ net' = net \ {i}
    /\ UNCHANGED <<asked, round, bin, was, pc, msgs, recs, done, answer, thrown, seen>>

\* A program gets the value of the bin from these.
GetsValue(cmd) == \E k \in DOMAIN cmd.ops : cmd.ops[k].method = "Get"

\* fromBatchRecords and the list batch makes of it: one entry per record, with its
\* result if there is one.
FromBatchRecords(values) ==
    [i \in DOMAIN recs |-> [key |-> recs[i].key, record |-> i \in answer, value |-> values[i]]]

ReadValues ==
    {f \in [DOMAIN recs -> UNION {Seen(bin[k]) : k \in DOMAIN bin}] :
        \A i \in DOMAIN recs : f[i] \in Seen(bin[recs[i].key])}

\* BatchOperate of the Go client returns, with an error for the whole batch or not,
\* and so does the handler.
GoReturns ==
    /\ pc = "go"
    /\ pc' \in {"reply", "error"}
    /\ net = {} \/ pc' = "error"
    /\ UNCHANGED <<asked, round, bin, was, msgs, recs, net, done, answer, thrown, seen>>

\* The connection manager dies.
AcmCrash ==
    /\ pc \in {"rpc", "go", "reply", "error"}
    /\ pc' = "broken"
    /\ UNCHANGED <<asked, round, bin, was, msgs, recs, net, done, answer, thrown, seen>>

(* ------------------------------- PHP: the result -------------------------- *)

\* A pending exception hides the list; an error of the batch or of the transport
\* is thrown in any case.
Return ==
    /\ pc \in {"reply", "error", "broken", "refused"}
    /\ IF pc \in {"broken", "refused"} THEN seen' = [kind |-> "exception", records |-> << >>]
       ELSE IF pc = "error" \/ thrown THEN seen' = [kind |-> "aerospike", records |-> << >>]
       ELSE \E values \in ReadValues : seen' = [kind |-> "list", records |-> FromBatchRecords(values)]
    /\ pc' = "returned"
    /\ UNCHANGED <<asked, round, bin, was, msgs, recs, net, done, answer, thrown>>

\* The program puts every value it has read back where it came from.
WriteBack ==
    /\ pc = "returned" /\ round = 1 /\ seen.kind = "list"
    /\ \A i \in DOMAIN asked : GetsValue(asked[i]) /\ seen.records[i].record
    /\ asked' = [i \in DOMAIN asked |->
                    [asked[i] EXCEPT !.value = seen.records[i].value, !.ops = <<Op("Put"), Op("Get")>>]]
    /\ round' = 2
    /\ was' = bin
    /\ pc' = "new"
    /\ msgs' = << >> /\ recs' = << >>
    /\ done' = {} /\ answer' = {}
    /\ seen' = [kind |-> "nothing", records |-> << >>]
    /\ UNCHANGED <<bin, net, thrown>>

Ended == pc \in {"returned", "aborted"} /\ net = {} /\ UNCHANGED vars

Next ==
    \/ Construct \/ Build \/ Handle \/ GoReturns \/ AcmCrash \/ Return \/ WriteBack
    \/ \E i \in net : Execute(i) \/ Lose(i)
    \/ Ended

Spec == Init /\ [][Next]_vars

(* -------------------------------- properties ------------------------------ *)

\* The call goes through its stages, and at most the converted records are on
\* their way, executed or answered.
TypeOK ==
    /\ round \in {1, 2}
    /\ IsBatch(asked)
    /\ DOMAIN bin = DOMAIN asked /\ DOMAIN was = DOMAIN asked
    /\ pc \in {"new", "refused", "aborted", "called", "rpc", "go", "reply", "error", "broken", "returned"}
    /\ Len(msgs) <= Len(asked) /\ Len(recs) <= Len(msgs)
    /\ net \cup done \subseteq DOMAIN recs /\ net \cap done = {}
    /\ answer \subseteq done
    /\ thrown \in BOOLEAN
    /\ seen.kind \in {"nothing", "list", "aerospike", "exception"}

\* The reading of a command, as its constructor promises it.
ReadAsked(cmd) ==
    IF cmd.kind # "read" THEN "no"
    ELSE IF cmd.ops # << >> THEN "ops"
    ELSE IF cmd.bins = NoBins THEN "header"
    ELSE IF cmd.bins = Bins(<< >>) THEN "all" ELSE "bins"

\* The Go client is asked for what the program asked for: each operation has the
\* meaning of the method that made it, with every argument in its own parameter and
\* its return type, places and flags, and so has each expression of a filter.
Delivered ==
    \A i \in DOMAIN recs : LET cmd == asked[recs[i].key] IN
        /\ recs[i].kind = cmd.kind /\ recs[i].read = ReadAsked(cmd)
        /\ DOMAIN recs[i].ops = DOMAIN cmd.ops
        /\ \A k \in DOMAIN cmd.ops : recs[i].ops[k] = Asked(cmd.ops[k])
        /\ DOMAIN recs[i].filter = DOMAIN cmd.filter
        /\ \A k \in DOMAIN cmd.filter : recs[i].filter[k] = ExpAsked(cmd.filter[k])

\* The methods whose two ends do not fit.
Misfits ==
    {"ListRemoveByValueRange", "ListGetByValueRangeOpen", "MapCreate", "MapSize",
     "MapRemoveByValueRelativeRankRangeCount", "MapGetByIndexRange", "MapGetByRankRange",
     "MapGetByIndexRangeCount", "MapGetByRankRangeCount", "BitAdd", "BitSubtract"}

ExpMisfits == {"NumFloor", "HLLBin", "EmptyListVal", "NoMapVal", "Def", "Exclusive"}

\* An operation that does not arrive as it was meant: one of the methods in Misfits,
\* an inverted return type of a map other than None, the flags of HLLWriteFlags, or an
\* argument that assert_map, assert_hll_list or from_zval refuses.
MisfitOp(op) ==
    \/ op.method \in Misfits
    \/ op.method \in MapReturning /\ op.returns \in {Inverted(r) : r \in MapReturnTypes \ {0}}
    \/ op.flags # {} /\ op.of = "hll"
    \/ op.arg = "unfit"

MisfitCmd(cmd) ==
    \/ \E k \in DOMAIN cmd.ops : MisfitOp(cmd.ops[k])
    \/ \E k \in DOMAIN cmd.filter : cmd.filter[k] \in ExpMisfits

\* A batch loses its meaning, breaks or is refused through misfits, foreign objects
\* and keys that cannot be hashed, and through each misfit it does: operation codes
\* and argument positions of all other methods agree between lib.rs and kvs.go.
OnlyMisfitsGoWrong ==
    LET UsesMisfit == \E i \in DOMAIN msgs : MisfitCmd(asked[msgs[i].key]) IN
    /\ pc \in {"go", "reply", "error"} => (Delivered <=> ~UsesMisfit)
    /\ pc = "rpc" /\ (\E i \in DOMAIN msgs : MessagePanics(msgs[i]))
         => UsesMisfit \/ \E i \in DOMAIN asked : asked[i].key \notin {"int", "string", "blob"}
    /\ pc = "refused" => \E i \in DOMAIN asked : MisfitCmd(asked[i]) \/ asked[i].value = Scalar("object")
    /\ pc = "aborted" => \E i \in DOMAIN asked : asked[i].value.t = "array"
                            /\ Scalar("object") \in {e[2] : e \in asked[i].value.entries}

\* lib.rs 10033 says "The returned records are located in the same list": a list
\* that is returned has one entry per command, at its position, and a record only
\* where the command was executed.
ResultsInPlace ==
    seen.kind = "list" =>
        /\ DOMAIN seen.records = DOMAIN asked
        /\ \A i \in DOMAIN asked : /\ seen.records[i].key = i
                                   /\ seen.records[i].record => i \in done

\* A command that cannot be converted keeps the whole batch from the cluster.
BrokenBatchHasNoEffect ==
    (\E i \in DOMAIN msgs : MessagePanics(msgs[i])) => net = {} /\ done = {}

\* An array with integer keys that are not 0, 1, ... in order.
Mangled(zval) ==
    /\ zval.t = "array"
    /\ ~HasSequentialKeys(zval.entries)
    /\ \E k \in Keys(zval.entries) : k.t = "int"

\* A map that a PHP array cannot stand for.
Unlike(native) ==
    /\ native.t = "map"
    /\ native.pairs = {} \/ \E p \in native.pairs : p[1].t = "int"

\* A value that is put comes back as it was, and a value that is read and written back
\* leaves the bin as it was (from_zval, IntoZval, fromValue).  The exceptions are
\* what PHP arrays and string keys cannot carry: an array with integer keys that are
\* not those of a list comes back with string keys, or without some of its entries;
\* a map with integer keys, or an empty one, becomes another value when written back.
ValuesComeBack ==
    /\ \A i \in DOMAIN seen.records :
          seen.records[i].record /\ PutsValue(asked[i]) /\ GetsValue(asked[i])
            => (seen.records[i].value = asked[i].value <=> ~Mangled(asked[i].value))
    /\ \A i \in done : round = 2 => (bin[i] = was[i] <=> ~Unlike(was[i]))
================================================================================
