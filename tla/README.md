# TLA+ models of the Aerospike PHP client

This directory holds TLA+ specifications of the Aerospike PHP client: the Rust
extension that PHP loads (`src/src/lib.rs`, `src/src/grpc.rs`) and the connection
manager, a Go process that holds the connections to the cluster
(`src/aerospike-connection-manager`). TLC checks them on small instances, and TLAPS
proves all their safety properties for every size. `PROJECT.json` lists the components, the
runs, the lines each definition stands for, the hazards and the theorems.

Paths below are relative to the repository's root: `lib.rs` is `src/lib.rs`, `grpc.rs` is
`src/grpc.rs`, `kvs.go` and `main.go` are in `aerospike-connection-manager/`.

## 1. The system

```
 PHP program
   | methods of Aerospike\Client, Recordset, policies, operations
 Rust extension         lib.rs: objects wrap protobuf messages; CLIENTS map
   | one BlockingClient per socket path, behind a mutex (grpc.rs)
   | gRPC over a unix socket, one HTTP/2 connection
 connection manager     main.go: one gRPC server per cluster; kvs.go: handlers
   | Aerospike Go client (external)
 Aerospike cluster      (external)
```

| part | state it keeps | operations | hard because | correct when |
|---|---|---|---|---|
| scans, queries, recordsets | statuses of a `PartitionFilter` (shared, behind a mutex), the stream of each `Recordset`, the handler's result set | `scan`, `query`, `next`, `close`; handlers `Scan`, `Query` | the request carries a copy of positions that others move on; streams fail in the middle; errors do not end a stream; index arithmetic on partitions | a resumed scan passes over nothing, repeats nothing, and ends |
| connection manager process | goroutines, socket files | start, `launchServer`, `cleanUp`, signals | files outlive processes; `log.Fatalln` runs no clean-up; a second process; a signal during the start | served clusters are reachable; a clean stop leaves no file; an operator gets it running again |
| connection registry | `CLIENTS`, the mutex of each client, its channel | `connect`, any call | look-up, dial and insert are separate critical sections; channels reconnect by themselves | `connect` returns, threads come to share one client, versions were compared |
| single-record calls | mutex of the client, calls in flight | `put`, `add`, `append`, `prepend`, `touch`, `delete`, `get`, `getHeader`, `exists` | lost answers, late and repeated execution, crashes, shared mutex | one atomic step per call; a certain error has no effect; every call returns |
| shared HTTP/2 connection | windows, dropped streams, the call in `block_on` | all calls and streams of one client | flow control across streams; nothing drives the connection between calls | a call returns unless the program has left too much unread; the next call ends the handlers of closed recordsets |
| batch calls | the commands, their messages, records, results | `batch`, `BatchOperate` | conversion panics, results matched by position, partial execution | results in place; a batch that cannot be converted has no effect |
| operation and expression codecs | none | two hundred constructors and one `switch` per kind | two languages agree on codes and argument positions only by convention | each operation and each filter arrives with its meaning |
| values and keys | none | `from_zval`, `into_zval`, `toValue`, `fromValue`, `toKey` | one PHP array type for lists and maps; keys of two types | a value comes back as it was written, and survives being written back |
| policies and statements | the message in each object | setters, getters, copies, conversion | crossed fields, aliasing, numbers cast to constants, 32-bit arithmetic | what was set is what is read and what the command uses |
| index, truncate, UDF, user and role calls | none in the client; the directory of the cluster | one request and one response each | arguments handed over by position; conversions that panic; commands that execute after they were given up, or after they were answered | arguments arrive; answers about users and roles are true; an internal error means that nothing was asked of the cluster |
| configuration, flags, generated code, stubs, docs, tests | none at run time | | | not modelled |

The parts interact through the mutex of a client (every call and every `next` take it,
and hold it until the response is there), through the HTTP/2 connection, through the
`PartitionFilter` that a program passes to several scans, and through the socket files.

## 2. Modules

| module | models | state | one action per |
|---|---|---|---|
| `PartitionScan` | scans and queries | `filter`, `inited`, `status`: the `PartitionFilter`; `rs`: the recordsets; `srv`: the handlers; `stream`: messages on their way; `times`: ghost count of deliveries | `Client::scan`/`query`, arm of the `match` in `Recordset::next`, step of the handler's result loop, kind of failure |
| `OrderedDelivery` | what paging promises: every record once, in order | `times` | delivery |
| `AcmDaemon` | `main.go` | `proc`, `server`: the goroutines; `toClean`, `exit`; `sock`: the files | statement at which a goroutine can stop or the process can end |
| `ClientRegistry` | `connect`, `CLIENTS`, reconnection | `acm`; `clients`; `conn`, `checked`, `served`: per client; `pc`, `handle`: per thread | critical section of `connect`, call, restart |
| `KvCalls` | single-record calls | `lock`, `call`: PHP threads and handlers; `net`: commands on their way; `rec`: the record; `log`, `applied`: what each call was answered and did | step of a call: lock, handle, time out, execute, lose, return, crash |
| `AtomicStore` | what they promise: one atomic step each | `rec`, `calls` | invocation, step, return |
| `StreamMux` | one `BlockingClient` and its connection | `app`, `srv`, `left`, `unread`, `owed`, `connOwed`, `busy` | call entering or leaving `block_on`, frame exchange, `Send` |
| `Tables` | tables written in parts, for the codecs | none (operators) | |
| `CdtCodec` | list, map, HyperLogLog and bit operations on both sides: codes, argument positions, return types, places, write flags, lists of one element, refused arguments | none (operators) | |
| `ExpressionCodec` | `Expression` and `toExpression` | none (operators) | |
| `ValueCodec` | PHP values to the cluster and back, and which may be keys | none (operators) | |
| `BatchCall` | `Client::batch`, `BatchOperate`, and a program that writes back what it read; extends the three codecs | `asked`, `round`; `bin`, `was`: the cluster; `msgs`, `recs`, `net`, `done`, `answer`, `thrown`, `seen` | stage of a batch |
| `Policies` | policy classes, `Statement`, enumerations, defaults, conversion | `cls`, `msg`, `last`, `sent`, `go` | setter, copy, conversion |
| `AdminCalls` | the methods for users, roles, indexes, UDFs and sets, their handlers, and the directory of the cluster | `up`; `dir`; `log`: per process its calls with their privilege, key and filter, their commands and what was told; `held`: `Privilege` objects; uses `ExpressionCodec` and `ValueCodec` for the conversions that panic | stage of a call, fate of a command, its completion in the background, crash |

`MC...` modules give the constants their values, and `...Proofs` modules hold the TLAPS proofs
(section 5). `PartitionScan` INSTANCEs `OrderedDelivery`, and `KvCalls` INSTANCEs `AtomicStore`;
both refinements are checked as properties and proved. Definitions introduced by the comment `Mutant:` are plausible slips in the
code, used to see that a property notices them; no specification uses them.

### What is abstracted

* Records are a digest and an index value. The partition of a digest is its remainder
  modulo the number of partitions; the code takes 12 bits of it (lib.rs 10876-10882).
  A partition is walked in the order of index value, then digest.
* A value in `KvCalls` is the sequence of calls that contributed to it, so that lost and
  repeated executions are visible.
* In the codecs and in `AdminCalls` an argument is the name of the parameter it stands for, in
  `CdtCodec` with its wire type. An argument read from the wrong position shows as a wrong name
  or a wrong type.
* The argument of an operation that takes a value or a list is fit, a list of one element, or
  refused (`arg`). What a foreign object inside an array does, it ends the process, is modelled for
  the values of bins only.
* An expression is the sequence of constructors along its first arguments: `toExpression` treats
  each node alone, so that depth matters only for what a node keeps the switch from reaching.
* In `ValueCodec` scalars have a type and no content, map keys have both, and containers hold
  scalars; the conversions of nested containers repeat those of the outer one.
* `AdminCalls` has one user, one role, one package and one index. Of the values of arguments it has
  those a conversion can refuse: the names of privileges, the kind of a key, the filter of a
  policy. A process calls one method at a time; the mutex of the client, which `KvCalls` models, makes other threads wait.
* `Client.scan` waits for the handler's first message with the filter locked. The model
  opens the recordset at once and lets others run meanwhile, which is a little freer. A
  request that fails before its first message changes nothing, and is no step.
* The `retry` and `done` fields of filters and statuses are left out: the extension sets them to
  false where it creates a message and nothing assigns them again, so that they carry nothing
  from one page to the next.
* `Policies` counts time in units of 64 ns, in which a millisecond is the integer 15625 and
  2^32 ns is 2^26, so that the 32-bit product stays exact in TLC's integers.

### What is taken as given (external)

* The Go client returns, for each partition a request names, the records after its position
  in the order of the server, up to `max_records`. A page may be shorter than that while records
  remain, since the limit is divided among the nodes (asld_kvs.proto 1590-1593; `ShareUsed`), but
  not empty: each node has a share of at least one, which takes a limit of at least the number
  of nodes. A filter with statuses stands for the
  partitions the statuses name; one without stands for its range.
* The Go client retries a command up to `max_retries` times, and reports `IsInDoubt` for a
  write that was sent and not answered, or sent more than once.
* A gRPC channel that lost its server dials the path again, before the request if it noticed
  the loss and after failing it otherwise.
* hyper's windows are 2 MB for a stream and 5 MB for a connection; the model keeps the
  proportion that matters: two unread recordsets leave room for others, three do not. The instance
  has windows of 1 and 3 messages.
* The order of the parameters of the Go client's functions (`GoParams`), and the numbers of its
  constants (`GoConstants`).
* The cluster refuses to create a user, role or index that is there, and commands on one that is
  not. Its roles have the privileges `ClusterPrivileges`, which may be more than `toPrivilege` knows.
* The cluster builds indexes and distributes packages after it has taken the command on: the Go
  client returns a task to wait with, and the handlers drop it (kvs.go 174-175, 208, 219).
* A panic in a handler becomes a gRPC status (main.go 121-131). A panic in the extension
  aborts the PHP process.

## 3. Runs

| run | instance | shows |
|---|---|---|
| `query_shared` | 2 partitions, 4 records with index values on both sides of 0, filters `all`, `range(0,1)`, `partition(1)`; 2 recordsets sharing the filter, 1 fault; symmetric | `CursorSound`: stored positions never cover a record the program has not got, for filters from partition 0. `StreamInOrder`: a stream has no duplicates and keeps the order of a partition, for all filters |
| `scan_paged` | 3 partitions, 5 records, pages of 2 or unlimited, 3 faults; fair | `ExactlyOnce`: implements `OrderedDelivery`, also with pages shorter than their limit. `LastPageComplete`: a scan without a limit that ends without an exception was complete, and so was the one before an empty page. `CursorNeverMovesBack`, `StatusHoldsOwnDigest`, and `EveryRecordArrives` |
| `scan_range_status` | filters `range(1,2)`, `partition(2)` | violation, see section 6 |
| `daemon` | 2 processes on one configuration, 2 clusters, 3 faults; fair | `ServedIsReachable`, `QuietExitLeavesNoFile`, `PathLostOnlyToCleanUp`, `SignalledEnds`, `AllServedInTheEnd` |
| `connect` | 3 threads, 2 versions, 2 starts of the connection manager; fair | `MismatchOnlyAfterRestart`, `ConnectReturns`, `OneClientInTheEnd`, `HandleRecovers` |
| `kv_atomic` | 3 threads in 2 processes, 2 calls of all kinds, no retries, 1 crash | `Atomic`: implements `AtomicStore`. `TypeOK` also says that no response reaches the `unreachable!` of `get` |
| `kv_retry` | the same with 1 retry and the writes whose repetition shows, one of them without timeouts; fair | `CertainErrorHasNoEffect`, `SuccessWasExecuted`, `EveryCallReturns` |
| `kv_delete` | `put` and `delete` | violation, see section 6 |
| `mux` | 3 recordsets of up to 2 records, windows 1 and 3, so that three unread ones fill the connection; fair | `OnlyUnreadBlocks`: a call gets stuck only through recordsets left open and unread whose windows fill the connection, and never through closed ones. `BlockedCallReturns`: a call returns or is stuck in this way. `CallSignalsServer`: the next call ends the handler of a closed recordset |
| `batch` | each method alone and next to a delete; each with every return type; lists of one element, and arguments that are refused; places, flags, keys and filters of every kind; values put and read, values of other clients read and written back; all pairs of reads, deletes, UDF calls, invalid commands and commands that panic | `OnlyMisfitsGoWrong`, `ResultsInPlace`, `BrokenBatchHasNoEffect`, `ValuesComeBack` |
| `policies` | 10 policy classes and `Statement`, any two setter calls around a command | `GetReturnsLastSet`, `CommandKeepsItsPolicy`, `AdminTimeoutFits` |
| `admin` | 2 processes, one with two calls and every method as its second, the other working on the same objects; privileges, keys and filters that can be converted and that cannot; all or none of the objects there at first; crashes at any time | `ArgumentsArrive`, `InternalMeansUnsent`, `ToldIsTrue` |

### Why the bounds are enough

* Scans: two records in one partition make an order, three make a position that can pass
  over one; two recordsets make every race on a status; streams of 2 or 3 messages hold
  records in flight when a fault comes; a limit of 2 with 5 records needs three pages. What
  the size could hide in the safety properties is covered by the proofs (section 5), here as for
  the other modules that have some.
* Daemon: with two clusters one can fail while the other is served; three faults are enough
  for a crash during the recovery from a crash.
* Connect: three threads can be before the look-up, between dial and insert, and after it; two
  incarnations are needed for a stale channel and a changed version.
* Calls: a race needs two calls, and a retry two executions; the third thread has its own
  client, so that calls overlap in the cluster and wait for a mutex in the process.
* Streams: three recordsets are the fewest that fill the connection, with the windows of the code
  and with those of the instance. With two records each a stream is blocked in the middle, and any
  of the three may be closed, read or left while a call waits.
* Batch and policies: the codecs are checked method by method, exhaustively; slips between two
  properties of a policy need two setter calls. A value needs two trips to show what reading and
  writing it back does; arrays of up to two entries have every mixture of keys.
* Admin: a late command needs a call that was given up and one after it; a second process is
  needed for answers that contradict each other. One value of each kind that is converted and one
  that panics make every case of the conversions; a filter of depth 2 has the panic below the top.

`CHECK_DEADLOCK FALSE` is set where the system may stop: a PHP process that aborted
(`query_shared`, `scan_range_status`), and connection managers with nothing left to happen
to them (`daemon`). `MaxFaults`, `MaxCrashes`, `MaxStarts`, `MaxCalls`, `MaxRetries`, `MaxSets`, `Calls`
and `StreamCap` are the named bounds; all of them appear in guards only.

## 4. Fairness

* `PartitionScan`: handlers are goroutines, and the Go scheduler runs them. The program keeps
  reading and scanning: this is the use the property is about, not a promise of the code.
* `AcmDaemon`: goroutines run. The operator restarts what is down, stops a process that no longer
  serves a cluster, and removes stale files, as README.md asks for. The removal is
  strongly fair, since stale files come and go with failing starts; it removes all stale files
  at once, because one file per failed start never ends with two clusters.
* `ClientRegistry`: threads run, programs connect and call again at each request.
* `KvCalls`: a thread that can go on does, and a command with timeouts runs out of time. A command
  without them does not have to: a new `WritePolicy` has none (lib.rs 2709-2724), and calls carry
  no gRPC deadline. `EveryCallReturns` is therefore stated for clients on which no such command
  waits for ever.
* `StreamMux`: `block_on` polls the connection, and the handlers run. Nothing is assumed of the program: it
  need not make another call, nor read what it has opened.

Nothing is assumed of the network: commands and answers may all be lost.

## 5. Proofs

Every safety property the passing runs check is proved. No theorem bounds the sizes: they hold
for any number of partitions, records, recordsets, processes, clusters, threads, calls, retries,
faults and crashes, batches of any length, values and filters of any size, and any sequence of setter
calls.

| module | theorem | states | under |
|---|---|---|---|
| `PartitionScanProofs` | `TypeCorrect` | `[]TypeOK`: among other things, the status at index `i` has the id `i` | |
| | `NoRecordLost` | `[]CursorSound` | |
| | `StreamsAreInOrder` | `[]StreamInOrder` | |
| | `DigestsAreOwn` | `[](filter.begin = 0 => StatusHoldsOwnDigest)` | |
| | `EndOfLastPage` | `[]LastPageComplete`: for scans without a limit, and for an empty page | |
| | `PositionsOnlyAdvance` | `CursorNeverMovesBack` | `OneAtATime`, `filter.begin = 0` |
| | `PagingDeliversOnce` | `ExactlyOnce`, the refinement of `OrderedDelivery` | `OneAtATime`, `filter.begin = 0` |
| `AcmDaemonProofs` | `TypeCorrect` | `[]TypeOK`: a path names a process only if that one serves it | |
| | `ServedStaysReachable` | `[]ServedIsReachable` | |
| | `QuietExitCleansUp` | `[]QuietExitLeavesNoFile` | |
| | `FailuresTakeNoPath` | `PathLostOnlyToCleanUp` | |
| `ClientRegistryProofs` | `TypeCorrect` | `[]TypeOK` | |
| | `VersionIsChecked` | `[]MismatchOnlyAfterRestart` | |
| `KvCallsProofs` | `TypeCorrect` | `[]TypeOK`: the `unreachable!` of `get` is not reached | |
| | `CertainErrorsAreTrue` | `[]CertainErrorHasNoEffect` | |
| | `SuccessesAreTrue` | `[]SuccessWasExecuted` | |
| | `CallsAreAtomic` | `Atomic`, the refinement of `AtomicStore` | `MaxRetries = 0` |
| `BatchCallProofs` | `TypeCorrect` | `[]TypeOK` | |
| | `PositionsAreKept` | `[]ResultsInPlace` | |
| | `ConversionIsAllOrNothing` | `[]BrokenBatchHasNoEffect` | |
| | `ValuesReturn` | `[]ValuesComeBack` | |
| | `BatchesMeanTheirCommands` | `[]OnlyMisfitsGoWrong` | |
| `AdminCallsProofs` | `TypeCorrect` | `[]TypeOK` | |
| | `InternalErrorsAreUnsent` | `[]InternalMeansUnsent` | |
| | `ToldTheTruth` | `[]ToldIsTrue`, of users and roles | |
| | `HandlersKeepArguments` | `[]ArgumentsArrive` | |
| `StreamMuxProofs` | `TypeCorrect` | `[]TypeOK`: what is owed and unread stays within the windows | |
| | `StuckOnlyByUnread` | `[]OnlyUnreadBlocks` | |
| `PoliciesProofs` | `TypeCorrect` | `[]TypeOK` | |
| | `GettersReturnLastSet` | `[]GetReturnsLastSet` | |
| | `CommandsKeepTheirPolicy` | `[]CommandKeepsItsPolicy` | |
| | `AdminTimeoutsFit` | `[]AdminTimeoutFits` | |

The conditions are those under which the properties are true of the code. With `begin > 0`
`next` stores positions in the status of another partition (section 6). Two recordsets on one
filter are each sent the positions of the moment they are opened, so that records arrive twice and
the slower one moves positions back: `OneAtATime` says that there is one recordset, reopened for
each page. With retries a command may be executed twice, which is no atomic step; the first three
theorems about calls have no such condition.

### Assumptions on the constants

* `PartitionScan`: at least one partition, records with distinct nonempty digests and integer or
  absent index values, filters inside the namespace.
* `AcmDaemon`, `ClientRegistry`, `KvCalls`: the marks for an absent value (`NoFile`, `Stale`, `None`)
  are no values, and the bounds are numbers. `RequestsAssumption` says that a request is one of the
  nine calls and that a read has no write policy.
* `BatchCall`: a batch is a sequence of commands of the four kinds or of something else
  (`BatchesAssumption`). Values are scalars or arrays of scalars, and bins hold what the Go client can
  read (`ValuesAssumption`). Commands are such as the classes let a program make
  (`CommandsAssumption`): a command has bins or operations; operations are existing
  methods, with the return types of their kind; only `ListIndex` and `MapKey` create what is not
  there; flags are of the enumeration named after the operation or of the one its policy takes;
  only the six methods for lists that kvs.go looks at have a list of one, and only methods that take
  values a refused one; and an expression inside another is inside one that takes expressions.
* `StreamMux`: windows are positive numbers, and there are finitely many recordsets
  (`MuxAssumption`).
* `Policies`: values are numbers, and seconds of an expiration are not 0, because 0, -1 and -2
  stand for the reserved expirations (`PoliciesAssumption`).
* `AdminCalls`: a process calls existing methods (`CallsAssumption`), filters are such as a program can
  make (`FiltersAssumption`), and the directory starts with some of its objects (`FoundsAssumption`).
  Nothing is assumed of the privileges of the cluster or of the kinds of keys.

TLC evaluates all of them in the runs.

### The inductive invariants

None of the properties is inductive as it stands. TLC checked each of the invariants below on
the instance of the run before it was proved (but for `FromBatches`, a part of `MeaningInv` that only
says where the first batch comes from).

* `ScanInv` (`NoRecordLost`). When `next` stores the position of a record, nothing in
  `PositionsSound` says that the records before that one have arrived. `StreamAccounts` does: what
  precedes a record of a stream in its partition was delivered or is ahead of it in the stream.
  Taking the head keeps it for the tail, and cutting a stream (`StreamFails`) for the prefix.
  `HandlerAccounts` gives it for the record sent next: what a running handler has passed was
  delivered or is in its stream, at first because the request's positions are stored ones
  (`RequestKeepsPosition`: sending an absent index value as 0 changes nothing).
  `FailureStopsHandler` keeps `NextFailure` from discarding records a handler counts as
  sent. The invariant is `filter.begin = 0 => ScanInv`, with the fact that `filter` never changes.
* `OrderInv` (`StreamsAreInOrder`): a handler has passed what it sent (`HandlerAhead`), so that the
  next record comes after it. It needs nothing of the statuses, and holds for every filter.
* `PageInv` (`EndOfLastPage`): a stream without errors counts each record once, on its way or
  received (`Counted`), its end is its last message (`EndIsLast`), and at the end the page has a limit and
  a record, or everything asked for is delivered or in the stream.
* `PagingInv` (`PositionsOnlyAdvance`, `PagingDeliversOnce`): what the stream carries lies
  beyond the stored positions (`StreamAhead`), the handler is at or past them (`CursorBehind`), and
  what was delivered is at or before them (`DeliveredBehind`). A record that `next` takes is
  therefore new, and by `StreamAccounts` it is the next one of its partition: a step of
  `OrderedDelivery`.
* `DaemonInv`: while processes do not meet, at most one of them runs (`OneRuns`), and after
  a quiet signal no goroutine creates a file again and the paths the clean-up has passed are free
  (`QuietExit`).
* `RegistryInv`: only clients that passed the check are persisted, referred to or called
  (`OnlyCheckedClients`), and neither a check nor a call is ahead of the connection manager
  (`ChecksAreOfThePast`).
* `KvInv`: `Executions` counts what was executed and what still can be. It stays below the attempts
  of a call (`AttemptsCounted`), and it is 0 when a response, or what the application was told,
  is a certain error (`RepliesTrue`, `CertainFailures`). That a late command of an earlier
  attempt cannot belie the answer of the last one is the point of the invariant: when `InDoubt`
  is false for a write, at most one attempt was sent.
* `AtomicInv` adds for `CallsAreAtomic` that a response passes on the one answer of the cluster or
  is the handler's own (`RepliesTold`), and that a command left on its way belongs to a read or to a
  call left in doubt (`LateOnlyInDoubt`). The atomic step is the execution by the cluster;
  a call that was never executed only returns.
* `BatchInv`: messages and records keep the positions of the commands (`OneMessageEach`,
  `OneRecordEach`); an invalid command breaks the first, but leaves an exception pending,
  and then no list is made. A list is the last thing that happens (`ListIsLast`), so that a second
  batch meets no command of the first. For these properties the codecs stay opaque: nothing depends
  on what a conversion yields.
* `ValuesInv` (`ValuesReturn`): messages and records carry the value of their command
  (`MessagesCarry`, `RecordsCarry`), a bin that was written holds what the conversions make of it
  (`BinsHoldPuts`), and the second batch writes what the first has read (`SecondRound`). What the
  conversions yield is then a matter of `ValueCodec`: for a list, a map or an array of any size
  the way to the cluster and back is the identity, or renames the keys, or drops entries.
  `PutAndRead` and `ReadAndPut` say which, in both directions.
* `MeaningInv` (`BatchesMeanTheirCommands`): what is on its way was made of its own command
  (`MessagesAreBuilt`, `RecordsAreConverted`), and each command fits alone (`AllFit`). That every
  command does is `CommandsDoFit`, the lemma about the codecs. `Params` names the parameters of each
  operation of the Go client. Each table of kvs.go is shown to read exactly these, part by part
  (`ServerReads`), and each of lib.rs to send exactly these, but for the misfits (`ClientSends`);
  both facts go over to joined tables, so that no step looks at two methods at a time. `OpFits`
  adds return types, places, flags and lists of one element, and that each misfit is refused,
  panics or arrives as something else. What is refused goes no further (`RefusedForAReason`).
  Expressions have the same structure (`ExpressionsArrive`, `FilterFits`).
* `AdminInv`: the last executed call on a user or role decides whether it is there (`Settled`), and
  the process that made it knows, because it was answered after the execution; no command on them
  is completed in the background (`NotInBackground`).
* `SoundCall` (`HandlersKeepArguments`, `InternalErrorsAreUnsent`): what a handler has passed on is the
  command of its method, and it has passed on nothing when a conversion panics, whatever the
  other process and the crashes did meanwhile.
* `MuxInv`: a recordset that PHP may read has a handler that was not reset, and `next` waits on such
  a recordset only (`OpenIsServed`). What is charged to the connection is owed, and then a window
  update is due, or belongs to recordsets that were dropped, and then a reset is due, or to open
  ones (`HeldByOpen`). A stuck call has nothing due, so that open recordsets hold all that is
  charged; each holds at most its window, which counts them.
* `PoliciesInv`: the message holds what was last set, but for the properties that another setter
  overwrites, and the copy of a command what the message held when it was made.

### Only model-checked

* Liveness (`EveryRecordArrives`, `SignalledEnds`, `AllServedInTheEnd`, `ConnectReturns`,
  `OneClientInTheEnd`, `HandleRecovers`, `EveryCallReturns`, `BlockedCallReturns`,
  `CallSignalsServer`): fairness and ENABLED are out of the prover's reach.

The bounds of the runs matter for these only.

## 6. Where the code and its documentation disagree

Shown by a run:

* `scan_range_status`. `Recordset::next` updates `partitions[pid - begin]` (lib.rs 4174), but
  `init_partition_status` fills the vector for partitions 0 to 4095 whatever `begin` is. With a
  filter that begins later the digest goes into the status of another partition; the resumed
  scan asks for all 4096 partitions with misplaced positions, and a record of a
  partition below `begin` then makes the index underflow and the process abort. lib.rs
  3966-3967 say that the digest is that "of the last key digest received from the server for
  this partition".
* `kv_delete`. `delete` returns `existed.is_some()` (lib.rs 9976), and the handler always sets the
  field. It returns true for records that did not exist, against lib.rs 9963.

Carried in the models as the code has them, and named as exceptions of a property:

* Operations that do not arrive as meant (`Misfits`, `MisfitOp`; `OnlyMisfitsGoWrong` says that
  these go wrong and no others): `ListOp::removeByValueRange` sends the code of a value list, which panics
  in the handler; `ListOp::getByValueRange` without an end panics, and so does `MapOp::create`; `MapOp::size`
  sends the code of `setPolicy` (lib.rs 7437-7440); `MapOp::removeByValueRelativeRankRangeCount`
  sends the code without a count; `MapOp::getByIndexRange`, `getByRankRange` and their `Count`
  forms send arguments the handler reads otherwise; `BitwiseOp::add` and `subtract` lose the overflow
  action, which the handler reads from the position of `signed` (kvs.go 1397-1398, 1404-1405).
  A map return type combined with `Inverted` becomes `None` and loses the inversion (kvs.go
  929-962), so that a remove takes away what it should keep. `HllPolicy` takes the write flags of
  lists and refuses those of HyperLogLog (lib.rs 8495). `MapOp::put` refuses an empty array and one
  with the keys 0, 1, ... (`assert_map`), which are lists for `from_zval`; the HyperLogLog methods
  refuse lists with other values (`assert_hll_list`).
* Expressions that do not arrive as meant (`ExpMisfits`): `numFloor` meets an empty case
  (kvs.go 1837), `hllBin` a commented-out one, an empty `listVal` is refused, and each panics; `mapVal` of
  an empty or list-like array throws (`NoMapVal`); `def`
  sends no command and arrives as a string constant; `xor` arrives as the exclusive or of integers.
* Values that change (`Mangled`, `Unlike` in `ValuesComeBack`): an array with integer keys other
  than 0, 1, ... comes back with string keys; one with integer and string keys loses the former; a
  map with integer keys, or an empty one, is another value once it was read and written back
  (lib.rs 11320-11327, 11393-11410). An object of another class inside an array ends the process.
* `toKey` ignores the digest, so that the key of a scanned record without a stored user key
  panics in the handler (kvs.go 1481-1490).
* `CreateIndex` ignores the ctx of its message (kvs.go 175; `ArgumentsArrive`).
* Getters and setters on the wrong field (`Misread`, `Overwritten`):
  `get_read_mode_sc` of five classes reads `read_mode_ap`; `WritePolicy::get_durable_delete` reads
  `respond_per_each_op`; `BatchPolicy::set_allow_partial_results` writes `respond_all_keys`.
* Admin timeouts wrap above 4294 ms (kvs.go 761; `AdminTimeoutFits`).
* The version check covers one incarnation of the connection manager
  (`MismatchOnlyAfterRestart`).

* Three recordsets opened and not read fill the connection's window, and a call then waits for ever:
  it holds the mutex that `next` needs to make room, and has no deadline (`Stuck`, `OnlyUnreadBlocks`).
  The run `mux` reaches such states.
* lib.rs 4112 says that dropping the stream "will signal the server and close the recordset". The reset is
  written by the next call that enters `block_on`, and by none if the program makes no other:
  the handler then waits with its result set open. `CallSignalsServer` says what does hold; with
  `app[s] \in {"dropped", "closed"} ~> srv[s] = "ended"` in its place TLC has a counterexample under `FairSpec`.
* `create_index`, `register_udf` and `drop_udf` answer before the command is complete, and the task that
  lib.rs 10192-10194, 10265-10267 and 10298-10300 mention is not returned: a program has no way to wait
  (`Complete`; `ToldIsTrue` speaks of users and roles only). QueryTest.php sleeps after `createIndex`.
* Handlers of these calls panic on a privilege `toPrivilege` does not know, on a key that cannot be
  hashed and on a filter `toExpression` has no case for (`Unconvertible`).
* A list of a single key or value takes another branch of the handler (kvs.go 988, 998, 1048, 1067, 1170,
  1209) and asks for the operation on one element (`ForOne`): `MapOp::getByKeys` of one key yields the value
  itself and of two keys a list. lib.rs documents five of the six methods under the name of the
  operation on one element, and `CDTMapOpTest.php` reads a bare value, so that the model counts this as
  asked for; the documentation of `MapOp::getByValues` (lib.rs 8099) speaks of keys.

Not covered by a property: an invalid command in a batch throws, yet the rest of the batch is
executed (lib.rs 10062-10073; the model does this, and `ResultsInPlace` says that no list is
returned then); a `BatchRecord` has no error to look at; a `Statement`
draws its task id once, for all queries made with it; `AdminPolicy` documents a
default of 2 seconds and has 3; `max_retries` documents 2 for reads and has 3.

## 7. Not modelled

* The digest the extension computes for a key, a cryptographic hash, and `Json` values.
* Filters and index types: fields carried under the same names from a constructor to the Go
  client; which records match is decided by the cluster.
* How far an index build or a UDF registration has come: the code drops the task, and the model knows
  a command that was taken on and one that is complete.
* The records of user, role and UDF queries, copied field by field, but for privileges.
* The table of result codes; `ConsistencyLevel` and `Concurrency`, which no policy uses.
* Configuration, flags and TLS files; the generated protobuf code; packaging, stubs, examples.
* Memory safety and object lifetimes of the extension.

What is left of `lib.rs` is mostly class boilerplate (`FromZval`, `Display`, module registration)
and data without a decision in it.

## 8. Plan

Done: `PartitionScan` with its proofs, then `AcmDaemon`, `ClientRegistry`, `KvCalls`, `StreamMux`,
`CdtCodec` with `BatchCall`, `Policies`; then `ExpressionCodec` and `ValueCodec` under `BatchCall`,
and `AdminCalls`; then the proofs of section 5: both refinements, and every safety property.

Left for later, where the code has more than the models:

1. `ValueCodec`: containers inside containers. The round trip of a nested value needs an induction
   over its depth, and stays with TLC.
2. The records of user, role and UDF queries, and the fields of filters.
3. What a program can do to keep clear of `Stuck`, for instance read its recordsets one after the other.
