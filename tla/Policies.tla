--------------------------------- MODULE Policies --------------------------------
(* The policies and statements of the PHP client, from their setters to the Go *)
(* client.  An object wraps a message; a setter of a PHP property writes a     *)
(* field of the message and a getter reads one.  A command or call takes a     *)
(* copy of the message, which the connection manager converts into the object  *)
(* of the Go client.  The object lives on and may be changed and used again.   *)
EXTENDS Integers, Sequences, FiniteSets

CONSTANTS
    Classes,    \* classes of policies and statements the program uses
    Seconds,    \* lifetimes it gives to records, but for the numbers that stand for others
    Timeouts,   \* timeouts of admin commands, in milliseconds
    Numbers,    \* numbers it sets in other properties
    MaxSets     \* bound on the number of setter calls

(* ------------------------------- enumerations ----------------------------- *)

\* The constants of a property, in the order of their numbers in a message.
ReadModeAP == <<"One", "All">>

ReadModeSC == <<"Session", "Linearize", "AllowReplica", "AllowUnavailable">>

RecordExistsAction == <<"Update", "Update_Only", "Replace", "Replace_Only", "Create_Only">>

QueryDuration == <<"Long", "Short", "LongRelaxAP">>

CommitLevel == <<"Commit_All", "Commit_Master">>

GenerationPolicy == <<"None", "Expect_Gen_Equal", "Expect_Gen_Greater">>

Constants ==
    [read_mode_ap |-> ReadModeAP, read_mode_sc |-> ReadModeSC, record_exists_action |-> RecordExistsAction,
     expected_duration |-> QueryDuration, commit_level |-> CommitLevel, generation_policy |-> GenerationPolicy]

\* The Go client's constants, in the order of their values; the handlers cast the number.
GoConstants ==
    [read_mode_ap |-> <<"One", "All">>, commit_level |-> <<"Commit_All", "Commit_Master">>,
     read_mode_sc |-> <<"Session", "Linearize", "AllowReplica", "AllowUnavailable">>,
     record_exists_action |-> <<"Update", "Update_Only", "Replace", "Replace_Only", "Create_Only">>,
     generation_policy |-> <<"None", "Expect_Gen_Equal", "Expect_Gen_Greater">>,
     expected_duration |-> <<"Long", "Short", "LongRelaxAP">>]

(* --------------------------- accessors of the classes --------------------- *)

\* A property with its setter and getter on the field of its name.
Plain(names) == [p \in names |-> [sets |-> p, gets |-> p]]

BaseNames == {"max_retries", "sleep_multiplier", "total_timeout", "socket_timeout", "send_key",
              "use_compression", "exit_fast", "read_mode_ap", "read_mode_sc", "filter_expression"}

\* get_read_mode_sc of all classes but BatchPolicy reads the other read mode.
ScReadsAp(names) ==
    [p \in names |-> [sets |-> p, gets |-> IF p = "read_mode_sc" THEN "read_mode_ap" ELSE p]]

ReadPolicy == ScReadsAp(BaseNames \cup {"read_touch_ttl_percent"})

AdminPolicy == Plain({"timeout"})

WriteNames == {"record_exists_action", "generation_policy", "commit_level", "generation", "expiration",
               "respond_per_each_op", "durable_delete"}

\* Mutant: commit_level is stored in the field of the generation policy.
WritePolicyMixed ==
    [p \in BaseNames \cup WriteNames |->
        [sets |-> IF p = "commit_level" THEN "generation_policy" ELSE p,
         gets |-> IF p = "read_mode_sc" THEN "read_mode_ap"
                  ELSE IF p = "durable_delete" THEN "respond_per_each_op"
                  ELSE IF p = "commit_level" THEN "generation_policy" ELSE p]]

\* get_durable_delete reads respond_per_each_op.
WritePolicy ==
    [p \in BaseNames \cup WriteNames |->
        [sets |-> p, gets |-> IF p = "read_mode_sc" THEN "read_mode_ap"
                              ELSE IF p = "durable_delete" THEN "respond_per_each_op" ELSE p]]

QueryPolicy ==
    ScReadsAp(BaseNames \cup {"expected_duration", "max_concurrent_nodes", "record_queue_size"})

ScanPolicy ==
    ScReadsAp(BaseNames \cup {"max_records", "max_concurrent_nodes", "record_queue_size"})

BatchNames == {"concurrent_nodes", "allow_inline", "allow_inline_ssd", "respond_all_keys",
               "allow_partial_results"}

\* set_allow_partial_results writes respond_all_keys.
BatchPolicy ==
    [p \in BaseNames \cup BatchNames |->
        [sets |-> IF p = "allow_partial_results" THEN "respond_all_keys" ELSE p, gets |-> p]]

BatchReadPolicy ==
    ScReadsAp({"filter_expression", "read_mode_ap", "read_mode_sc", "read_touch_ttl_percent"})

BatchWritePolicy == Plain((WriteNames \ {"respond_per_each_op"}) \cup {"filter_expression", "send_key"})

\* The generation policy of a delete cannot be set.
BatchDeletePolicy == Plain({"filter_expression", "commit_level", "generation", "durable_delete", "send_key"})

BatchUdfPolicy == Plain({"filter_expression", "commit_level", "expiration", "durable_delete", "send_key"})

Statement == Plain({"filter", "index_name", "bin_names", "namespace", "set_name"})

Accessors ==
    [ReadPolicy |-> ReadPolicy, AdminPolicy |-> AdminPolicy, WritePolicy |-> WritePolicy,
     QueryPolicy |-> QueryPolicy, ScanPolicy |-> ScanPolicy, BatchPolicy |-> BatchPolicy,
     BatchReadPolicy |-> BatchReadPolicy, BatchWritePolicy |-> BatchWritePolicy,
     BatchDeletePolicy |-> BatchDeletePolicy, BatchUdfPolicy |-> BatchUdfPolicy,
     Statement |-> Statement]

Props(c) == DOMAIN Accessors[c]

ASSUME PoliciesAssumption ==
    /\ Classes \subseteq DOMAIN Accessors
    /\ Seconds \subseteq Nat \ {0} /\ Timeouts \subseteq Nat /\ Numbers \subseteq Nat
    /\ MaxSets \in Nat

(* ------------------------ connection manager: conversion ------------------ *)

\* The fields that toReadPolicy copies.
ToReadPolicy == BaseNames \cup {"sleep_between_retries", "replica_policy", "read_touch_ttl_percent"}

ToMultiPolicy == ToReadPolicy \cup {"max_concurrent_nodes", "max_records", "records_per_second",
                                    "record_queue_size", "include_bin_data"}

ToStatement == {"namespace", "set_name", "index_name", "bin_names", "filter", "task_id", "return_data"}

\* Mutant: toBatchUDFPolicy forgets the expiration.
ToPolicyNoExpiration ==
    [ReadPolicy |-> ToReadPolicy, AdminPolicy |-> {"timeout"}, WritePolicy |-> ToReadPolicy \cup WriteNames,
     QueryPolicy |-> ToMultiPolicy \cup {"expected_duration"}, ScanPolicy |-> ToMultiPolicy,
     BatchPolicy |-> ToReadPolicy \cup BatchNames,
     BatchReadPolicy |-> {"filter_expression", "read_mode_ap", "read_mode_sc", "read_touch_ttl_percent"},
     BatchWritePolicy |-> (WriteNames \ {"respond_per_each_op"}) \cup {"filter_expression", "send_key"},
     BatchDeletePolicy |-> {"filter_expression", "commit_level", "generation_policy", "generation",
                            "durable_delete", "send_key"},
     BatchUdfPolicy |-> {"filter_expression", "commit_level", "durable_delete", "send_key"},
     Statement |-> ToStatement]

\* The fields that reach the Go client's object of each class.
ToPolicy ==
    [ReadPolicy |-> ToReadPolicy, AdminPolicy |-> {"timeout"}, WritePolicy |-> ToReadPolicy \cup WriteNames,
     QueryPolicy |-> ToMultiPolicy \cup {"expected_duration"}, ScanPolicy |-> ToMultiPolicy,
     BatchPolicy |-> ToReadPolicy \cup BatchNames,
     BatchReadPolicy |-> {"filter_expression", "read_mode_ap", "read_mode_sc", "read_touch_ttl_percent"},
     BatchWritePolicy |-> (WriteNames \ {"respond_per_each_op"}) \cup {"filter_expression", "send_key"},
     BatchDeletePolicy |-> {"filter_expression", "commit_level", "generation_policy", "generation",
                            "durable_delete", "send_key"},
     BatchUdfPolicy |-> {"filter_expression", "commit_level", "expiration", "durable_delete", "send_key"},
     Statement |-> ToStatement]

\* 2^32, in the unit of 64 ns in which a millisecond is 15625.
TwoTo32 == 67108864
Millisecond == 15625

\* Mutant: the product is a signed 32-bit integer.
ToAdminPolicySigned(ms) == (ms * Millisecond) % (TwoTo32 \div 2)

\* toAdminPolicy multiplies two 32-bit integers.
ToAdminPolicy(ms) == (ms * Millisecond) % TwoTo32

GoValue(f, n) ==
    IF f = "timeout" THEN ToAdminPolicy(n)
    ELSE IF f \in DOMAIN GoConstants THEN GoConstants[f][n + 1]
    ELSE n

(* --------------------------------- defaults ------------------------------- *)

\* ReadPolicy::default()
ReadDefault ==
    [max_retries |-> 3, sleep_multiplier |-> 1, total_timeout |-> 1000, socket_timeout |-> 500,
     sleep_between_retries |-> 1, replica_policy |-> 1]

\* The fields of a message with those of the message it is based on.
Based(fields, base) ==
    [f \in DOMAIN fields \cup DOMAIN base |-> IF f \in DOMAIN fields THEN fields[f] ELSE base[f]]

\* MultiPolicy::default()
MultiDefault == Based([total_timeout |-> 0, record_queue_size |-> 50, include_bin_data |-> 1], ReadDefault)

\* The fields of a new policy that are not zero.  The base of a WritePolicy is the
\* default message, all of it zero.
NewPolicy ==
    [ReadPolicy |-> ReadDefault, AdminPolicy |-> [timeout |-> 3000],
     QueryPolicy |-> MultiDefault, ScanPolicy |-> MultiDefault,
     BatchPolicy |-> Based([concurrent_nodes |-> 1, allow_inline |-> 1, respond_all_keys |-> 1], ReadDefault),
     Statement |-> [return_data |-> 1]]

Construct(c) ==
    [f \in ToPolicy[c] \cup {Accessors[c][p].sets : p \in Props(c)} |->
        IF c \in DOMAIN NewPolicy /\ f \in DOMAIN NewPolicy[c] THEN NewPolicy[c][f] ELSE 0]

(* ---------------------------- values of properties ------------------------ *)

Constant(name) == [kind |-> name, n |-> 0]
Value(n) == [kind |-> "value", n |-> n]
NamespaceDefault == [kind |-> "namespace_default", n |-> 0]
Never == [kind |-> "never", n |-> 0]
DontUpdate == [kind |-> "dont_update", n |-> 0]

\* From<&Expiration> for u32, as the i32 of the same bits.
ToU32(x) ==
    IF x.kind = "never" THEN -1 ELSE IF x.kind = "dont_update" THEN -2 ELSE x.n

\* What a setter stores: the number of a constant, and of an expiration.
Code(p, x) ==
    IF p \in DOMAIN Constants THEN (CHOOSE k \in DOMAIN Constants[p] : Constants[p][k] = x.kind) - 1
    ELSE ToU32(x)

\* What a getter makes of a number: From<u32> for Expiration, the constant of the
\* property with this number, an abort when it has none.
FromU32(p, n) ==
    IF p \in DOMAIN Constants THEN
        IF n + 1 \in DOMAIN Constants[p] THEN Constant(Constants[p][n + 1]) ELSE Constant("abort")
    ELSE IF p = "expiration" /\ n = 0 THEN NamespaceDefault
    ELSE IF p = "expiration" /\ n = -1 THEN Never
    ELSE IF p = "expiration" /\ n = -2 THEN DontUpdate
    ELSE Value(n)

\* Values a program sets: any constant, expiration, timeout and number.
Values(p) ==
    IF p \in DOMAIN Constants THEN {Constant(Constants[p][k]) : k \in DOMAIN Constants[p]}
    ELSE IF p = "expiration" THEN {NamespaceDefault, Never, DontUpdate} \cup {Value(n) : n \in Seconds}
    ELSE {Value(n) : n \in IF p = "timeout" THEN Timeouts ELSE Numbers}

(* ---------------------------------- actions ------------------------------- *)

VARIABLES
    cls,    \* the class of the program's object
    msg,    \* the message it wraps
    last,   \* per property, what was set last, or its default
    sets,   \* number of setter calls
    sent,   \* the copy a command or call took, and `last` at that time
    go      \* the Go client's object, once converted

vars == <<cls, msg, last, sets, sent, go>>

Nothing == [taken |-> FALSE]

Init ==
    /\ cls \in Classes
    /\ msg = Construct(cls)
    /\ last = [p \in Props(cls) |-> FromU32(p, Construct(cls)[p])]
    /\ sets = 0
    /\ sent = Nothing /\ go = Nothing

\* A setter.
SetProperty(p, x) ==
    /\ sets < MaxSets
    /\ sets' = sets + 1
    /\ msg' = [msg EXCEPT ![Accessors[cls][p].sets] = Code(p, x)]
    /\ last' = [last EXCEPT ![p] = x]
    /\ UNCHANGED <<cls, sent, go>>

\* A getter.
Get(p) == FromU32(p, msg[Accessors[cls][p].gets])

\* A command is built, or a call made, with the object: `policy._as.clone()`.
Take ==
    /\ sent = Nothing
    /\ sent' = [taken |-> TRUE, msg |-> msg, last |-> last]
    /\ UNCHANGED <<cls, msg, last, sets, go>>

\* Mutant: the message is shared with the object, not copied.
ConvertShared ==
    /\ sent.taken /\ go = Nothing
    /\ go' = [taken |-> TRUE, policy |-> [f \in ToPolicy[cls] |-> GoValue(f, msg[f])]]
    /\ UNCHANGED <<cls, msg, last, sets, sent>>

\* The handler converts the message.
Convert ==
    /\ sent.taken /\ go = Nothing
    /\ go' = [taken |-> TRUE, policy |-> [f \in ToPolicy[cls] |-> GoValue(f, sent.msg[f])]]
    /\ UNCHANGED <<cls, msg, last, sets, sent>>

Done == sets = MaxSets /\ go.taken /\ UNCHANGED vars

Next == (\E p \in Props(cls) : \E x \in Values(p) : SetProperty(p, x)) \/ Take \/ Convert \/ Done

Spec == Init /\ [][Next]_vars

(* -------------------------------- properties ------------------------------ *)

\* The message keeps its fields, and the Go policy has a field for each property.
TypeOK ==
    /\ cls \in Classes
    /\ msg \in [DOMAIN Construct(cls) -> Int]
    /\ DOMAIN last = Props(cls)
    /\ sets \in 0 .. MaxSets
    /\ go.taken => Props(cls) \subseteq DOMAIN go.policy

\* Properties whose getter reads the field of another one.
Misread ==
    {<<c, "read_mode_sc">> : c \in {"ReadPolicy", "WritePolicy", "QueryPolicy", "ScanPolicy", "BatchReadPolicy"}}
    \cup {<<"WritePolicy", "durable_delete">>}

\* Properties that share a field: set_allow_partial_results stores into respond_all_keys.
Overwritten == {"BatchPolicy"} \X {"allow_partial_results", "respond_all_keys"}

\* A getter returns what the setter of its property stored last, whatever other
\* properties were set since, but for the properties in Misread and Overwritten.
GetReturnsLastSet ==
    \A p \in Props(cls) : <<cls, p>> \notin Misread \cup Overwritten => Get(p) = last[p]

\* A command or query runs with the values that its policy or statement had when it was
\* made: properties set before have arrived in the Go client as the same constant or
\* value, those set later have not.
\* Only the two properties of BatchPolicy that share a field go wrong.
CommandKeepsItsPolicy ==
    go.taken => \A p \in Props(cls) :
        <<cls, p>> \notin Overwritten /\ p # "timeout" =>
            go.policy[p] = IF p \in DOMAIN GoConstants THEN sent.last[p].kind ELSE ToU32(sent.last[p])

\* The timeout of an admin command arrives as it was set exactly up to 4294 ms, the
\* longest one whose nanoseconds fit in 32 bits.
AdminTimeoutFits ==
    cls = "AdminPolicy" /\ go.taken =>
        LET ms == sent.last["timeout"].n IN go.policy["timeout"] = ms * Millisecond <=> ms <= 4294
================================================================================
