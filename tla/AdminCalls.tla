-------------------------------- MODULE AdminCalls --------------------------------
(* The calls on users, roles, UDFs, secondary indexes and whole sets: several  *)
(* PHP processes, each with one call at a time, one connection manager, and    *)
(* the directory of the cluster.  A method of Client packs its parameters in a *)
(* message, the handler of kvs.go converts the fields, which may panic, and    *)
(* hands them to the Go client by position, and the Go client sends one        *)
(* command, which may execute after nobody waits for it any more.  Indexes are *)
(* built, and packages registered and removed, in the background.              *)
(*                                                                             *)
(* A parameter stands for its value, so that what arrives in a parameter of    *)
(* the Go client tells which one it was.  There is one user, one role, one     *)
(* package and one index; a set always exists.                                 *)
EXTENDS Naturals, Sequences, FiniteSets, ExpressionCodec, ValueCodec

CONSTANTS
    Procs,               \* PHP processes
    Calls,               \* bound: per process, the methods of its first call, of its second, ...
    Founds,              \* what the directory may hold at first
    ClusterPrivileges,   \* names of the privileges that roles of the cluster have
    KeyKinds,            \* kinds of value a program makes keys of
    Filters              \* filter expressions of the programs' read and write policies

(* --------------------------- PHP: the requests ----------------------------- *)

\* A request has a field for each parameter of its method, and the parameter in it.
Asks(rpc, params) == [rpc |-> rpc, params |-> params]

UserRequests ==
    [create_user |-> Asks("CreateUser", {"policy", "user", "password", "roles"}),
     drop_user |-> Asks("DropUser", {"policy", "user"}),
     change_password |-> Asks("ChangePassword", {"policy", "user", "password"}),
     grant_roles |-> Asks("GrantRoles", {"policy", "user", "roles"}),
     revoke_roles |-> Asks("RevokeRoles", {"policy", "user", "roles"}),
     query_users |-> Asks("QueryUsers", {"policy"}),
     query_user |-> Asks("QueryUsers", {"policy", "user"})]

RoleRequests ==
    [query_roles |-> Asks("QueryRoles", {"policy"}),
     query_role |-> Asks("QueryRoles", {"policy", "role_name"}),
     create_role |-> Asks("CreateRole", {"policy", "role_name", "privileges", "allowlist", "read_quota",
                                         "write_quota"}),
     drop_role |-> Asks("DropRole", {"policy", "role_name"})]

RoleChanges ==
    [grant_privileges |-> Asks("GrantPrivileges", {"policy", "role_name", "privileges"}),
     revoke_privileges |-> Asks("RevokePrivileges", {"policy", "role_name", "privileges"}),
     set_allowlist |-> Asks("SetAllowlist", {"policy", "role_name", "allowlist"}),
     set_quotas |-> Asks("SetQuotas", {"policy", "role_name", "read_quota", "write_quota"})]

\* An index may be on a place inside a list or map.
IndexRequests ==
    LET indexed == {"policy", "namespace", "set_name", "bin_name", "index_name", "index_type",
                    "index_collection_type"}
    IN
    [create_index |-> Asks("CreateIndex", indexed),
     create_index_in |-> Asks("CreateIndex", indexed \cup {"ctx"}),
     drop_index |-> Asks("DropIndex", {"policy", "namespace", "set_name", "index_name"})]

UdfRequests ==
    [register_udf |-> Asks("RegisterUDF", {"policy", "udf_body", "package_name", "language"}),
     drop_udf |-> Asks("DropUDF", {"policy", "package_name"}),
     list_udf |-> Asks("ListUDF", {"policy"}),
     udf_execute |-> Asks("UDFExecute", {"policy", "key", "package_name", "function_name", "args"})]

TruncateRequests ==
    [truncate |-> Asks("Truncate", {"policy", "namespace", "set_name"}),
     truncate_before |-> Asks("Truncate", {"policy", "namespace", "set_name", "before_nanos"})]

Methods ==
    DOMAIN UserRequests \cup DOMAIN RoleRequests \cup DOMAIN RoleChanges
    \cup DOMAIN IndexRequests \cup DOMAIN UdfRequests \cup DOMAIN TruncateRequests

Requests ==
    [m \in Methods |->
        IF m \in DOMAIN UserRequests THEN UserRequests[m]
        ELSE IF m \in DOMAIN RoleRequests THEN RoleRequests[m]
        ELSE IF m \in DOMAIN RoleChanges THEN RoleChanges[m]
        ELSE IF m \in DOMAIN IndexRequests THEN IndexRequests[m]
        ELSE IF m \in DOMAIN UdfRequests THEN UdfRequests[m]
        ELSE TruncateRequests[m]]


ASSUME CallsAssumption == Calls \in [Procs -> Seq(SUBSET Methods)]

ASSUME FiltersAssumption == \A f \in Filters : IsFilter(f) /\ ~FilterRefused(f)

\* The methods whose policy has a filter expression: a WritePolicy, or the ReadPolicy
\* of list_udf.  The others take an AdminPolicy or an InfoPolicy.
Filtered == DOMAIN IndexRequests \cup DOMAIN UdfRequests

\* What the conversions of the handlers depend on.
Args(privilege, key, filter) == [privilege |-> privilege, key |-> key, filter |-> filter]

(* ----------------------- connection manager: handlers ---------------------- *)

\* The parameters of the Go client's functions.
GoParams ==
    [CreateUser |-> <<"policy", "user", "password", "roles">>, DropUser |-> <<"policy", "user">>,
     ChangePassword |-> <<"policy", "user", "password">>, GrantRoles |-> <<"policy", "user", "roles">>,
     RevokeRoles |-> <<"policy", "user", "roles">>, QueryUser |-> <<"policy", "user">>,
     QueryUsers |-> <<"policy">>, QueryRole |-> <<"policy", "role_name">>, QueryRoles |-> <<"policy">>,
     CreateRole |-> <<"policy", "role_name", "privileges", "allowlist", "read_quota", "write_quota">>,
     DropRole |-> <<"policy", "role_name">>, GrantPrivileges |-> <<"policy", "role_name", "privileges">>,
     RevokePrivileges |-> <<"policy", "role_name", "privileges">>,
     SetWhitelist |-> <<"policy", "role_name", "allowlist">>,
     SetQuotas |-> <<"policy", "role_name", "read_quota", "write_quota">>,
     CreateComplexIndex |-> <<"policy", "namespace", "set_name", "index_name", "bin_name", "index_type",
                              "index_collection_type", "ctx">>,
     DropIndex |-> <<"policy", "namespace", "set_name", "index_name">>,
     RegisterUDF |-> <<"policy", "udf_body", "package_name", "language">>,
     RemoveUDF |-> <<"policy", "package_name">>, ListUDF |-> <<"policy">>,
     Execute |-> <<"policy", "key", "package_name", "function_name", "args">>,
     Truncate |-> <<"policy", "namespace", "set_name", "before_nanos">>]

GoCall(name, fields) == [name |-> name, fields |-> fields]

UserHandlers ==
    [CreateUser |-> GoCall("CreateUser", <<"policy", "user", "password", "roles">>),
     DropUser |-> GoCall("DropUser", <<"policy", "user">>),
     ChangePassword |-> GoCall("ChangePassword", <<"policy", "user", "password">>),
     GrantRoles |-> GoCall("GrantRoles", <<"policy", "user", "roles">>),
     RevokeRoles |-> GoCall("RevokeRoles", <<"policy", "user", "roles">>)]

\* Mutant: the two quotas of a role change places.
RoleHandlersSwapped ==
    [CreateRole |-> GoCall("CreateRole", <<"policy", "role_name", "privileges", "allowlist", "write_quota",
                                           "read_quota">>),
     DropRole |-> GoCall("DropRole", <<"policy", "role_name">>),
     GrantPrivileges |-> GoCall("GrantPrivileges", <<"policy", "role_name", "privileges">>),
     RevokePrivileges |-> GoCall("RevokePrivileges", <<"policy", "role_name", "privileges">>),
     SetAllowlist |-> GoCall("SetWhitelist", <<"policy", "role_name", "allowlist">>),
     SetQuotas |-> GoCall("SetQuotas", <<"policy", "role_name", "read_quota", "write_quota">>)]

RoleHandlers ==
    [CreateRole |-> GoCall("CreateRole", <<"policy", "role_name", "privileges", "allowlist", "read_quota",
                                           "write_quota">>),
     DropRole |-> GoCall("DropRole", <<"policy", "role_name">>),
     GrantPrivileges |-> GoCall("GrantPrivileges", <<"policy", "role_name", "privileges">>),
     RevokePrivileges |-> GoCall("RevokePrivileges", <<"policy", "role_name", "privileges">>),
     SetAllowlist |-> GoCall("SetWhitelist", <<"policy", "role_name", "allowlist">>),
     SetQuotas |-> GoCall("SetQuotas", <<"policy", "role_name", "read_quota", "write_quota">>)]

\* CreateIndex does not pass the ctx of its message on.
OtherHandlers ==
    [CreateIndex |-> GoCall("CreateComplexIndex", <<"policy", "namespace", "set_name", "index_name", "bin_name",
                                                    "index_type", "index_collection_type">>),
     DropIndex |-> GoCall("DropIndex", <<"policy", "namespace", "set_name", "index_name">>),
     Truncate |-> GoCall("Truncate", <<"policy", "namespace", "set_name", "before_nanos">>),
     RegisterUDF |-> GoCall("RegisterUDF", <<"policy", "udf_body", "package_name", "language">>),
     DropUDF |-> GoCall("RemoveUDF", <<"policy", "package_name">>),
     ListUDF |-> GoCall("ListUDF", <<"policy">>),
     UDFExecute |-> GoCall("Execute", <<"policy", "key", "package_name", "function_name", "args">>)]

\* A query with a name is another function of the Go client than one without.
Handler(msg) ==
    IF msg.rpc = "QueryUsers" THEN
        IF "user" \in msg.params THEN GoCall("QueryUser", <<"policy", "user">>)
        ELSE GoCall("QueryUsers", <<"policy">>)
    ELSE IF msg.rpc = "QueryRoles" THEN
        IF "role_name" \in msg.params THEN GoCall("QueryRole", <<"policy", "role_name">>)
        ELSE GoCall("QueryRoles", <<"policy">>)
    ELSE IF msg.rpc \in DOMAIN UserHandlers THEN UserHandlers[msg.rpc]
    ELSE IF msg.rpc \in DOMAIN RoleHandlers THEN RoleHandlers[msg.rpc]
    ELSE OtherHandlers[msg.rpc]

\* What each parameter of the Go client receives; the field of an absent parameter is nil.
Given(msg) ==
    LET go == Handler(msg) IN
    {<<GoParams[go.name][k], go.fields[k]>> : k \in {j \in DOMAIN go.fields : go.fields[j] \in msg.params}}

\* The command a method ends in.
Command(method) ==
    LET msg == Requests[method] IN [name |-> Handler(msg).name, given |-> Given(msg)]

\* toPrivilege: the names it knows; it panics on any other.
ToPrivilege ==
    {"user-admin", "sys-admin", "data-admin", "udf-admin", "sindex-admin", "read-write-udf", "read-write", "read",
     "write", "truncate"}

\* A conversion of the handler panics: toPrivilege, toKey on a value that the Go client
\* cannot hash, or toExpression in the policy.
Unconvertible(call) ==
    \/ call.args.privilege \notin ToPrivilege \cup {"none"}
    \/ call.args.key # "none" /\ ~KeyAccepted(call.args.key)
    \/ FilterPanics(EncodeFilter(call.args.filter))

(* ------------------------------- the cluster ------------------------------- *)

Objects == {"user", "role", "index", "package"}

Creates == [CreateUser |-> "user", CreateRole |-> "role", CreateComplexIndex |-> "index", RegisterUDF |-> "package"]

Drops == [DropUser |-> "user", DropRole |-> "role", DropIndex |-> "index", RemoveUDF |-> "package"]

ASSUME FoundsAssumption == Founds \subseteq SUBSET Objects

\* What has to be there for a call.
Needs(name) ==
    IF name \in DOMAIN Drops THEN {Drops[name]}
    ELSE IF name \in {"ChangePassword", "GrantRoles", "RevokeRoles", "QueryUser"} THEN {"user"}
    ELSE IF name \in {"QueryRole", "GrantPrivileges", "RevokePrivileges", "SetWhitelist", "SetQuotas"} THEN {"role"}
    ELSE IF name = "Execute" THEN {"package"} ELSE {}

\* Registering a package again replaces it.
Refused(name, objects) ==
    \/ ~(Needs(name) \subseteq objects)
    \/ name \in {"CreateUser", "CreateRole", "CreateComplexIndex"} /\ Creates[name] \in objects

After(name, objects) ==
    IF name \in DOMAIN Creates THEN objects \cup {Creates[name]}
    ELSE IF name \in DOMAIN Drops THEN objects \ {Drops[name]}
    ELSE objects

\* Commands that the cluster takes on and completes later.  The Go client returns a task
\* to wait for, which the handlers drop.
Background == {"CreateComplexIndex", "RegisterUDF", "RemoveUDF"}

(* -------------------------------- behaviour -------------------------------- *)

VARIABLES
    up,     \* the connection manager runs
    dir,    \* the objects there are
    log,    \* per process, its calls: method, stage of the command, what was told
    held    \* per process, the Privilege objects it has

vars == <<up, dir, log, held>>

NoGo == [name |-> "none", given |-> {}]

\* Calls of process p: all but the last have been told their outcome.
Last(p) == log[p][Len(log[p])]
Waiting(p) == log[p] # << >> /\ Last(p).told = "nothing"

SetCall(p, i, call) == log' = [log EXCEPT ![p][i] = call]
SetLast(p, call) == SetCall(p, Len(log[p]), call)

Init ==
    /\ up = TRUE
    /\ dir \in Founds
    /\ log = [p \in Procs |-> << >>]
    /\ held = [p \in Procs |-> {}]

\* PHP has no constructor for a Privilege: a program passes none, or one from query_roles.
ArgsOf(p, m) ==
    {Args(pr, key, filter) : pr \in IF "privileges" \in Requests[m].params THEN held[p] \cup {"none"} ELSE {"none"},
                             key \in IF "key" \in Requests[m].params THEN KeyKinds ELSE {"none"},
                             filter \in IF m \in Filtered THEN Filters ELSE {<< >>}}

\* Nobody answers when the connection manager is down.
NewCall(m, args) ==
    [method |-> m, args |-> args, go |-> NoGo, stage |-> IF up THEN "sent" ELSE "never",
     told |-> IF up THEN "nothing" ELSE "unavailable"]

\* Mutant: a call does not wait for the one before it.
CallAnyTime(p) ==
    /\ Len(log[p]) < Len(Calls[p])
    /\ \E m \in Calls[p][Len(log[p]) + 1] : \E args \in ArgsOf(p, m) : log' = [log EXCEPT ![p] = Append(@, NewCall(m, args))]
    /\ UNCHANGED <<up, dir, held>>

\* A process calls a method, with the client's mutex.  An error of the transport is a
\* plain exception with its status: unavailable, or internal after a recovered panic.
Call(p) ==
    /\ ~Waiting(p) /\ Len(log[p]) < Len(Calls[p])
    /\ \E m \in Calls[p][Len(log[p]) + 1] : \E args \in ArgsOf(p, m) : log' = [log EXCEPT ![p] = Append(@, NewCall(m, args))]
    /\ UNCHANGED <<up, dir, held>>

\* The handler converts the message and calls the Go client, which sends the command.
\* A conversion that panics is recovered, and the call ends in a gRPC error.
Handle(p) ==
    /\ up /\ Waiting(p) /\ Last(p).stage = "sent"
    /\ SetLast(p, IF Unconvertible(Last(p))
                  THEN [Last(p) EXCEPT !.stage = "never", !.told = "internal"]
                  ELSE [Last(p) EXCEPT !.stage = "going", !.go = Command(Last(p).method)])
    /\ UNCHANGED <<up, dir, held>>

\* The cluster executes a command, takes it on or refuses it, whether or not its caller
\* still waits.
Execute(p, i) ==
    /\ log[p][i].stage = "going"
    /\ IF Refused(log[p][i].go.name, dir)
       THEN SetCall(p, i, [log[p][i] EXCEPT !.stage = "refused"]) /\ UNCHANGED dir
       ELSE IF log[p][i].go.name \in Background
       THEN SetCall(p, i, [log[p][i] EXCEPT !.stage = "accepted"]) /\ UNCHANGED dir
       ELSE SetCall(p, i, [log[p][i] EXCEPT !.stage = "done"]) /\ dir' = After(log[p][i].go.name, dir)
    /\ UNCHANGED <<up, held>>

\* The cluster completes a command it has taken on.
Complete(p, i) ==
    /\ log[p][i].stage = "accepted"
    /\ SetCall(p, i, [log[p][i] EXCEPT !.stage = "done"])
    /\ dir' = After(log[p][i].go.name, dir)
    /\ UNCHANGED <<up, held>>

\* A command does not arrive.
Lose(p, i) ==
    /\ log[p][i].stage = "going"
    /\ SetCall(p, i, [log[p][i] EXCEPT !.stage = "lost"])
    /\ UNCHANGED <<up, dir, held>>

\* Mutant: the result is converted before the error is looked at, so that a query of
\* what is not there dereferences nil.
AnswerUnchecked(p) ==
    /\ up /\ Waiting(p) /\ Last(p).stage \in {"accepted", "done", "refused"}
    /\ SetLast(p, [Last(p) EXCEPT !.told = IF Last(p).stage \in {"accepted", "done"} THEN "ok"
                                           ELSE IF Last(p).go.name \in {"QueryUser", "QueryRole"} THEN "internal"
                                           ELSE "aerospike"])
    /\ held' = [held EXCEPT ![p] = @ \cup IF Last(p).go.name \in {"QueryRole", "QueryRoles"}
                                                /\ Last(p).stage = "done" THEN ClusterPrivileges ELSE {}]
    /\ UNCHANGED <<up, dir>>

\* Mutant: an answer is given as soon as the command is on its way.
AnswerEarly(p) ==
    /\ up /\ Waiting(p) /\ Last(p).stage \in {"going", "accepted", "done", "refused"}
    /\ SetLast(p, [Last(p) EXCEPT !.told = IF Last(p).stage = "refused" THEN "aerospike" ELSE "ok"])
    /\ held' = [held EXCEPT ![p] = @ \cup IF Last(p).go.name \in {"QueryRole", "QueryRoles"}
                                                /\ Last(p).stage = "done" THEN ClusterPrivileges ELSE {}]
    /\ UNCHANGED <<up, dir>>

\* The Go client has the result: the handler answers with it, or with its error, and
\* the method returns it or throws an AerospikeException.  The result of a command that
\* the cluster completes later is that it was taken on.
Answer(p) ==
    /\ up /\ Waiting(p) /\ Last(p).stage \in {"accepted", "done", "refused"}
    /\ SetLast(p, [Last(p) EXCEPT !.told = IF Last(p).stage = "refused" THEN "aerospike" ELSE "ok"])
    /\ held' = [held EXCEPT ![p] = @ \cup IF Last(p).go.name \in {"QueryRole", "QueryRoles"}
                                                /\ Last(p).stage = "done" THEN ClusterPrivileges ELSE {}]
    /\ UNCHANGED <<up, dir>>

\* The Go client gives the command up: an AerospikeException with a code of its own,
\* and the command may still execute.
GiveUp(p) ==
    /\ up /\ Waiting(p) /\ Last(p).stage \in {"going", "accepted", "done", "refused", "lost"}
    /\ SetLast(p, [Last(p) EXCEPT !.told = "timeout"])
    /\ UNCHANGED <<up, dir, held>>

\* A request that was not handled never will be.
Dropped(call) ==
    [call EXCEPT !.told = "unavailable", !.stage = IF call.stage = "sent" THEN "never" ELSE call.stage]

\* The connection manager dies, and every call that waits ends in an exception.
Crash ==
    /\ up
    /\ up' = FALSE
    /\ log' = [p \in Procs |->
                  IF Waiting(p)
                  THEN [log[p] EXCEPT ![Len(log[p])] = Dropped(Last(p))]
                  ELSE log[p]]
    /\ UNCHANGED <<dir, held>>

Restart == ~up /\ up' = TRUE /\ UNCHANGED <<dir, log, held>>

Finished ==
    /\ \A p \in Procs : ~Waiting(p) /\ Len(log[p]) = Len(Calls[p])
    /\ UNCHANGED vars

Next ==
    \/ \E p \in Procs : Call(p) \/ Handle(p) \/ Answer(p) \/ GiveUp(p)
    \/ \E p \in Procs : \E i \in DOMAIN log[p] : Execute(p, i) \/ Complete(p, i) \/ Lose(p, i)
    \/ Crash \/ Restart \/ Finished

Spec == Init /\ [][Next]_vars

(* -------------------------------- properties ------------------------------ *)

Stages == {"sent", "never", "going", "accepted", "done", "refused", "lost"}
Outcomes == {"nothing", "ok", "aerospike", "timeout", "unavailable", "internal"}

AnyArgs ==
    {Args(pr, key, filter) : pr \in ClusterPrivileges \cup {"none"}, key \in KeyKinds \cup {"none"},
                             filter \in Filters \cup {<< >>}}

CallRecords ==
    [method : Methods, args : AnyArgs, go : {NoGo} \cup {Command(m) : m \in Methods},
     stage : Stages, told : Outcomes]

\* Variables keep their types, a call is told its outcome before the next one of its
\* process, and the directory holds known objects.
TypeOK ==
    /\ up \in BOOLEAN /\ dir \subseteq Objects
    /\ log \in [Procs -> Seq(CallRecords)] /\ held \in [Procs -> SUBSET ClusterPrivileges]
    /\ \A p \in Procs :
          /\ Len(log[p]) <= Len(Calls[p])
          /\ \A i \in DOMAIN log[p] : i < Len(log[p]) => log[p][i].told # "nothing"

\* Each parameter of the Go client receives the argument the program passed for it, and
\* no argument is dropped, but for the place of an index: the handler CreateIndex
\* ignores the ctx that create_index sends.
ArgumentsArrive ==
    \A p \in Procs : \A i \in DOMAIN log[p] : LET call == log[p][i] IN
        call.go # NoGo =>
            (call.go.given = {<<x, x>> : x \in Requests[call.method].params} <=> call.method # "create_index_in")

\* An internal error means that nothing was asked of the cluster, now or later, so that
\* the call may be made again: it comes from a conversion that panicked (toPrivileges,
\* toKey, toExpression) and never from the result of a query (QueryUsers, QueryRoles);
\* and a call whose arguments cannot be converted never gets further than that.
InternalMeansUnsent ==
    \A p \in Procs : \A i \in DOMAIN log[p] : LET call == log[p][i] IN
        /\ call.told = "internal" => Unconvertible(call)
        /\ Unconvertible(call) => call.go = NoGo /\ call.told \in {"nothing", "internal", "unavailable"}
        /\ Unconvertible(call) => call.stage \in {"sent", "never"}

\* A method that creates or drops object o.
Touching(method, o) ==
    LET name == Command(method).name IN
    \/ name \in DOMAIN Creates /\ Creates[name] = o
    \/ name \in DOMAIN Drops /\ Drops[name] = o

\* The calls of p that create or drop object o.
Touches(p, o) == {i \in DOMAIN log[p] : Touching(log[p][i].method, o)}

\* p has been told the outcome of all its calls on o by the cluster.
Certain(p, o) == \A i \in Touches(p, o) : log[p][i].told \in {"ok", "aerospike"}

\* p believes o is there: its last call on o created it, or was refused since it was there.
Believes(p, o) ==
    LET last == CHOOSE i \in Touches(p, o) : \A j \in Touches(p, o) : j <= i IN
    Command(log[p][last].method).name \in DOMAIN Creates

\* The users and roles are as the programs were told: when every process that ever
\* created or dropped the user or the role has had an answer of the cluster to each of
\* these calls, some of them is right about it, and a process that was alone with it is
\* right.  Calls that ended in a timeout or in an error of the transport may take effect
\* at any later time, and then nobody can know; nor can they of indexes and packages,
\* since create_index, register_udf and drop_udf return before they are complete.
ToldIsTrue ==
    \A o \in {"user", "role"} : LET Users == {p \in Procs : Touches(p, o) # {}} IN
        Users # {} /\ (\A p \in Users : Certain(p, o))
            => \E p \in Users : o \in dir <=> Believes(p, o)
================================================================================
