--------------------------------- MODULE KvCalls ---------------------------------
(* The single-record calls of Aerospike\Client on one key: put, add, append,   *)
(* prepend, touch, delete, get, get_header and exists.  A thread locks the     *)
(* client it shares with the other threads of its process, sends the request   *)
(* over the unix socket, and holds the lock until the response is there.  The  *)
(* handler of the connection manager calls the Go client, which sends a        *)
(* command to the cluster, resends it after a timeout if the policy allows it, *)
(* and reports an error with its in-doubt flag.  Commands may be lost, late,   *)
(* or executed with a lost answer; the connection manager may crash at any     *)
(* point, and handlers that panic are turned into a gRPC error.                *)
EXTENDS Naturals, Sequences, FiniteSets

CONSTANTS
    Threads,      \* threads of PHP processes
    ClientOf,     \* the BlockingClient each thread uses
    Requests,     \* requests: op, action, expect, valid, timed (its policy has timeouts)
    MaxCalls,     \* bound on calls
    MaxRetries,   \* max_retries of the policy
    MaxCrashes,   \* bound on crashes of the connection manager
    None

ASSUME KvAssumption ==
    /\ MaxCalls \in Nat /\ MaxRetries \in Nat /\ MaxCrashes \in Nat
    /\ ClientOf \in [Threads -> Nat]

Ids == 1 .. MaxCalls

VARIABLES
    rec,      \* the record in the cluster
    net,      \* commands on their way to the cluster
    acm,      \* the connection manager: up, crashes so far
    lock,     \* per client, the thread holding its mutex
    call,     \* per thread, the call it is in
    log,      \* per call id: request, first answer of the cluster, what PHP saw
    applied   \* per call id, how often the cluster has executed it

vars == <<rec, net, acm, lock, call, log, applied>>

Store == INSTANCE AtomicStore WITH calls <- log

Writes == {"put", "add", "append", "prepend", "touch"}   \* answered by a bare proto::Error

\* The calls, and what their policies can hold: a ReadPolicy has neither a
\* record-exists action nor a generation.
ASSUME RequestsAssumption ==
    \A req \in Requests :
        /\ req.op \in Writes \cup Store!Reads \cup {"delete"}
        /\ req.valid \in BOOLEAN /\ req.timed \in BOOLEAN
        /\ req.op \in Store!Reads => req.action = "update" /\ req.expect = None

Pcs == {"idle", "lock", "rpc", "go", "reply", "broken"}

Idle == [pc |-> "idle", id |-> 0, sent |-> 0, reply |-> None]

Init ==
    /\ rec = Store!Absent
    /\ net = {}
    /\ acm = [up |-> TRUE, crashes |-> 0]
    /\ lock = [c \in {ClientOf[t] : t \in Threads} |-> None]
    /\ call = [t \in Threads |-> Idle]
    /\ log = [id \in Ids |-> [req |-> None, out |-> None, seen |-> None]]
    /\ applied = [id \in Ids |-> 0]

Req(t) == log[call[t].id].req

\* The call of t is in a new stage, with so many attempts sent and this response.
GoesTo(t, pc, sent, reply) ==
    call' = [call EXCEPT ![t] = [pc |-> pc, id |-> call[t].id, sent |-> sent, reply |-> reply]]

(* ------------------------- PHP side: start of a call ---------------------- *)

\* The method is called and builds its request.
Invoke(t) ==
    /\ call[t].pc = "idle"
    /\ \E id \in Ids : \E req \in Requests :
          /\ log[id].req = None
          /\ \A k \in Ids : k < id => log[k].req # None
          /\ log' = [log EXCEPT ![id].req = req]
          /\ call' = [call EXCEPT ![t] = [pc |-> "lock", id |-> id, sent |-> 0, reply |-> None]]
    /\ UNCHANGED <<rec, net, acm, lock, applied>>

\* self.client.lock(), then the request goes out.
Lock(t) ==
    /\ call[t].pc = "lock"
    /\ lock[ClientOf[t]] = None
    /\ lock' = [lock EXCEPT ![ClientOf[t]] = t]
    /\ GoesTo(t, IF acm.up THEN "rpc" ELSE "broken", 0, None)
    /\ UNCHANGED <<rec, net, acm, log, applied>>

(* --------------------------- connection manager --------------------------- *)

\* Mutant: the in-doubt flag of the error is not copied.
FromErrorCertain(code, in_doubt) == [result_code |-> code, in_doubt |-> FALSE]

\* fromError
FromError(code, in_doubt) == [result_code |-> code, in_doubt |-> in_doubt]

\* The Go client's rule for IsInDoubt: a write was sent and no answer settles it.
InDoubt(req, sent, code) ==
    /\ req.op \notin Store!Reads
    /\ sent > 1 \/ (sent = 1 /\ code = "TIMEOUT")

\* Mutant: a failed delete is answered without its error.
ReplyNoError(req, a, in_doubt) ==
    IF req.op \in Writes
    THEN [error |-> FromError(a.code, in_doubt)]
    ELSE [error |-> None, record |-> a.record, flag |-> a.existed]

\* The response message of each handler.  A write answers with an error message
\* whose result code is 0 on success; the other responses leave the error out.
Reply(req, a, in_doubt) ==
    IF req.op \in Writes
    THEN [error |-> FromError(a.code, in_doubt)]
    ELSE [error |-> IF a.code = "OK" THEN None ELSE FromError(a.code, in_doubt),
          record |-> a.record, flag |-> a.existed]

NoAnswer(code) == [code |-> code, existed |-> FALSE, record |-> None]

\* The handler converts the request and calls the Go client: the command is sent,
\* or cannot be, or the conversion panics (toKey) and the panic is recovered.
Handle(t) ==
    /\ call[t].pc = "rpc"
    /\ \/ /\ Req(t).valid
          /\ net' = net \cup {[id |-> call[t].id, try |-> 1]}
          /\ GoesTo(t, "go", 1, None)
       \/ /\ Req(t).valid
          /\ GoesTo(t, "reply", 0, Reply(Req(t), NoAnswer("NO_CONNECTION"), FALSE))
          /\ UNCHANGED net
       \/ /\ ~Req(t).valid
          /\ GoesTo(t, "broken", 0, None)
          /\ UNCHANGED net
    /\ UNCHANGED <<rec, acm, lock, log, applied>>

\* The command of an attempt times out or, whatever the policy, the network reports
\* its loss: it is sent again or given up.
Timeout(t) ==
    LET sent == call[t].sent IN
    /\ call[t].pc = "go"
    /\ IF sent <= MaxRetries
       THEN /\ net' = net \cup {[id |-> call[t].id, try |-> sent + 1]}
            /\ GoesTo(t, "go", sent + 1, None)
       ELSE /\ GoesTo(t, "reply", sent,
                      Reply(Req(t), NoAnswer("TIMEOUT"), InDoubt(Req(t), sent, "TIMEOUT")))
            /\ UNCHANGED net
    /\ UNCHANGED <<rec, acm, lock, log, applied>>

(* --------------------------------- cluster -------------------------------- *)

\* The cluster executes a command.  Its answer reaches the handler if that is
\* still waiting for this attempt, and may be lost.
Execute(cmd) ==
    LET req == log[cmd.id].req
        a   == Store!Answer(req, rec)
        Waiting == {t \in Threads : call[t].pc = "go" /\ call[t].id = cmd.id /\ call[t].sent = cmd.try}
    IN
    /\ net' = net \ {cmd}
    /\ rec' = Store!Effect(req, cmd.id, rec)
    /\ applied' = [applied EXCEPT ![cmd.id] = IF a.code = "OK" THEN @ + 1 ELSE @]
    /\ log' = [log EXCEPT ![cmd.id].out = IF @ = None THEN a ELSE @]
    /\ \/ UNCHANGED call
       \/ \E t \in Waiting :
             GoesTo(t, "reply", cmd.try,
                    Reply(req, a, InDoubt(req, cmd.try, a.code) /\ a.code # "OK"))
    /\ UNCHANGED <<acm, lock>>

\* A command is lost on its way.
Lose(cmd) ==
    /\ net' = net \ {cmd}
    /\ UNCHANGED <<rec, acm, lock, call, log, applied>>

(* ------------------------- PHP side: end of a call ------------------------ *)

Exception(error) ==
    [kind |-> "aerospike", code |-> error.result_code, in_doubt |-> error.in_doubt]

\* Mutant: a missing record is an exception, as for the other calls.
ResultThrows(req, p) ==
    CASE p.error # None /\ (req.op \notin Writes \/ p.error.result_code # "OK") -> Exception(p.error)
      [] req.op \in Writes -> [kind |-> "ok"]
      [] req.op \in {"get", "get_header"} -> [kind |-> "record", record |-> p.record]
      [] OTHER -> [kind |-> "bool", value |-> p.flag]

\* Mutant: the result code of a write is not looked at.
ResultIgnoresCode(req, p) ==
    CASE req.op \in Writes -> [kind |-> "ok"]
      [] p.error # None -> Exception(p.error)
      [] OTHER -> [kind |-> "none"]

\* How put, get, delete, exists and the others turn a response into a result.
\* delete reports whether the field `existed` is there, and the handler always
\* sets it.
Result(req, p) ==
    CASE req.op \in Writes ->
            IF p.error.result_code = "OK" THEN [kind |-> "ok"] ELSE Exception(p.error)
      [] req.op \in {"get", "get_header"} ->
            IF p.error = None /\ p.record # None THEN [kind |-> "record", record |-> p.record]
            ELSE IF p.error = FromError("KEY_NOT_FOUND", FALSE) /\ p.record = None THEN [kind |-> "none"]
            ELSE IF p.error # None /\ p.record = None THEN Exception(p.error)
            ELSE [kind |-> "panic"]
      [] req.op = "delete" ->
            IF p.error = None THEN [kind |-> "bool", value |-> TRUE] ELSE Exception(p.error)
      [] req.op = "exists" ->
            IF p.error = None THEN [kind |-> "bool", value |-> p.flag] ELSE Exception(p.error)

\* Mutant: the mutex stays locked after a transport error.
FinishKeepsLock(t, seen) ==
    /\ log' = [log EXCEPT ![call[t].id].seen = seen]
    /\ call' = [call EXCEPT ![t] = Idle]
    /\ lock' = IF seen.kind = "exception" THEN lock ELSE [lock EXCEPT ![ClientOf[t]] = None]
    /\ UNCHANGED <<rec, net, acm, applied>>

\* The call returns: the guard of the mutex is dropped with the frame.
Finish(t, seen) ==
    /\ log' = [log EXCEPT ![call[t].id].seen = seen]
    /\ call' = [call EXCEPT ![t] = Idle]
    /\ lock' = [lock EXCEPT ![ClientOf[t]] = None]
    /\ UNCHANGED <<rec, net, acm, applied>>

Return(t) ==
    /\ call[t].pc = "reply"
    /\ Finish(t, Result(Req(t), call[t].reply))

\* map_err(|e| e.to_string()): a gRPC error becomes a plain exception.
ReturnBroken(t) ==
    /\ call[t].pc = "broken"
    /\ Finish(t, [kind |-> "exception"])

(* --------------------------------- crashes -------------------------------- *)

\* The connection manager dies with the calls it is handling.
AcmCrash ==
    /\ acm.up /\ acm.crashes < MaxCrashes
    /\ acm' = [up |-> FALSE, crashes |-> acm.crashes + 1]
    /\ call' = [t \in Threads |-> IF call[t].pc \in {"rpc", "go", "reply"}
                                  THEN [pc |-> "broken", id |-> call[t].id,
                                        sent |-> call[t].sent, reply |-> None]
                                  ELSE call[t]]
    /\ UNCHANGED <<rec, net, lock, log, applied>>

AcmRestart ==
    /\ ~acm.up
    /\ acm' = [acm EXCEPT !.up = TRUE]
    /\ UNCHANGED <<rec, net, lock, call, log, applied>>

(* ------------------------------ specification ----------------------------- *)

Step(t) == Lock(t) \/ Handle(t) \/ Return(t) \/ ReturnBroken(t)

\* The timeout of an attempt runs out, if its policy has one.
RunsOut(t) == call[t].pc = "go" /\ Req(t).timed /\ Timeout(t)

\* Every call that the bound allows has been made and has returned.
Finished ==
    /\ \A id \in Ids : log[id].req # None
    /\ \A t \in Threads : call[t].pc = "idle"
    /\ UNCHANGED vars

Next ==
    \/ \E t \in Threads : Invoke(t) \/ Step(t) \/ Timeout(t)
    \/ \E cmd \in net : Execute(cmd) \/ Lose(cmd)
    \/ AcmCrash \/ AcmRestart
    \/ Finished

Spec == Init /\ [][Next]_vars

\* A thread that can go on does (calls are bounded, so others cannot keep the
\* mutex from it for ever), and the Go client gives up an attempt when its timeout
\* is over.  An attempt without a timeout may be waited for without end: nothing
\* makes the network report a loss.
Fairness == \A t \in Threads : WF_vars(Step(t)) /\ WF_vars(RunsOut(t))

FairSpec == Spec /\ Fairness

(* -------------------------------- properties ------------------------------ *)

Records == [exists : BOOLEAN, gen : Nat, val : Seq(Ids)]

Codes == {"OK", "KEY_NOT_FOUND", "KEY_EXISTS", "GENERATION"}   \* of the cluster

Failures == (Codes \ {"OK"}) \cup {"TIMEOUT", "NO_CONNECTION"}

Answers == [code : Codes, existed : BOOLEAN, record : Records \cup {None}]

Errors == [result_code : {"OK"} \cup Failures, in_doubt : BOOLEAN]

Replies ==
    [error : Errors] \cup [error : Errors \cup {None}, record : Records \cup {None}, flag : BOOLEAN]

Outcomes ==
    [kind : {"ok", "none", "exception"}]
    \cup [kind : {"record"}, record : Records]
    \cup [kind : {"bool"}, value : BOOLEAN]
    \cup [kind : {"aerospike"}, code : Failures, in_doubt : BOOLEAN]

\* None is no value of any kind.
ASSUME NoneAssumption ==
    /\ None \notin Threads /\ None \notin Requests /\ None \notin Records
    /\ None \notin Answers /\ None \notin Errors /\ None \notin Outcomes

\* Variables keep their types; in particular no response reaches the unreachable!
\* arm of get and get_header (lib.rs 9842, 9881).
TypeOK ==
    /\ rec \in Records
    /\ net \subseteq [id : Ids, try : 1 .. MaxRetries + 1]
    /\ acm \in [up : BOOLEAN, crashes : 0 .. MaxCrashes]
    /\ lock \in [{ClientOf[t] : t \in Threads} -> Threads \cup {None}]
    /\ call \in [Threads -> [pc : Pcs, id : 0 .. MaxCalls, sent : 0 .. MaxRetries + 1,
                            reply : Replies \cup {None}]]
    /\ log \in [Ids -> [req : Requests \cup {None}, out : Answers \cup {None},
                        seen : Outcomes \cup {None}]]
    /\ applied \in [Ids -> Nat]

\* An AerospikeException whose in_doubt is false tells the application that its
\* write has no effect, now or later: the cluster never executed it successfully
\* and holds no command that it could still execute (kvs.go fromError, lib.rs
\* From<&proto::Error>).  With retries, an attempt that timed out may have been
\* executed before the error came in.
CertainErrorHasNoEffect ==
    \A id \in Ids :
        (log[id].seen # None /\ log[id].seen.kind = "aerospike" /\ ~log[id].seen.in_doubt
            /\ log[id].req.op \notin Store!Reads)
        => applied[id] = 0 /\ \A cmd \in net : cmd.id # id

\* A write that returned normally was executed, and no more often than the policy's
\* retries allow; a delayed attempt may still be added to that.
SuccessWasExecuted ==
    \A id \in Ids :
        (log[id].seen # None /\ log[id].seen.kind = "ok")
        => applied[id] \in 1 .. MaxRetries + 1

\* A call without timeouts waits for the cluster, with the mutex of the client.
WaitsUntimed(client) ==
    \E t \in Threads : ClientOf[t] = client /\ call[t].pc = "go" /\ ~Req(t).timed

\* Every call returns, whatever crashes and timeouts it meets, and releases the
\* mutex for the other threads of its process.  The one thing that can keep it is a
\* call through the same client whose policy has no timeout, as a new WritePolicy
\* has none (lib.rs 2709), and whose command or answer is lost.
EveryCallReturns ==
    \A t \in Threads :
        []<>~WaitsUntimed(ClientOf[t]) => (call[t].pc = "lock" ~> call[t].pc = "idle")

\* Without retries the calls implement AtomicStore: one atomic step each, seen as
\* it happened, late only after an uncertain outcome.
Atomic == Store!Spec

\* lib.rs 9963 says of delete: "The call returns `true` if the record existed on
\* the server before deletion", so a delete that found nothing returns false.
DeleteTellsExistence ==
    \A id \in Ids :
        (log[id].req # None /\ log[id].req.op = "delete" /\ log[id].seen # None /\ log[id].seen.kind = "bool")
        => log[id].seen.value = log[id].out.existed
================================================================================
