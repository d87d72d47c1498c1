------------------------------ MODULE KvCallsProofs ------------------------------
(* Proofs about KvCalls for any number of threads, processes, calls, crashes  *)
(* and retries, and any set of requests; without retries the calls implement  *)
(* AtomicStore.                                                               *)
EXTENDS KvCalls, FiniteSetTheorems, TLAPS

(* --------------------------- inductive invariant -------------------------- *)

Active(t) == call[t].pc # "idle"

\* The commands of a call that the network still holds.
Pending(id) == {cmd \in net : cmd.id = id}

\* Executions so far and executions still possible.
Executions(id) == applied[id] + Cardinality(Pending(id))

\* A call in progress has a number of its own, and the application has seen
\* nothing of it.
OwnIds ==
    /\ \A t \in Threads : Active(t) =>
          /\ call[t].id \in Ids
          /\ log[call[t].id].req # None
          /\ log[call[t].id].seen = None
    /\ \A t, u \in Threads : Active(t) /\ Active(u) /\ call[t].id = call[u].id => t = u

\* Commands belong to calls that were made, each attempt of a call is sent once,
\* and a call in progress accounts for every attempt.
AttemptsCounted ==
    /\ IsFiniteSet(net)
    /\ \A id \in Ids :
          /\ Executions(id) <= MaxRetries + 1
          /\ log[id].req = None => Executions(id) = 0 /\ log[id].seen = None
    /\ \A t \in Threads : Active(t) =>
          /\ Executions(call[t].id) <= call[t].sent
          /\ call[t].pc = "go" => call[t].sent >= 1
          /\ call[t].pc \in {"lock", "rpc"} => call[t].sent = 0

\* What a response may be, by the kind of call.
RepliesTo(req) ==
    IF req.op \in Writes THEN [error : Errors]
    ELSE [error : [result_code : Failures, in_doubt : BOOLEAN] \cup {None},
          record : Records \cup {None}, flag : BOOLEAN]

\* The response tells of success.
Succeeded(req, p) ==
    IF req.op \in Writes THEN p.error.result_code = "OK" ELSE p.error = None

\* What the response of a handler tells of its call: get has a record or an error,
\* a success was executed, and an error that is certain means that no command of the
\* call was or will be executed with success.
Tells(req, p, id) ==
    /\ p \in RepliesTo(req)
    /\ req.op \in {"get", "get_header"} => (p.error = None <=> p.record # None)
    /\ Succeeded(req, p) => applied[id] >= 1
    /\ ~Succeeded(req, p) /\ req.op \notin Store!Reads /\ ~p.error.in_doubt
          => Executions(id) = 0

RepliesTrue ==
    \A t \in Threads : call[t].pc = "reply" => Tells(Req(t), call[t].reply, call[t].id)

\* The same of what the application has seen.
CertainFailures ==
    \A id \in Ids :
        (log[id].seen # None /\ log[id].seen.kind = "aerospike" /\ ~log[id].seen.in_doubt
            /\ log[id].req.op \notin Store!Reads)
        => Executions(id) = 0

Successes ==
    \A id \in Ids : (log[id].seen # None /\ log[id].seen.kind = "ok") => applied[id] >= 1

KvInv ==
    /\ TypeOK /\ OwnIds /\ AttemptsCounted /\ RepliesTrue
    /\ CertainFailures /\ Successes

(* ------------------------------ answers ----------------------------------- *)

\* The record stays a record whatever the cluster executes.
LEMMA EffectType ==
    ASSUME NEW req \in Requests, NEW id \in Ids, NEW r \in Records
    PROVE  Store!Effect(req, id, r) \in Records
<1>1. r.exists \in BOOLEAN /\ r.gen \in Nat /\ r.val \in Seq(Ids)
  BY DEF Records
<1>2. Store!Absent \in Records
  BY DEF Store!Absent, Records
<1>3. CASE Store!IsRead(req) \/ Store!Verdict(req, r) # "OK" \/ req.op = "delete"
  BY <1>2, <1>3 DEF Store!Effect
<1>4. CASE ~(Store!IsRead(req) \/ Store!Verdict(req, r) # "OK" \/ req.op = "delete")
  <2>1. req.op \in Writes
    BY <1>4, RequestsAssumption DEF Store!IsRead
  <2>2. Store!NewValue(req, id, r) \in Seq(Ids)
    BY <1>1, <2>1 DEF Store!NewValue, Writes
  <2> QED BY <1>1, <1>4, <2>2 DEF Store!Effect, Records
<1> QED BY <1>3, <1>4

\* The cluster answers with one of its codes, and get and get_header get a record
\* exactly when they succeed.
LEMMA AnswerType ==
    ASSUME NEW req \in Requests, NEW r \in Records
    PROVE  /\ Store!Answer(req, r) \in Answers
           /\ req.op \in {"get", "get_header"} =>
                 (Store!Answer(req, r).code = "OK" <=> Store!Answer(req, r).record # None)
<1>1. r.exists \in BOOLEAN /\ r.gen \in Nat /\ r.val \in Seq(Ids)
  BY DEF Records
<1>2. [r EXCEPT !.val = << >>] \in Records
  <2>1. << >> \in Seq(Ids)
    OBVIOUS
  <2> QED BY <2>1 DEF Records
<1>3. Store!Verdict(req, r) \in Codes
  BY DEF Store!Verdict, Codes
<1>4. Store!Answer(req, r).record \in Records \cup {None}
  BY <1>2 DEF Store!Answer
<1>5. Store!Answer(req, r) \in Answers
  BY <1>1, <1>3, <1>4 DEF Store!Answer, Answers
<1>6. ASSUME req.op \in {"get", "get_header"}
      PROVE  Store!Answer(req, r).code = "OK" <=> Store!Answer(req, r).record # None
  <2>1. req.action = "update" /\ req.expect = None
    BY <1>6, RequestsAssumption DEF Store!Reads
  <2>2. Store!Verdict(req, r) = "OK" <=> r.exists
    BY <1>1, <1>6, <2>1 DEF Store!Verdict, Store!Reads
  <2>3. Store!Answer(req, r).record # None <=> r.exists
    <3>1. PICK h \in Records : h = [r EXCEPT !.val = << >>]
      BY <1>2
    <3>2. Store!Answer(req, r).record =
             IF ~r.exists \/ req.op \notin {"get", "get_header"} THEN None
             ELSE IF req.op = "get" THEN r ELSE h
      BY <3>1, Zenon DEF Store!Answer
    <3> QED BY <1>1, <1>6, <3>2, NoneAssumption
  <2> QED BY <2>2, <2>3 DEF Store!Answer
<1> QED BY <1>5, <1>6

\* The handlers' responses to an answer of the cluster or of the Go client.
LEMMA ReplyType ==
    ASSUME NEW req \in Requests, NEW d \in BOOLEAN,
           NEW a \in [code : {"OK"} \cup Failures, existed : BOOLEAN, record : Records \cup {None}]
    PROVE  Reply(req, a, d) \in RepliesTo(req)
  BY DEF Reply, FromError, RepliesTo, Errors

\* Every response is a message, and the application makes something of it: no
\* response of get reaches the arm marked unreachable.
LEMMA ResultType ==
    ASSUME NEW req \in Requests, NEW p \in RepliesTo(req),
           req.op \in {"get", "get_header"} => (p.error = None <=> p.record # None)
    PROVE  p \in Replies /\ Result(req, p) \in Outcomes
<1>1. \A e \in Errors : e.result_code # "OK" => Exception(e) \in Outcomes
  BY DEF Exception, Outcomes, Errors
<1>2. \A e \in [result_code : Failures, in_doubt : BOOLEAN] : e \in Errors /\ e.result_code # "OK"
  BY DEF Failures, Codes, Errors
<1>3. CASE req.op \in Writes
  <2>1. p.error \in Errors /\ p \in [error : Errors]
    BY <1>3 DEF RepliesTo
  <2>2. Result(req, p) = IF p.error.result_code = "OK" THEN [kind |-> "ok"] ELSE Exception(p.error)
    BY <1>3 DEF Result, Writes
  <2> QED BY <1>1, <2>1, <2>2 DEF Replies, Outcomes
<1>4. CASE req.op \notin Writes
  <2>1. /\ p.error \in Errors \cup {None} /\ p.record \in Records \cup {None} /\ p.flag \in BOOLEAN
        /\ p.error # None => p.error.result_code # "OK"
        /\ p \in [error : Errors \cup {None}, record : Records \cup {None}, flag : BOOLEAN]
    BY <1>2, <1>4 DEF RepliesTo
  <2>2. p.error # None => Exception(p.error) \in Outcomes
    BY <1>1, <2>1
  <2>3. CASE req.op \in {"get", "get_header"}
    <3>1. CASE p.error = None
      <4>1. Result(req, p) = [kind |-> "record", record |-> p.record]
        BY <1>4, <2>3, <3>1 DEF Result, Writes
      <4>2. p.record \in Records
        BY <2>1, <2>3, <3>1
      <4> QED BY <2>1, <4>1, <4>2 DEF Outcomes, Replies
    <3>2. CASE p.error # None
      <4>1. Result(req, p) = [kind |-> "none"] \/ Result(req, p) = Exception(p.error)
        BY <1>4, <2>3, <3>2 DEF Result, Writes
      <4> QED BY <2>1, <2>2, <3>2, <4>1 DEF Outcomes, Replies
    <3> QED BY <3>1, <3>2
  <2>4. CASE req.op \in {"delete", "exists"}
    <3>1. CASE p.error = None
      <4>1. \/ Result(req, p) = [kind |-> "bool", value |-> TRUE]
            \/ Result(req, p) = [kind |-> "bool", value |-> p.flag]
        BY <1>4, <2>4, <3>1 DEF Result, Writes
      <4>2. \A v \in BOOLEAN : [kind |-> "bool", value |-> v] \in Outcomes
        BY Zenon DEF Outcomes
      <4> QED BY <2>1, <4>1, <4>2, Zenon DEF Replies
    <3>2. CASE p.error # None
      <4>1. Result(req, p) = Exception(p.error)
        BY <1>4, <2>4, <3>2 DEF Result, Writes
      <4> QED BY <2>1, <2>2, <3>2, <4>1 DEF Replies
    <3> QED BY <3>1, <3>2
  <2> QED BY <1>4, <2>3, <2>4, RequestsAssumption DEF Store!Reads
<1> QED BY <1>3, <1>4

(* --------------------------- counting executions -------------------------- *)

\* The count is a number, and zero when nothing was or will be executed.
LEMMA ExecutionsType ==
    ASSUME TypeOK, IsFiniteSet(net), NEW id \in Ids
    PROVE  /\ IsFiniteSet(Pending(id)) /\ Cardinality(Pending(id)) \in Nat
           /\ applied[id] \in Nat /\ Executions(id) \in Nat
           /\ applied[id] <= Executions(id)
           /\ Executions(id) = 0 => applied[id] = 0 /\ Pending(id) = {}
           /\ (\E cmd \in net : cmd.id = id) => Executions(id) >= applied[id] + 1
<1>1. Pending(id) \subseteq net
  BY DEF Pending
<1>2. IsFiniteSet(Pending(id)) /\ Cardinality(Pending(id)) \in Nat
  BY <1>1, FS_Subset, FS_CardinalityType
<1>3. applied[id] \in Nat
  BY DEF TypeOK
<1>4. Cardinality(Pending(id)) = 0 <=> Pending(id) = {}
  BY <1>2, FS_EmptySet
<1>5. (\E cmd \in net : cmd.id = id) => Pending(id) # {}
  BY DEF Pending
<1> QED BY <1>2, <1>3, <1>4, <1>5 DEF Executions

\* Sending an attempt adds at most one execution to its call and none to others.
LEMMA SendCounts ==
    ASSUME TypeOK, IsFiniteSet(net), NEW id \in Ids, NEW n,
           net' = net \cup {[id |-> id, try |-> n]}, UNCHANGED applied
    PROVE  /\ IsFiniteSet(net')
           /\ Executions(id)' \in Nat /\ Executions(id)' <= Executions(id) + 1
           /\ \A k \in Ids \ {id} : Executions(k)' = Executions(k)
<1> DEFINE new == [id |-> id, try |-> n]
<1>1. IsFiniteSet(net')
  BY FS_AddElement
<1>2. Pending(id)' = Pending(id) \cup {new}
  BY DEF Pending
<1>3. \A k \in Ids \ {id} : Pending(k)' = Pending(k)
  BY DEF Pending
<1>4. Cardinality(Pending(id) \cup {new}) \in {Cardinality(Pending(id)), Cardinality(Pending(id)) + 1}
  <2> HIDE DEF new
  <2> QED BY ExecutionsType, FS_AddElement
<1> QED BY <1>1, <1>2, <1>3, <1>4, ExecutionsType DEF Executions, TypeOK

\* A command that the cluster executes, or that is lost, leaves the network: it is
\* counted as before when it is executed with success, and no longer otherwise.
LEMMA TakeCounts ==
    ASSUME TypeOK, IsFiniteSet(net), NEW cmd \in net, NEW success \in BOOLEAN,
           net' = net \ {cmd},
           applied' = [applied EXCEPT ![cmd.id] = IF success THEN @ + 1 ELSE @]
    PROVE  /\ IsFiniteSet(net')
           /\ cmd.id \in Ids
           /\ Executions(cmd.id)' = IF success THEN Executions(cmd.id) ELSE Executions(cmd.id) - 1
           /\ \A k \in Ids \ {cmd.id} : Executions(k)' = Executions(k) /\ applied'[k] = applied[k]
<1>0. cmd.id \in Ids
  BY DEF TypeOK
<1>1. IsFiniteSet(net')
  BY FS_RemoveElement
<1>2. Pending(cmd.id)' = Pending(cmd.id) \ {cmd} /\ cmd \in Pending(cmd.id)
  BY DEF Pending
<1>3. \A k \in Ids \ {cmd.id} : Pending(k)' = Pending(k)
  BY DEF Pending
<1>4. Cardinality(Pending(cmd.id))' = Cardinality(Pending(cmd.id)) - 1
  <2>1. Cardinality(Pending(cmd.id) \ {cmd}) = Cardinality(Pending(cmd.id)) - 1
    BY <1>0, <1>2, ExecutionsType, FS_RemoveElement
  <2> QED BY <1>2, <2>1
<1>5. applied'[cmd.id] = IF success THEN applied[cmd.id] + 1 ELSE applied[cmd.id]
  BY <1>0 DEF TypeOK
<1>6. \A k \in Ids \ {cmd.id} : applied'[k] = applied[k]
  BY DEF TypeOK
<1> QED BY <1>0, <1>1, <1>3, <1>4, <1>5, <1>6, ExecutionsType DEF Executions

(* ------------------------------ type invariant ---------------------------- *)

\* Nothing has been called.
LEMMA InitInv == Init => KvInv
<1> SUFFICES ASSUME Init PROVE KvInv
  OBVIOUS
<1> USE KvAssumption DEF Init, Idle
<1>1. TypeOK
  <2>1. rec \in Records
    <3>1. << >> \in Seq(Ids)
      OBVIOUS
    <3> QED BY <3>1 DEF Store!Absent, Records
  <2>2. call \in [Threads -> [pc : Pcs, id : 0 .. MaxCalls, sent : 0 .. MaxRetries + 1,
                             reply : Replies \cup {None}]]
    BY DEF Pcs
  <2>3. log \in [Ids -> [req : Requests \cup {None}, out : Answers \cup {None}, seen : Outcomes \cup {None}]]
    OBVIOUS
  <2>4. acm \in [up : BOOLEAN, crashes : 0 .. MaxCrashes]
    OBVIOUS
  <2> QED BY <2>1, <2>2, <2>3, <2>4 DEF TypeOK
<1>2. OwnIds
  BY DEF OwnIds, Active
<1>3. ASSUME NEW id \in Ids PROVE Executions(id) = 0
  <2>1. Pending(id) = {} /\ applied[id] = 0
    BY DEF Pending
  <2>2. Cardinality(Pending(id)) = 0
    BY <2>1, FS_EmptySet
  <2> HIDE DEF Init
  <2> QED BY <2>1, <2>2 DEF Executions
<1>4. AttemptsCounted
  BY <1>3, FS_EmptySet DEF AttemptsCounted, Active
<1>5. RepliesTrue /\ CertainFailures /\ Successes
  BY DEF RepliesTrue, Tells, CertainFailures, Successes
<1> QED BY <1>1, <1>2, <1>4, <1>5 DEF KvInv

\* The call in progress is one of the calls made, with a request of its own.
LEMMA InProgress ==
    ASSUME TypeOK, OwnIds, NEW t \in Threads, Active(t)
    PROVE  call[t].id \in Ids /\ Req(t) \in Requests
  BY DEF OwnIds, Active, TypeOK, Req

Calls == [pc : Pcs, id : 0 .. MaxCalls, sent : 0 .. MaxRetries + 1, reply : Replies \cup {None}]

\* A step that changes one call keeps the types of the calls and all other calls.
LEMMA OneCall ==
    ASSUME TypeOK, NEW t \in Threads, NEW p \in Pcs, NEW n \in 0 .. MaxRetries + 1,
           NEW y \in Replies \cup {None}, GoesTo(t, p, n, y)
    PROVE  /\ call' \in [Threads -> Calls]
           /\ call'[t].pc = p /\ call'[t].id = call[t].id
           /\ call'[t].sent = n /\ call'[t].reply = y
           /\ \A u \in Threads \ {t} : call'[u] = call[u]
<1> DEFINE c == [pc |-> p, id |-> call[t].id, sent |-> n, reply |-> y]
<1>1. call[t].id \in 0 .. MaxCalls
  BY DEF TypeOK
<1>2. c \in Calls
  BY <1>1 DEF Calls
<1>3. call'[t] = c /\ \A u \in Threads \ {t} : call'[u] = call[u]
  BY DEF TypeOK, GoesTo
<1>4. call' \in [Threads -> Calls]
  BY <1>2 DEF TypeOK, Calls, GoesTo
<1> QED BY <1>3, <1>4

\* What the response to a call may be.
LEMMA RepliesToAreReplies ==
    ASSUME NEW req, NEW p \in RepliesTo(req) PROVE p \in Replies
  BY DEF RepliesTo, Replies, Errors

\* The responses of a handler that has no answer of the cluster.
LEMMA NoAnswerReplies ==
    ASSUME NEW req \in Requests, NEW d \in BOOLEAN, NEW code \in {"TIMEOUT", "NO_CONNECTION"}
    PROVE  Reply(req, NoAnswer(code), d) \in RepliesTo(req)
  BY ReplyType DEF NoAnswer, Failures

\* The in-doubt flag is a Boolean.
LEMMA InDoubtType == \A req, n, code : InDoubt(req, n, code) \in BOOLEAN
  BY DEF InDoubt

Logged == [req : Requests \cup {None}, out : Answers \cup {None}, seen : Outcomes \cup {None}]

\* A step that changes one field of the log keeps the types of the log and all
\* other entries.
LEMMA OneEntry ==
    ASSUME TypeOK, NEW id \in Ids
    PROVE  /\ \A x \in Requests \cup {None} : log' = [log EXCEPT ![id].req = x] =>
                 /\ log' \in [Ids -> Logged]
                 /\ log'[id].req = x /\ log'[id].out = log[id].out /\ log'[id].seen = log[id].seen
                 /\ \A k \in Ids \ {id} : log'[k] = log[k]
           /\ \A x \in Answers \cup {None} : log' = [log EXCEPT ![id].out = x] =>
                 /\ log' \in [Ids -> Logged]
                 /\ log'[id].req = log[id].req /\ log'[id].out = x /\ log'[id].seen = log[id].seen
                 /\ \A k \in Ids \ {id} : log'[k] = log[k]
           /\ \A x \in Outcomes \cup {None} : log' = [log EXCEPT ![id].seen = x] =>
                 /\ log' \in [Ids -> Logged]
                 /\ log'[id].req = log[id].req /\ log'[id].out = log[id].out /\ log'[id].seen = x
                 /\ \A k \in Ids \ {id} : log'[k] = log[k]
<1>1. log \in [Ids -> Logged] /\ log[id] \in Logged
  BY DEF TypeOK, Logged
<1>2. ASSUME NEW x \in Requests \cup {None}, log' = [log EXCEPT ![id].req = x]
      PROVE  /\ log' \in [Ids -> Logged]
             /\ log'[id].req = x /\ log'[id].out = log[id].out /\ log'[id].seen = log[id].seen
             /\ \A k \in Ids \ {id} : log'[k] = log[k]
  <2>1. [log[id] EXCEPT !.req = x] \in Logged
    BY <1>1 DEF Logged
  <2> QED BY <1>1, <1>2, <2>1 DEF Logged
<1>3. ASSUME NEW x \in Answers \cup {None}, log' = [log EXCEPT ![id].out = x]
      PROVE  /\ log' \in [Ids -> Logged]
             /\ log'[id].req = log[id].req /\ log'[id].out = x /\ log'[id].seen = log[id].seen
             /\ \A k \in Ids \ {id} : log'[k] = log[k]
  <2>1. [log[id] EXCEPT !.out = x] \in Logged
    BY <1>1 DEF Logged
  <2> QED BY <1>1, <1>3, <2>1 DEF Logged
<1>4. ASSUME NEW x \in Outcomes \cup {None}, log' = [log EXCEPT ![id].seen = x]
      PROVE  /\ log' \in [Ids -> Logged]
             /\ log'[id].req = log[id].req /\ log'[id].out = log[id].out /\ log'[id].seen = x
             /\ \A k \in Ids \ {id} : log'[k] = log[k]
  <2>1. [log[id] EXCEPT !.seen = x] \in Logged
    BY <1>1 DEF Logged
  <2> QED BY <1>1, <1>4, <2>1 DEF Logged
<1> QED BY <1>2, <1>3, <1>4

(* The effect of every step, and that it keeps the types.                      *)

\* The call of t is in the given stage after the step; all other calls are as before.
Moved(t, p, id, n) ==
    /\ call'[t].pc = p /\ call'[t].id = id /\ call'[t].sent = n
    /\ \A u \in Threads \ {t} : call'[u] = call[u]

\* A new call gets a number that no call had.
LEMMA InvokeEffect ==
    ASSUME TypeOK, NEW t \in Threads, Invoke(t)
    PROVE  /\ TypeOK' /\ UNCHANGED <<net, applied>>
           /\ \E id \in Ids :
                 /\ log[id].req = None
                 /\ Moved(t, "lock", id, 0)
                 /\ log'[id].req \in Requests /\ log'[id].seen = log[id].seen
                 /\ \A k \in Ids \ {id} : log'[k] = log[k]
<1>1. PICK id \in Ids, req \in Requests :
         /\ log[id].req = None
         /\ log' = [log EXCEPT ![id].req = req]
         /\ call' = [call EXCEPT ![t] = [pc |-> "lock", id |-> id, sent |-> 0, reply |-> None]]
  BY DEF Invoke
<1>2. [pc |-> "lock", id |-> id, sent |-> 0, reply |-> None] \in Calls
  BY KvAssumption DEF Calls, Pcs, Ids
<1>3. call' \in [Threads -> Calls]
  BY <1>1, <1>2 DEF TypeOK, Calls
<1>4. Moved(t, "lock", id, 0)
  BY <1>1 DEF TypeOK, Moved
<1>5. /\ log' \in [Ids -> Logged]
      /\ log'[id].req = req /\ log'[id].seen = log[id].seen
      /\ \A k \in Ids \ {id} : log'[k] = log[k]
  BY <1>1, OneEntry
<1>6. UNCHANGED <<rec, net, acm, lock, applied>>
  BY DEF Invoke
<1>7. TypeOK'
  BY <1>3, <1>5, <1>6 DEF TypeOK, Calls, Logged
<1> QED BY <1>1, <1>4, <1>5, <1>6, <1>7

\* The mutex is taken and the request goes out, or finds nobody.
LEMMA LockEffect ==
    ASSUME TypeOK, NEW t \in Threads, Lock(t)
    PROVE  /\ TypeOK' /\ UNCHANGED <<net, applied, log>> /\ call[t].pc = "lock"
           /\ \E p \in {"rpc", "broken"} : Moved(t, p, call[t].id, 0)
<1>1. PICK p \in {"rpc", "broken"} : GoesTo(t, p, 0, None)
  BY DEF Lock
<1>2. call' \in [Threads -> Calls] /\ Moved(t, p, call[t].id, 0)
  BY <1>1, OneCall, KvAssumption DEF Moved, Pcs
<1>3. lock' \in [{ClientOf[u] : u \in Threads} -> Threads \cup {None}]
  BY DEF Lock, TypeOK
<1>4. UNCHANGED <<rec, net, acm, log, applied>> /\ call[t].pc = "lock"
  BY DEF Lock
<1>5. TypeOK'
  BY <1>2, <1>3, <1>4 DEF TypeOK, Calls
<1> QED BY <1>2, <1>4, <1>5

\* The handler sends the first attempt, answers that it cannot, or panics.
LEMMA HandleEffect ==
    ASSUME TypeOK, OwnIds, NEW t \in Threads, Handle(t)
    PROVE  /\ TypeOK' /\ UNCHANGED <<applied, log>> /\ call[t].pc = "rpc"
           /\ \/ /\ Moved(t, "go", call[t].id, 1)
                 /\ net' = net \cup {[id |-> call[t].id, try |-> 1]}
              \/ /\ Moved(t, "reply", call[t].id, 0) /\ UNCHANGED net
                 /\ call'[t].reply = Reply(Req(t), NoAnswer("NO_CONNECTION"), FALSE)
              \/ Moved(t, "broken", call[t].id, 0) /\ UNCHANGED net
<1>1. UNCHANGED <<rec, acm, lock, log, applied>> /\ call[t].pc = "rpc"
  BY DEF Handle
<1>2. call[t].id \in Ids /\ Req(t) \in Requests
  BY <1>1, InProgress DEF Active
<1>3. CASE net' = net \cup {[id |-> call[t].id, try |-> 1]} /\ GoesTo(t, "go", 1, None)
  <2>1. call' \in [Threads -> Calls] /\ Moved(t, "go", call[t].id, 1)
    BY <1>3, OneCall, KvAssumption DEF Moved, Pcs
  <2>2. net' \subseteq [id : Ids, try : 1 .. MaxRetries + 1]
    BY <1>2, <1>3, KvAssumption DEF TypeOK
  <2> QED BY <1>1, <1>3, <2>1, <2>2 DEF TypeOK, Calls
<1>4. CASE /\ UNCHANGED net
           /\ GoesTo(t, "reply", 0, Reply(Req(t), NoAnswer("NO_CONNECTION"), FALSE))
  <2> DEFINE r == Reply(Req(t), NoAnswer("NO_CONNECTION"), FALSE)
  <2>1. r \in Replies
    BY <1>2, NoAnswerReplies, RepliesToAreReplies
  <2>2. GoesTo(t, "reply", 0, r)
    BY <1>4
  <2> HIDE DEF r
  <2>3. /\ call' \in [Threads -> Calls] /\ Moved(t, "reply", call[t].id, 0)
        /\ call'[t].reply = r
    BY <2>1, <2>2, OneCall, KvAssumption DEF Moved, Pcs
  <2> QED BY <1>1, <1>4, <2>3 DEF TypeOK, Calls, r
<1>5. CASE UNCHANGED net /\ GoesTo(t, "broken", 0, None)
  <2>1. call' \in [Threads -> Calls] /\ Moved(t, "broken", call[t].id, 0)
    BY <1>5, OneCall, KvAssumption DEF Moved, Pcs
  <2> QED BY <1>1, <1>5, <2>1 DEF TypeOK, Calls
<1> QED BY <1>3, <1>4, <1>5 DEF Handle

\* The Go client sends another attempt or gives the call up.
LEMMA TimeoutEffect ==
    ASSUME TypeOK, OwnIds, NEW t \in Threads, Timeout(t)
    PROVE  /\ TypeOK' /\ UNCHANGED <<applied, log>> /\ call[t].pc = "go"
           /\ \/ /\ call[t].sent <= MaxRetries
                 /\ Moved(t, "go", call[t].id, call[t].sent + 1)
                 /\ net' = net \cup {[id |-> call[t].id, try |-> call[t].sent + 1]}
              \/ /\ Moved(t, "reply", call[t].id, call[t].sent) /\ UNCHANGED net
                 /\ call'[t].reply = Reply(Req(t), NoAnswer("TIMEOUT"), InDoubt(Req(t), call[t].sent, "TIMEOUT"))
<1>1. UNCHANGED <<rec, acm, lock, log, applied>> /\ call[t].pc = "go"
  BY DEF Timeout
<1>2. call[t].id \in Ids /\ Req(t) \in Requests
  BY <1>1, InProgress DEF Active
<1>3. call[t].sent \in 0 .. MaxRetries + 1
  BY DEF TypeOK
<1>4. CASE call[t].sent <= MaxRetries
  <2>1. net' = net \cup {[id |-> call[t].id, try |-> call[t].sent + 1]}
        /\ GoesTo(t, "go", call[t].sent + 1, None)
    BY <1>4 DEF Timeout
  <2>2. call[t].sent + 1 \in 1 .. MaxRetries + 1
    BY <1>3, <1>4, KvAssumption
  <2>3. call' \in [Threads -> Calls] /\ Moved(t, "go", call[t].id, call[t].sent + 1)
    BY <2>1, <2>2, OneCall DEF Moved, Pcs
  <2>4. net' \subseteq [id : Ids, try : 1 .. MaxRetries + 1]
    BY <1>2, <2>1, <2>2 DEF TypeOK
  <2> QED BY <1>1, <1>4, <2>1, <2>3, <2>4 DEF TypeOK, Calls
<1>5. CASE ~(call[t].sent <= MaxRetries)
  <2> DEFINE r == Reply(Req(t), NoAnswer("TIMEOUT"), InDoubt(Req(t), call[t].sent, "TIMEOUT"))
  <2>1. UNCHANGED net /\ GoesTo(t, "reply", call[t].sent, r)
    BY <1>5 DEF Timeout
  <2>2. r \in Replies
    BY <1>2, NoAnswerReplies, RepliesToAreReplies, InDoubtType
  <2> HIDE DEF r
  <2>3. /\ call' \in [Threads -> Calls] /\ Moved(t, "reply", call[t].id, call[t].sent)
        /\ call'[t].reply = r
    BY <1>3, <2>1, <2>2, OneCall DEF Moved, Pcs
  <2> QED BY <1>1, <2>1, <2>3 DEF TypeOK, Calls, r
<1> QED BY <1>4, <1>5

\* The cluster executes a command, and the handler that waits for this attempt may
\* get the answer.
LEMMA ExecuteEffect ==
    ASSUME TypeOK, NEW cmd \in net, log[cmd.id].req # None, Execute(cmd)
    PROVE  LET req == log[cmd.id].req  a == Store!Answer(req, rec) IN
           /\ TypeOK' /\ req \in Requests /\ a \in Answers
           /\ net' = net \ {cmd}
           /\ applied' = [applied EXCEPT ![cmd.id] = IF a.code = "OK" THEN @ + 1 ELSE @]
           /\ log'[cmd.id].req = req /\ log'[cmd.id].seen = log[cmd.id].seen
           /\ log'[cmd.id].out = IF log[cmd.id].out = None THEN a ELSE log[cmd.id].out
           /\ \A k \in Ids \ {cmd.id} : log'[k] = log[k]
           /\ rec' = Store!Effect(req, cmd.id, rec)
           /\ \/ UNCHANGED call
              \/ \E t \in Threads :
                    /\ call[t].pc = "go" /\ call[t].id = cmd.id /\ call[t].sent = cmd.try
                    /\ Moved(t, "reply", cmd.id, cmd.try)
                    /\ call'[t].reply = Reply(req, a, InDoubt(req, cmd.try, a.code) /\ a.code # "OK")
<1> DEFINE req == log[cmd.id].req
           a == Store!Answer(req, rec)
           r == Reply(req, a, InDoubt(req, cmd.try, a.code) /\ a.code # "OK")
<1>1. cmd.id \in Ids /\ cmd.try \in 1 .. MaxRetries + 1
  BY DEF TypeOK
<1>2. req \in Requests
  BY <1>1 DEF TypeOK
<1>3. a \in Answers /\ rec' \in Records
  BY <1>1, <1>2, AnswerType, EffectType DEF Execute, TypeOK
<1>4. r \in Replies
  <2>1. a \in [code : {"OK"} \cup Failures, existed : BOOLEAN, record : Records \cup {None}]
    BY <1>3 DEF Answers, Failures, Codes
  <2>2. (InDoubt(req, cmd.try, a.code) /\ a.code # "OK") \in BOOLEAN
    OBVIOUS
  <2> HIDE DEF a, req
  <2> QED BY <1>2, <2>1, <2>2, ReplyType, RepliesToAreReplies
<1>5. /\ net' = net \ {cmd} /\ UNCHANGED <<acm, lock>>
      /\ rec' = Store!Effect(req, cmd.id, rec)
      /\ applied' = [applied EXCEPT ![cmd.id] = IF a.code = "OK" THEN @ + 1 ELSE @]
      /\ log' = [log EXCEPT ![cmd.id].out = IF @ = None THEN a ELSE @]
      /\ \/ UNCHANGED call
         \/ \E t \in Threads : /\ call[t].pc = "go" /\ call[t].id = cmd.id /\ call[t].sent = cmd.try
                               /\ GoesTo(t, "reply", cmd.try, r)
  BY DEF Execute
<1> HIDE DEF a, req, r
<1>6. /\ log' \in [Ids -> Logged] /\ log'[cmd.id].req = req /\ log'[cmd.id].seen = log[cmd.id].seen
      /\ log'[cmd.id].out = IF log[cmd.id].out = None THEN a ELSE log[cmd.id].out
      /\ \A k \in Ids \ {cmd.id} : log'[k] = log[k]
  <2>1. PICK x \in Answers \cup {None} : x = IF log[cmd.id].out = None THEN a ELSE log[cmd.id].out
    BY <1>1, <1>3 DEF TypeOK
  <2>2. log' = [log EXCEPT ![cmd.id].out = x]
    BY <1>5, <2>1, Zenon
  <2>3. /\ log' \in [Ids -> Logged] /\ log'[cmd.id].req = log[cmd.id].req
        /\ log'[cmd.id].seen = log[cmd.id].seen /\ log'[cmd.id].out = x
        /\ \A k \in Ids \ {cmd.id} : log'[k] = log[k]
    BY <1>1, <2>2, OneEntry
  <2> QED BY <2>1, <2>3 DEF req
<1>7. applied' \in [Ids -> Nat]
  BY <1>1, <1>5 DEF TypeOK
<1>8. /\ call' \in [Threads -> Calls]
      /\ \/ UNCHANGED call
         \/ \E t \in Threads : /\ call[t].pc = "go" /\ call[t].id = cmd.id /\ call[t].sent = cmd.try
                               /\ Moved(t, "reply", cmd.id, cmd.try) /\ call'[t].reply = r
  <2>1. CASE UNCHANGED call
    BY <2>1 DEF TypeOK, Calls
  <2>2. ASSUME NEW t \in Threads, call[t].pc = "go", call[t].id = cmd.id, call[t].sent = cmd.try,
               GoesTo(t, "reply", cmd.try, r)
        PROVE  call' \in [Threads -> Calls] /\ Moved(t, "reply", cmd.id, cmd.try) /\ call'[t].reply = r
    BY <1>1, <1>4, <2>2, OneCall DEF Moved, Pcs
  <2> QED BY <1>5, <2>1, <2>2
<1>9. TypeOK'
  BY <1>3, <1>5, <1>6, <1>7, <1>8 DEF TypeOK, Calls, Logged
<1> QED BY <1>2, <1>3, <1>5, <1>6, <1>8, <1>9 DEF a, req, r

\* The call returns.
LEMMA FinishEffect ==
    ASSUME TypeOK, OwnIds, NEW t \in Threads, Active(t), NEW x \in Outcomes, Finish(t, x)
    PROVE  /\ TypeOK' /\ UNCHANGED <<net, applied, rec>>
           /\ Moved(t, "idle", 0, 0)
           /\ log'[call[t].id].seen = x /\ log'[call[t].id].req = log[call[t].id].req
           /\ log'[call[t].id].out = log[call[t].id].out
           /\ \A k \in Ids \ {call[t].id} : log'[k] = log[k]
<1>1. call[t].id \in Ids
  BY InProgress
<1>2. /\ log' \in [Ids -> Logged] /\ log'[call[t].id].seen = x
      /\ log'[call[t].id].req = log[call[t].id].req
      /\ log'[call[t].id].out = log[call[t].id].out
      /\ \A k \in Ids \ {call[t].id} : log'[k] = log[k]
  BY <1>1, OneEntry DEF Finish
<1>3. Idle \in Calls
  BY KvAssumption DEF Idle, Calls, Pcs
<1>4. call' \in [Threads -> Calls]
  BY <1>3 DEF Finish, TypeOK, Calls
<1>5. Moved(t, "idle", 0, 0)
  BY DEF Finish, TypeOK, Moved, Idle
<1>6. lock' \in [{ClientOf[u] : u \in Threads} -> Threads \cup {None}]
  BY DEF Finish, TypeOK
<1>7. UNCHANGED <<rec, net, acm, applied>>
  BY DEF Finish
<1>8. TypeOK'
  BY <1>2, <1>4, <1>6, <1>7 DEF TypeOK, Calls, Logged
<1> QED BY <1>2, <1>5, <1>7, <1>8

\* The connection manager dies: the calls it handles are broken.
LEMMA CrashEffect ==
    ASSUME TypeOK, AcmCrash
    PROVE  /\ TypeOK' /\ UNCHANGED <<net, applied, log, rec>>
           /\ \A t \in Threads :
                 \/ call'[t] = call[t] /\ call[t].pc # "reply"
                 \/ /\ Active(t) /\ call'[t].pc = "broken"
                    /\ call'[t].id = call[t].id /\ call'[t].sent = call[t].sent
<1>1. ASSUME NEW t \in Threads
      PROVE  /\ call'[t] \in Calls
             /\ \/ call'[t] = call[t] /\ call[t].pc # "reply"
                \/ /\ Active(t) /\ call'[t].pc = "broken"
                   /\ call'[t].id = call[t].id /\ call'[t].sent = call[t].sent
  <2>1. call[t] \in Calls
    BY DEF TypeOK, Calls
  <2>2. CASE call[t].pc \in {"rpc", "go", "reply"}
    <3>1. call'[t] = [pc |-> "broken", id |-> call[t].id, sent |-> call[t].sent, reply |-> None]
      BY <2>2 DEF AcmCrash
    <3>2. call'[t] \in Calls
      BY <2>1, <3>1 DEF Calls, Pcs
    <3> QED BY <2>2, <3>1, <3>2 DEF Active
  <2>3. CASE call[t].pc \notin {"rpc", "go", "reply"}
    BY <2>1, <2>3 DEF AcmCrash
  <2> QED BY <2>2, <2>3
<1>2. call' \in [Threads -> Calls]
  <2>1. call' = [t \in Threads |-> call'[t]]
    BY DEF AcmCrash
  <2> QED BY <1>1, <2>1
<1>3. acm' \in [up : BOOLEAN, crashes : 0 .. MaxCrashes]
  BY KvAssumption DEF AcmCrash, TypeOK
<1>4. UNCHANGED <<rec, net, lock, log, applied>>
  BY DEF AcmCrash
<1>5. TypeOK'
  BY <1>2, <1>3, <1>4 DEF TypeOK, Calls
<1> QED BY <1>1, <1>4, <1>5

(* ------------------------------- induction -------------------------------- *)

\* Steps that neither send, execute nor lose a command.
LEMMA Still ==
    ASSUME UNCHANGED <<net, applied>>
    PROVE  /\ IsFiniteSet(net)' = IsFiniteSet(net)
           /\ \A id : Executions(id)' = Executions(id)
  BY DEF Executions, Pending

\* A new call has had no command, and no other call has its number.
LEMMA InvokeStep == ASSUME KvInv, NEW t \in Threads, Invoke(t) PROVE KvInv'
<1> USE DEF KvInv
<1>1. TypeOK' /\ UNCHANGED <<net, applied>>
  BY InvokeEffect
<1>2. PICK id \in Ids :
         /\ log[id].req = None
         /\ Moved(t, "lock", id, 0)
         /\ log'[id].req \in Requests /\ log'[id].seen = log[id].seen
         /\ \A k \in Ids \ {id} : log'[k] = log[k]
  BY InvokeEffect
<1>3. log'[id].req # None /\ log'[id].seen = None /\ Executions(id) = 0
  BY <1>2, NoneAssumption DEF AttemptsCounted
<1>4. \A u \in Threads \ {t} : Active(u) => call[u].id \in Ids \ {id}
  BY <1>2 DEF OwnIds
<1>5. OwnIds'
  BY <1>2, <1>3, <1>4 DEF OwnIds, Active, Moved
<1>6. AttemptsCounted'
  BY <1>1, <1>2, <1>3, <1>4, Still DEF AttemptsCounted, Active, Moved
<1>7. RepliesTrue'
  BY <1>1, <1>2, <1>4, Still DEF RepliesTrue, Tells, Active, Moved, Req
<1>8. CertainFailures' /\ Successes'
  BY <1>1, <1>2, <1>3, Still DEF CertainFailures, Successes
<1> QED BY <1>1, <1>5, <1>6, <1>7, <1>8

\* Locking sends nothing.
LEMMA LockStep == ASSUME KvInv, NEW t \in Threads, Lock(t) PROVE KvInv'
<1> USE DEF KvInv
<1>1. TypeOK' /\ UNCHANGED <<net, applied, log>> /\ call[t].pc = "lock"
  BY LockEffect
<1>2. PICK p \in {"rpc", "broken"} : Moved(t, p, call[t].id, 0)
  BY LockEffect
<1>3. OwnIds'
  BY <1>1, <1>2 DEF OwnIds, Active, Moved
<1>4. AttemptsCounted'
  BY <1>1, <1>2, Still DEF AttemptsCounted, Active, Moved
<1>5. RepliesTrue'
  BY <1>1, <1>2, Still DEF RepliesTrue, Tells, Moved, Req
<1>6. CertainFailures' /\ Successes'
  BY <1>1, Still DEF CertainFailures, Successes
<1> QED BY <1>1, <1>3, <1>4, <1>5, <1>6

\* An attempt that is sent is counted for its own call alone.
LEMMA SendStep ==
    ASSUME KvInv, TypeOK', NEW t \in Threads, call[t].pc \in {"rpc", "go"},
           call[t].sent + 1 <= MaxRetries + 1,
           Moved(t, "go", call[t].id, call[t].sent + 1),
           net' = net \cup {[id |-> call[t].id, try |-> call[t].sent + 1]},
           UNCHANGED <<applied, log>>
    PROVE  KvInv'
<1> USE DEF KvInv
<1>1. Active(t) /\ call[t].id \in Ids /\ log[call[t].id].seen = None /\ log[call[t].id].req # None
  BY DEF Active, OwnIds
<1>2. /\ IsFiniteSet(net')
      /\ Executions(call[t].id)' \in Nat /\ Executions(call[t].id)' <= Executions(call[t].id) + 1
      /\ \A k \in Ids \ {call[t].id} : Executions(k)' = Executions(k)
  <2>1. PICK id \in Ids : id = call[t].id /\ id = call'[t].id
    BY <1>1 DEF Moved
  <2>2. PICK n : n = call[t].sent + 1
    OBVIOUS
  <2>3. net' = net \cup {[id |-> id, try |-> n]} /\ UNCHANGED applied /\ TypeOK /\ IsFiniteSet(net)
    BY <2>1, <2>2 DEF AttemptsCounted
  <2>4. /\ IsFiniteSet(net')
        /\ Executions(id)' \in Nat /\ Executions(id)' <= Executions(id) + 1
        /\ \A k \in Ids \ {id} : Executions(k)' = Executions(k)
    BY <2>3, SendCounts
  <2> HIDE DEF KvInv
  <2>5. Executions(id) = Executions(call[t].id) /\ Executions(id)' = Executions(call[t].id)'
    BY <2>1 DEF Executions, Pending
  <2> QED BY <2>1, <2>4, <2>5
<1>3. \A u \in Threads \ {t} : Active(u) => call[u].id \in Ids \ {call[t].id}
  BY <1>1 DEF OwnIds
<1>4. Executions(call[t].id) \in Nat /\ Executions(call[t].id) <= call[t].sent /\ call[t].sent \in Nat
  BY <1>1, ExecutionsType DEF AttemptsCounted, TypeOK
<1>5. Executions(call[t].id)' <= call[t].sent + 1 /\ Executions(call[t].id)' <= MaxRetries + 1
  BY <1>2, <1>4, KvAssumption
<1>6. OwnIds'
  BY DEF OwnIds, Active, Moved
<1>7. AttemptsCounted'
  <2>1. call[t].sent + 1 >= 1
    BY <1>4
  <2> QED BY <1>1, <1>2, <1>3, <1>5, <2>1 DEF AttemptsCounted, Active, Moved
<1>8. RepliesTrue'
  BY <1>2, <1>3 DEF RepliesTrue, Tells, Active, Moved, Req
<1>9. CertainFailures' /\ Successes'
  BY <1>1, <1>2 DEF CertainFailures, Successes
<1> QED BY <1>6, <1>7, <1>8, <1>9

\* A handler that answers for itself, with an error, says so truly: either it has
\* sent nothing, or it says that a write is in doubt.
LEMMA GiveUpStep ==
    ASSUME KvInv, TypeOK', NEW t \in Threads, Active(t),
           NEW code \in {"TIMEOUT", "NO_CONNECTION"}, NEW d \in BOOLEAN,
           Moved(t, "reply", call[t].id, call[t].sent),
           call'[t].reply = Reply(Req(t), NoAnswer(code), d),
           ~d => Req(t).op \in Store!Reads \/ Executions(call[t].id) = 0,
           UNCHANGED <<net, applied, log>>
    PROVE  KvInv'
<1> USE DEF KvInv
<1> DEFINE p == Reply(Req(t), NoAnswer(code), d)
<1>1. Req(t) \in Requests /\ call[t].id \in Ids
  BY InProgress
<1>2. p \in RepliesTo(Req(t))
  BY <1>1, NoAnswerReplies
<1>3. p.error = FromError(code, d) /\ (Req(t).op \notin Writes => p.record = None)
  BY DEF Reply, NoAnswer
<1>4. FromError(code, d) # None /\ FromError(code, d).in_doubt = d /\ FromError(code, d).result_code # "OK"
  BY NoneAssumption DEF FromError, Errors, Failures
<1>5. ~Succeeded(Req(t), p)
  BY <1>3, <1>4 DEF Succeeded
<1>6. Req(t).op \in {"get", "get_header"} => ~(p.error = None) /\ ~(p.record # None)
  BY <1>3, <1>4 DEF Writes
<1>7. ~p.error.in_doubt => Req(t).op \in Store!Reads \/ Executions(call[t].id) = 0
  BY <1>3, <1>4
<1> HIDE DEF p
<1>8. call'[t].reply = p
  BY DEF p
<1>9. RepliesTrue'
  BY <1>2, <1>5, <1>6, <1>7, <1>8, Still DEF RepliesTrue, Tells, Moved, Req
<1>10. OwnIds'
  BY DEF OwnIds, Active, Moved
<1>11. AttemptsCounted'
  BY Still DEF AttemptsCounted, Active, Moved
<1>12. CertainFailures' /\ Successes'
  BY Still DEF CertainFailures, Successes
<1> QED BY <1>9, <1>10, <1>11, <1>12

\* A call that breaks off sends nothing more.
LEMMA BreakStep ==
    ASSUME KvInv, TypeOK', UNCHANGED <<net, applied, log>>,
           \A t \in Threads :
              \/ call'[t] = call[t]
              \/ /\ Active(t) /\ call'[t].pc = "broken"
                 /\ call'[t].id = call[t].id /\ call'[t].sent = call[t].sent
    PROVE  KvInv'
<1> USE DEF KvInv
<1>1. OwnIds'
  BY DEF OwnIds, Active
<1>2. AttemptsCounted'
  BY Still DEF AttemptsCounted, Active
<1>3. RepliesTrue'
  BY Still DEF RepliesTrue, Tells, Req
<1>4. CertainFailures' /\ Successes'
  BY Still DEF CertainFailures, Successes
<1> QED BY <1>1, <1>2, <1>3, <1>4

\* Before the handler has sent anything the count is zero.
LEMMA HandleStep == ASSUME KvInv, NEW t \in Threads, Handle(t) PROVE KvInv'
<1> USE DEF KvInv
<1>1. TypeOK' /\ UNCHANGED <<applied, log>> /\ call[t].pc = "rpc" /\ Active(t)
  BY HandleEffect DEF Active
<1>2. call[t].sent = 0 /\ call[t].id \in Ids /\ Executions(call[t].id) = 0
  <2>1. call[t].sent = 0 /\ call[t].id \in Ids /\ Executions(call[t].id) <= 0
    BY <1>1 DEF AttemptsCounted, OwnIds
  <2>2. Executions(call[t].id) \in Nat
    BY <2>1, ExecutionsType DEF AttemptsCounted
  <2> QED BY <2>1, <2>2
<1>3. CASE /\ Moved(t, "go", call[t].id, 1)
           /\ net' = net \cup {[id |-> call[t].id, try |-> 1]}
  <2>1. call[t].sent + 1 = 1 /\ 1 <= MaxRetries + 1
    BY <1>2, KvAssumption
  <2> QED BY <1>1, <1>3, <2>1, SendStep
<1>4. CASE /\ Moved(t, "reply", call[t].id, 0) /\ UNCHANGED net
           /\ call'[t].reply = Reply(Req(t), NoAnswer("NO_CONNECTION"), FALSE)
  BY <1>1, <1>2, <1>4, GiveUpStep
<1>5. CASE Moved(t, "broken", call[t].id, 0) /\ UNCHANGED net
  BY <1>1, <1>2, <1>5, BreakStep DEF Moved
<1> QED BY <1>3, <1>4, <1>5, HandleEffect

\* An attempt that is given up may be executed later, and a write is then in doubt.
LEMMA TimeoutStep == ASSUME KvInv, NEW t \in Threads, Timeout(t) PROVE KvInv'
<1> USE DEF KvInv
<1>1. TypeOK' /\ UNCHANGED <<applied, log>> /\ call[t].pc = "go" /\ Active(t)
  BY TimeoutEffect DEF Active
<1>2. call[t].sent \in Nat /\ call[t].sent >= 1
  BY <1>1 DEF AttemptsCounted, TypeOK
<1>3. CASE /\ call[t].sent <= MaxRetries
           /\ Moved(t, "go", call[t].id, call[t].sent + 1)
           /\ net' = net \cup {[id |-> call[t].id, try |-> call[t].sent + 1]}
  <2>1. call[t].sent + 1 <= MaxRetries + 1
    BY <1>2, <1>3, KvAssumption
  <2> QED BY <1>1, <1>3, <2>1, SendStep
<1>4. CASE /\ Moved(t, "reply", call[t].id, call[t].sent) /\ UNCHANGED net
           /\ call'[t].reply = Reply(Req(t), NoAnswer("TIMEOUT"), InDoubt(Req(t), call[t].sent, "TIMEOUT"))
  <2>1. ~InDoubt(Req(t), call[t].sent, "TIMEOUT") => Req(t).op \in Store!Reads
    BY <1>2 DEF InDoubt
  <2>2. PICK d \in BOOLEAN : d = InDoubt(Req(t), call[t].sent, "TIMEOUT")
    BY InDoubtType
  <2>3. /\ ~d => Req(t).op \in Store!Reads
        /\ call'[t].reply = Reply(Req(t), NoAnswer("TIMEOUT"), d)
    BY <1>4, <2>1, <2>2
  <2> QED BY <1>1, <1>4, <2>3, GiveUpStep
<1> QED BY <1>3, <1>4, TimeoutEffect

\* The cluster executes a command or the network loses it: nothing that was true of
\* the other calls changes, and the calls that have a response keep it.
LEMMA TakeStep ==
    ASSUME KvInv, TypeOK', NEW cmd \in net, NEW success \in BOOLEAN,
           net' = net \ {cmd},
           applied' = [applied EXCEPT ![cmd.id] = IF success THEN @ + 1 ELSE @],
           \A k \in Ids : log'[k].req = log[k].req /\ log'[k].seen = log[k].seen
    PROVE  /\ IsFiniteSet(net')
           /\ cmd.id \in Ids /\ log[cmd.id].req # None
           /\ \A k \in Ids : /\ Executions(k) \in Nat /\ Executions(k)' \in Nat
                             /\ Executions(k)' <= Executions(k)
                             /\ applied[k] \in Nat /\ applied'[k] \in Nat
                             /\ applied'[k] >= applied[k]
                             /\ Executions(k) = 0 => Executions(k)' = 0
           /\ success => applied'[cmd.id] >= 1
           /\ ~success => Executions(cmd.id)' <= Executions(cmd.id) - 1
           /\ CertainFailures' /\ Successes'
<1> USE DEF KvInv
<1>1. /\ IsFiniteSet(net') /\ cmd.id \in Ids
      /\ Executions(cmd.id)' = IF success THEN Executions(cmd.id) ELSE Executions(cmd.id) - 1
      /\ \A k \in Ids \ {cmd.id} : Executions(k)' = Executions(k) /\ applied'[k] = applied[k]
  BY TakeCounts DEF AttemptsCounted
<1>2. \A k \in Ids : Executions(k) \in Nat /\ applied[k] \in Nat
  BY ExecutionsType DEF AttemptsCounted
<1>3. Executions(cmd.id) >= applied[cmd.id] + 1
  BY <1>1, ExecutionsType DEF AttemptsCounted
<1>4. log[cmd.id].req # None
  BY <1>1, <1>2, <1>3 DEF AttemptsCounted
<1>5. applied'[cmd.id] = IF success THEN applied[cmd.id] + 1 ELSE applied[cmd.id]
  BY <1>1 DEF TypeOK
<1>6. ASSUME NEW k \in Ids
      PROVE  /\ Executions(k)' \in Nat /\ Executions(k)' <= Executions(k)
             /\ applied'[k] \in Nat /\ applied'[k] >= applied[k]
             /\ Executions(k) = 0 => Executions(k)' = 0
  <2> HIDE DEF KvInv
  <2>1. CASE k = cmd.id
    BY <1>1, <1>2, <1>3, <1>5, <2>1
  <2>2. CASE k # cmd.id
    BY <1>1, <1>2, <2>2
  <2> QED BY <2>1, <2>2
<1>7. success => applied'[cmd.id] >= 1
  BY <1>1, <1>2, <1>5
<1>8. CertainFailures'
  BY <1>6 DEF CertainFailures
<1>9. Successes'
  BY <1>2, <1>6 DEF Successes
<1> QED BY <1>1, <1>2, <1>4, <1>6, <1>7, <1>8, <1>9

\* Calls stay accounted for when their numbers of executions do not grow.
LEMMA CountsShrink ==
    ASSUME TypeOK, TypeOK', OwnIds, AttemptsCounted, IsFiniteSet(net'),
           \A k \in Ids : /\ Executions(k) \in Nat /\ Executions(k)' \in Nat
                          /\ Executions(k)' <= Executions(k)
                          /\ log'[k].req = log[k].req /\ log'[k].seen = log[k].seen,
           \A t \in Threads : /\ Active(t)' => Active(t)
                              /\ call'[t].id = call[t].id /\ call'[t].sent = call[t].sent
                              /\ call'[t].pc = call[t].pc \/ call'[t].pc = "reply"
    PROVE  AttemptsCounted'
<1>1. ASSUME NEW k \in Ids
      PROVE  /\ Executions(k)' <= MaxRetries + 1
             /\ log'[k].req = None => Executions(k)' = 0 /\ log'[k].seen = None
  <2>1. Executions(k) <= MaxRetries + 1 /\ (log[k].req = None => Executions(k) = 0 /\ log[k].seen = None)
    BY DEF AttemptsCounted
  <2> QED BY <2>1, KvAssumption
<1>2. ASSUME NEW t \in Threads, Active(t)'
      PROVE  /\ Executions(call[t].id)' <= call'[t].sent
             /\ call'[t].pc = "go" => call'[t].sent >= 1
             /\ call'[t].pc \in {"lock", "rpc"} => call'[t].sent = 0
  <2>1. Active(t) /\ call[t].id \in Ids
    BY <1>2 DEF OwnIds
  <2>2. PICK id \in Ids : id = call[t].id /\ id = call'[t].id
    BY <2>1
  <2>3. /\ Executions(id) <= call[t].sent
        /\ call[t].pc = "go" => call[t].sent >= 1
        /\ call[t].pc \in {"lock", "rpc"} => call[t].sent = 0
    BY <2>1, <2>2 DEF AttemptsCounted
  <2>4. call[t].sent \in Nat
    BY DEF TypeOK
  <2>5. Executions(id)' <= call'[t].sent
    BY <2>3, <2>4
  <2>6. Executions(id)' = Executions(call[t].id)'
    BY <2>2 DEF Executions, Pending
  <2> QED BY <2>3, <2>5, <2>6
<1> QED BY <1>1, <1>2 DEF AttemptsCounted

\* A response stays true while executions get fewer.
LEMMA RepliesKept ==
    ASSUME TypeOK, OwnIds, RepliesTrue, NEW t \in Threads,
           call'[t] = call[t],
           \A k \in Ids : /\ Executions(k) = 0 => Executions(k)' = 0
                          /\ applied'[k] \in Nat /\ applied'[k] >= applied[k] 
                          /\ log'[k].req = log[k].req
    PROVE  call'[t].pc = "reply" => Tells(Req(t), call[t].reply, call[t].id)'
<1> SUFFICES ASSUME call[t].pc = "reply" PROVE Tells(Req(t), call[t].reply, call[t].id)'
  OBVIOUS
<1>1. PICK id \in Ids : id = call[t].id /\ id = call'[t].id
  BY DEF OwnIds, Active
<1>2. PICK p : p = call[t].reply /\ p = call'[t].reply
  OBVIOUS
<1>3. PICK req : req = log[id].req /\ req = log'[id].req
  BY <1>1
<1>4. Tells(req, p, id)
  BY <1>1, <1>2, <1>3 DEF RepliesTrue, Req
<1>5. applied[id] \in Nat /\ applied'[id] \in Nat /\ applied'[id] >= applied[id] /\ (Executions(id) = 0 => Executions(id)' = 0)
  BY <1>1 DEF TypeOK
<1>6. Tells(req, p, id)'
  BY <1>4, <1>5 DEF Tells, Succeeded
<1>7. req = Req(t)'
  BY <1>1, <1>3 DEF Req
<1> QED BY <1>1, <1>2, <1>6, <1>7 DEF Tells, Executions, Pending, Succeeded

\* A lost command is one execution less that is possible.
LEMMA LoseStep == ASSUME KvInv, NEW cmd \in net, Lose(cmd) PROVE KvInv'
<1> USE DEF KvInv
<1>1. net' = net \ {cmd} /\ UNCHANGED <<rec, acm, lock, call, log, applied>>
  BY DEF Lose
<1>2. TypeOK'
  BY <1>1 DEF TypeOK
<1>3. applied' = [applied EXCEPT ![cmd.id] = IF FALSE THEN @ + 1 ELSE @]
  BY <1>1 DEF TypeOK
<1>4. /\ IsFiniteSet(net')
      /\ \A k \in Ids : /\ Executions(k) \in Nat /\ Executions(k)' \in Nat
                        /\ Executions(k)' <= Executions(k)
                        /\ Executions(k) = 0 => Executions(k)' = 0
      /\ CertainFailures' /\ Successes'
  <2>1. \A k \in Ids : log'[k].req = log[k].req /\ log'[k].seen = log[k].seen
    BY <1>1
  <2> QED BY <1>1, <1>2, <1>3, <2>1, TakeStep
<1>5. OwnIds'
  BY <1>1 DEF OwnIds, Active
<1>6. AttemptsCounted'
  <2>1. \A t \in Threads : /\ Active(t)' => Active(t)
                           /\ call'[t].id = call[t].id /\ call'[t].sent = call[t].sent
                           /\ call'[t].pc = call[t].pc \/ call'[t].pc = "reply"
    BY <1>1 DEF Active
  <2>2. \A k \in Ids : log'[k].req = log[k].req /\ log'[k].seen = log[k].seen
    BY <1>1
  <2> QED BY <1>2, <1>4, <2>1, <2>2, CountsShrink
<1>7. RepliesTrue'
  <2>1. \A t \in Threads : call'[t] = call[t]
    BY <1>1
  <2>2. \A k \in Ids : applied'[k] >= applied[k] /\ log'[k].req = log[k].req
    BY <1>1 DEF TypeOK
  <2>3. \A k \in Ids : applied'[k] \in Nat
    BY <1>2 DEF TypeOK
  <2> QED BY <1>4, <2>1, <2>2, <2>3, RepliesKept DEF RepliesTrue
<1> QED BY <1>2, <1>4, <1>5, <1>6, <1>7

\* The response to an answer of the cluster succeeds as the cluster says, and its
\* error is as certain as the Go client says.
LEMMA AnswerTold ==
    ASSUME NEW req \in Requests, NEW a \in Answers, NEW d \in BOOLEAN,
           req.op \in {"get", "get_header"} => (a.code = "OK" <=> a.record # None)
    PROVE  LET p == Reply(req, a, d) IN
           /\ p \in RepliesTo(req)
           /\ req.op \in {"get", "get_header"} => (p.error = None <=> p.record # None)
           /\ Succeeded(req, p) <=> a.code = "OK"
           /\ ~Succeeded(req, p) => p.error.in_doubt = d
<1> DEFINE p == Reply(req, a, d)
<1>1. a \in [code : {"OK"} \cup Failures, existed : BOOLEAN, record : Records \cup {None}]
  BY DEF Answers, Failures, Codes
<1>2. p \in RepliesTo(req)
  BY <1>1, ReplyType
<1>3. /\ FromError(a.code, d) \in Errors /\ FromError(a.code, d) # None
      /\ FromError(a.code, d).result_code = a.code /\ FromError(a.code, d).in_doubt = d
  <2>1. FromError(a.code, d) \in Errors
    BY <1>1 DEF FromError, Errors
  <2> QED BY <2>1, NoneAssumption DEF FromError
<1>4. CASE req.op \in Writes
  <2>1. p.error = FromError(a.code, d)
    BY <1>4 DEF Reply
  <2> QED BY <1>2, <1>3, <1>4, <2>1 DEF Succeeded, Writes
<1>5. CASE req.op \notin Writes
  <2>1. p.error = (IF a.code = "OK" THEN None ELSE FromError(a.code, d)) /\ p.record = a.record
    BY <1>5 DEF Reply
  <2> HIDE DEF p
  <2>2. Succeeded(req, p) <=> a.code = "OK"
    BY <1>3, <1>5, <2>1 DEF Succeeded
  <2>3. req.op \in {"get", "get_header"} => (p.error = None <=> p.record # None)
    BY <1>3, <2>1
  <2>4. ~Succeeded(req, p) => p.error.in_doubt = d
    BY <1>3, <2>1, <2>2
  <2> QED BY <1>2, <2>2, <2>3, <2>4 DEF p
<1> QED BY <1>4, <1>5

\* An executed command is counted as before if the cluster accepts it, and no longer
\* otherwise.  An error of the only attempt is certain: nothing was executed and no
\* command is left.
LEMMA ExecuteStep == ASSUME KvInv, NEW cmd \in net, Execute(cmd) PROVE KvInv'
<1> DEFINE id == cmd.id
           req == log[id].req
           a == Store!Answer(req, rec)
           d == InDoubt(req, cmd.try, a.code) /\ a.code # "OK"
<1>0. TypeOK /\ OwnIds /\ AttemptsCounted /\ RepliesTrue /\ CertainFailures /\ Successes
  BY DEF KvInv
<1>1. id \in Ids /\ req # None
  <2>1. id \in Ids
    BY <1>0 DEF TypeOK
  <2>2. Executions(id) \in Nat /\ applied[id] \in Nat /\ Executions(id) >= applied[id] + 1
    BY <1>0, <2>1, ExecutionsType DEF AttemptsCounted
  <2>3. req = None => Executions(id) = 0
    BY <1>0, <2>1 DEF AttemptsCounted
  <2> QED BY <2>1, <2>2, <2>3
<1>2. /\ TypeOK' /\ req \in Requests /\ a \in Answers
      /\ net' = net \ {cmd}
      /\ applied' = [applied EXCEPT ![cmd.id] = IF a.code = "OK" THEN @ + 1 ELSE @]
      /\ log'[id].req = req /\ log'[id].seen = log[id].seen
      /\ \A k \in Ids \ {id} : log'[k] = log[k]
      /\ \/ UNCHANGED call
         \/ \E t \in Threads :
               /\ call[t].pc = "go" /\ call[t].id = id /\ call[t].sent = cmd.try
               /\ Moved(t, "reply", id, cmd.try)
               /\ call'[t].reply = Reply(req, a, d)
  BY <1>0, <1>1, ExecuteEffect
<1>3. req.op \in {"get", "get_header"} => (a.code = "OK" <=> a.record # None)
  BY <1>0, <1>2, AnswerType DEF TypeOK
<1>4. PICK ok \in BOOLEAN : ok = (a.code = "OK")
  OBVIOUS
<1>5. cmd.try \in Nat /\ cmd.try >= 1
  BY <1>0 DEF TypeOK
<1> HIDE DEF id, req, a, d
<1>6. \A k \in Ids : log'[k].req = log[k].req /\ log'[k].seen = log[k].seen
  BY <1>2 DEF req
<1>7. applied' = [applied EXCEPT ![cmd.id] = IF ok THEN @ + 1 ELSE @]
  BY <1>2, <1>4
<1>8. /\ IsFiniteSet(net')
      /\ \A k \in Ids : /\ Executions(k) \in Nat /\ Executions(k)' \in Nat
                        /\ Executions(k)' <= Executions(k)
                        /\ applied[k] \in Nat /\ applied'[k] \in Nat
                        /\ applied'[k] >= applied[k]
                        /\ Executions(k) = 0 => Executions(k)' = 0
      /\ ok => applied'[id] >= 1
      /\ ~ok => Executions(id)' <= Executions(id) - 1
      /\ CertainFailures' /\ Successes'
  BY <1>2, <1>6, <1>7, TakeStep DEF id
<1>9. CASE UNCHANGED call
  <2>1. OwnIds'
    BY <1>0, <1>6, <1>9 DEF OwnIds, Active
  <2>2. \A t \in Threads : /\ Active(t)' => Active(t)
                           /\ call'[t].id = call[t].id /\ call'[t].sent = call[t].sent
                           /\ call'[t].pc = call[t].pc \/ call'[t].pc = "reply"
    BY <1>9 DEF Active
  <2>3. AttemptsCounted'
    BY <1>0, <1>2, <1>6, <1>8, <2>2, CountsShrink
  <2>4. \A t \in Threads : call'[t] = call[t]
    BY <1>9
  <2>5. RepliesTrue'
    BY <1>0, <1>6, <1>8, <2>4, RepliesKept DEF RepliesTrue
  <2> QED BY <1>2, <1>8, <2>1, <2>3, <2>5 DEF KvInv
<1>10. ASSUME NEW t \in Threads, call[t].pc = "go", call[t].id = id, call[t].sent = cmd.try,
              Moved(t, "reply", id, cmd.try), call'[t].reply = Reply(req, a, d)
       PROVE  KvInv'
  <2>1. /\ call'[t].pc = "reply" /\ call'[t].id = id /\ call'[t].sent = cmd.try
        /\ \A u \in Threads \ {t} : call'[u] = call[u]
    BY <1>10 DEF Moved
  <2>2. OwnIds'
    BY <1>0, <1>6, <1>10, <2>1 DEF OwnIds, Active
  <2>3. \A u \in Threads : /\ Active(u)' => Active(u)
                           /\ call'[u].id = call[u].id /\ call'[u].sent = call[u].sent
                           /\ call'[u].pc = call[u].pc \/ call'[u].pc = "reply"
    BY <1>10, <2>1 DEF Active
  <2>4. AttemptsCounted'
    BY <1>0, <1>2, <1>6, <1>8, <2>3, CountsShrink
  <2>5. PICK b \in BOOLEAN : b = d
    BY DEF d
  <2>6. PICK p : p = Reply(req, a, b)
    OBVIOUS
  <2>7. /\ p \in RepliesTo(req)
        /\ req.op \in {"get", "get_header"} => (p.error = None <=> p.record # None)
        /\ Succeeded(req, p) <=> a.code = "OK"
        /\ ~Succeeded(req, p) => p.error.in_doubt = b
    BY <1>2, <1>3, <2>6, AnswerTold
  <2>8. ~ok /\ req.op \notin Store!Reads /\ ~b => Executions(id)' = 0
    <3> SUFFICES ASSUME ~ok, req.op \notin Store!Reads, ~b PROVE Executions(id)' = 0
      OBVIOUS
    <3>0. ~InDoubt(req, cmd.try, a.code)
      BY <1>4, <2>5, Zenon DEF d
    <3>1. cmd.try = 1
      BY <1>5, <3>0 DEF InDoubt
    <3>2. Active(t) /\ call[t].sent = 1
      BY <1>10, <3>1 DEF Active
    <3>3. Executions(call[t].id) <= 1
      BY <1>0, <3>2 DEF AttemptsCounted
    <3>4. Executions(id) <= 1
      BY <1>10, <3>3
    <3> QED BY <1>1, <1>8, <3>4
  <2>9. PICK q : q = req
    OBVIOUS
  <2>10. Tells(Req(t), call[t].reply, call[t].id)'
    <3>1. q = Req(t)' /\ p = call'[t].reply /\ id = call'[t].id
      BY <1>2, <1>10, <2>1, <2>5, <2>6, <2>9 DEF Req
    <3>2. /\ p \in RepliesTo(q)
          /\ q.op \in {"get", "get_header"} => (p.error = None <=> p.record # None)
          /\ Succeeded(q, p) => applied'[id] >= 1
          /\ ~Succeeded(q, p) /\ q.op \notin Store!Reads /\ ~p.error.in_doubt => Executions(id)' = 0
      BY <1>4, <1>8, <2>7, <2>8, <2>9
    <3>3. Tells(q, p, cmd.id)'
      BY <3>2 DEF Tells, Succeeded, id
    <3> QED BY <3>1, <3>3 DEF Tells, Succeeded, Executions, Pending, id
  <2>11. RepliesTrue'
    <3>1. ASSUME NEW u \in Threads, u # t
          PROVE  call'[u].pc = "reply" => Tells(Req(u), call[u].reply, call[u].id)'
      BY <1>0, <1>6, <1>8, <2>1, <3>1, RepliesKept
    <3> QED BY <2>10, <3>1 DEF RepliesTrue
  <2> QED BY <1>2, <1>8, <2>2, <2>4, <2>11 DEF KvInv
<1> QED BY <1>2, <1>9, <1>10

\* A call that returns keeps the invariant if what it returns is true.
LEMMA FinishStep ==
    ASSUME KvInv, NEW t \in Threads, Active(t), NEW x \in Outcomes, Finish(t, x),
           x.kind = "ok" => applied[call[t].id] >= 1,
           x.kind = "aerospike" /\ ~x.in_doubt /\ Req(t).op \notin Store!Reads
              => Executions(call[t].id) = 0
    PROVE  KvInv'
<1>0. TypeOK /\ OwnIds /\ AttemptsCounted /\ RepliesTrue /\ CertainFailures /\ Successes
  BY DEF KvInv
<1>1. PICK id \in Ids : id = call[t].id /\ Req(t) = log[id].req
  BY <1>0, InProgress DEF Req
<1>2. /\ TypeOK' /\ UNCHANGED <<net, applied, rec>>
      /\ Moved(t, "idle", 0, 0)
      /\ log'[id].seen = x /\ log'[id].req = log[id].req
      /\ \A k \in Ids \ {id} : log'[k] = log[k]
  BY <1>0, <1>1, FinishEffect
<1>3. \A k \in Ids : log'[k].req = log[k].req
  BY <1>2
<1>4. \A u \in Threads \ {t} : /\ call'[u] = call[u]
                               /\ Active(u) => call[u].id \in Ids \ {id}
  BY <1>0, <1>1, <1>2 DEF Moved, OwnIds
<1>5. call'[t].pc = "idle"
  BY <1>2 DEF Moved
<1>6. OwnIds'
  BY <1>0, <1>2, <1>3, <1>4, <1>5 DEF OwnIds, Active
<1>7. log[id].req # None
  BY <1>0, <1>1 DEF OwnIds
<1>8. AttemptsCounted'
  BY <1>0, <1>2, <1>4, <1>5, <1>7, Still DEF AttemptsCounted, Active
<1>9. RepliesTrue'
  <2>1. ASSUME NEW u \in Threads \ {t}, call'[u].pc = "reply"
        PROVE  Tells(Req(u), call[u].reply, call[u].id)'
    <3>1. /\ \A k \in Ids : applied'[k] \in Nat /\ applied'[k] >= applied[k]
          /\ \A k \in Ids : Executions(k) = 0 => Executions(k)' = 0
      BY <1>0, <1>2, Still DEF TypeOK
    <3> QED BY <1>0, <1>3, <1>4, <2>1, <3>1, RepliesKept
  <2> QED BY <1>5, <2>1 DEF RepliesTrue
<1>10. Successes'
  BY <1>0, <1>1, <1>2 DEF Successes
<1>11. CertainFailures'
  BY <1>0, <1>1, <1>2, Still DEF CertainFailures
<1> QED BY <1>2, <1>6, <1>8, <1>9, <1>10, <1>11 DEF KvInv

\* What the application sees of a response is as true as the response.
LEMMA ReturnStep == ASSUME KvInv, NEW t \in Threads, Return(t) PROVE KvInv'
<1> DEFINE id == call[t].id
           req == Req(t)
           p == call[t].reply
           x == Result(req, p)
<1>0. TypeOK /\ OwnIds /\ RepliesTrue
  BY DEF KvInv
<1>1. Active(t) /\ call[t].pc = "reply" /\ Finish(t, x)
  BY DEF Return, Active
<1>2. req \in Requests /\ Tells(req, p, id)
  BY <1>0, <1>1, InProgress DEF RepliesTrue
<1> HIDE DEF id, req, p, x
<1>3. x \in Outcomes
  BY <1>2, ResultType DEF Tells, x
<1>4. req.op \in Writes \/ req.op \in Store!Reads \/ req.op = "delete"
  BY <1>2, RequestsAssumption
<1>5. CASE req.op \in Writes
  <2>1. x = IF Succeeded(req, p) THEN [kind |-> "ok"] ELSE Exception(p.error)
    BY <1>5 DEF x, Result, Succeeded, Writes
  <2>2. x.kind = "ok" => applied[id] >= 1
    BY <1>2, <2>1 DEF Tells, Exception
  <2>3. x.kind = "aerospike" => x = Exception(p.error) /\ ~Succeeded(req, p)
    BY <2>1
  <2>4. x.kind = "aerospike" /\ ~x.in_doubt /\ req.op \notin Store!Reads => Executions(id) = 0
    BY <1>2, <2>3 DEF Tells, Exception
  <2> QED BY <1>1, <1>3, <2>2, <2>4, FinishStep DEF id, req
<1>6. CASE req.op \in Store!Reads
  <2>1. x.kind # "ok"
    BY <1>6 DEF x, Result, Exception, Writes, Store!Reads
  <2> QED BY <1>1, <1>3, <1>6, <2>1, FinishStep DEF id, req
<1>7. CASE req.op = "delete"
  <2>1. x = IF Succeeded(req, p) THEN [kind |-> "bool", value |-> TRUE] ELSE Exception(p.error)
    BY <1>7 DEF x, Result, Succeeded, Writes
  <2>2. x.kind # "ok"
    BY <2>1 DEF Exception
  <2>3. x.kind = "aerospike" => x = Exception(p.error) /\ ~Succeeded(req, p)
    BY <2>1
  <2>4. x.kind = "aerospike" /\ ~x.in_doubt /\ req.op \notin Store!Reads => Executions(id) = 0
    BY <1>2, <2>3 DEF Tells, Exception
  <2> QED BY <1>1, <1>3, <2>2, <2>4, FinishStep DEF id, req
<1> QED BY <1>4, <1>5, <1>6, <1>7

\* A gRPC error says nothing of the call.
LEMMA ReturnBrokenStep == ASSUME KvInv, NEW t \in Threads, ReturnBroken(t) PROVE KvInv'
<1>1. [kind |-> "exception"] \in Outcomes
  BY DEF Outcomes
<1>2. Active(t) /\ Finish(t, [kind |-> "exception"])
  BY DEF ReturnBroken, Active
<1> QED BY <1>1, <1>2, FinishStep

LEMMA KvInvariant == Spec => []KvInv
<1>1. ASSUME KvInv, [Next]_vars PROVE KvInv'
  <2>1. ASSUME NEW t \in Threads, Invoke(t) \/ Step(t) \/ Timeout(t) PROVE KvInv'
    BY <1>1, <2>1, InvokeStep, LockStep, HandleStep, ReturnStep, ReturnBrokenStep, TimeoutStep DEF Step
  <2>2. ASSUME NEW cmd \in net, Execute(cmd) \/ Lose(cmd) PROVE KvInv'
    BY <1>1, <2>2, ExecuteStep, LoseStep
  <2>3. CASE AcmCrash
    <3>1. TypeOK
      BY <1>1 DEF KvInv
    <3> QED BY <1>1, <2>3, <3>1, CrashEffect, BreakStep
  <2>4. CASE AcmRestart
    <3>1. TypeOK /\ OwnIds /\ AttemptsCounted /\ RepliesTrue /\ CertainFailures /\ Successes
      BY <1>1 DEF KvInv
    <3>2. UNCHANGED <<rec, net, lock, call, log, applied>>
      BY <2>4 DEF AcmRestart
    <3>3. TypeOK'
      BY <2>4, <3>1 DEF AcmRestart, TypeOK
    <3>4. \A t \in Threads : call'[t] = call[t]
      BY <3>2
    <3> QED BY <1>1, <3>2, <3>3, <3>4, BreakStep
  <2>5. CASE UNCHANGED vars
    <3>1. TypeOK'
      BY <1>1, <2>5 DEF KvInv, TypeOK, vars
    <3>2. \A t \in Threads : call'[t] = call[t]
      BY <2>5 DEF vars
    <3>3. UNCHANGED <<net, applied, log>>
      BY <2>5 DEF vars
    <3> QED BY <1>1, <3>1, <3>2, <3>3, BreakStep
  <2> QED BY <1>1, <2>1, <2>2, <2>3, <2>4, <2>5 DEF Next, Finished
<1> QED BY <1>1, InitInv, PTL DEF Spec

(* -------------------------------- theorems -------------------------------- *)

\* Variables keep their types, and no response of get and get_header reaches the
\* arm of the code marked unreachable (lib.rs 9842, 9881).
THEOREM TypeCorrect == Spec => []TypeOK
<1>1. KvInv => TypeOK
  BY DEF KvInv
<1> QED BY <1>1, KvInvariant, PTL

\* An AerospikeException that is not in doubt is true of a write for any number of
\* retries: the cluster has not executed it and never will.
THEOREM CertainErrorsAreTrue == Spec => []CertainErrorHasNoEffect
<1>1. ASSUME KvInv PROVE CertainErrorHasNoEffect
  <2>1. \A id \in Ids : Executions(id) = 0 => applied[id] = 0 /\ Pending(id) = {}
    BY <1>1, ExecutionsType DEF KvInv, AttemptsCounted
  <2> QED BY <1>1, <2>1 DEF KvInv, CertainFailures, CertainErrorHasNoEffect, Pending
<1> QED BY <1>1, KvInvariant, PTL

\* A write that returned normally was executed, and at most once per attempt that
\* the policy allows.
THEOREM SuccessesAreTrue == Spec => []SuccessWasExecuted
<1>1. ASSUME KvInv PROVE SuccessWasExecuted
  <2>1. ASSUME NEW id \in Ids
        PROVE  /\ applied[id] \in Nat /\ Executions(id) \in Nat
               /\ applied[id] <= Executions(id) /\ Executions(id) <= MaxRetries + 1
    BY <1>1, ExecutionsType DEF KvInv, AttemptsCounted
  <2>2. ASSUME NEW id \in Ids, applied[id] >= 1 PROVE applied[id] \in 1 .. MaxRetries + 1
    BY <2>1, <2>2, KvAssumption
  <2> QED BY <1>1, <2>2 DEF KvInv, Successes, SuccessWasExecuted
<1> QED BY <1>1, KvInvariant, PTL

(* ------------------- without retries: one atomic step -------------------- *)

(* --------------------------- inductive invariant -------------------------- *)

\* A call that nothing was sent for, and a call whose command is on its way, have
\* had no answer of the cluster.
NoAnswerYet ==
    /\ \A id \in Ids : log[id].req = None => log[id].out = None
    /\ \A cmd \in net : log[cmd.id].out = None
    /\ \A t \in Threads : Active(t) /\ call[t].sent = 0 => log[call[t].id].out = None

\* A response passes on the one answer of the cluster, or the handler answered for
\* itself: before it sent anything, or after its timeout, in doubt for a write.
Told(req, p, out, sent) ==
    \/ out # None /\ p = Reply(req, out, FALSE)
    \/ sent = 0 /\ p = Reply(req, NoAnswer("NO_CONNECTION"), FALSE)
    \/ p = Reply(req, NoAnswer("TIMEOUT"), req.op \notin Store!Reads)

RepliesTold ==
    \A t \in Threads : call[t].pc = "reply" =>
        Told(Req(t), call[t].reply, log[call[t].id].out, call[t].sent)

\* A command that is still on its way when its call has returned is a read, or the
\* application was left in doubt.
LateOnlyInDoubt ==
    \A cmd \in net :
        log[cmd.id].seen # None => Store!IsRead(log[cmd.id].req) \/ Store!Uncertain(log[cmd.id].seen)

AtomicInv == KvInv /\ NoAnswerYet /\ RepliesTold /\ LateOnlyInDoubt

(* --------------------- steps that the store does not see ------------------- *)

StoreStep == [Store!Next]_(Store!vars)

\* The record and the log are as before.
LEMMA Stutter == ASSUME UNCHANGED <<rec, log>> PROVE StoreStep
  BY DEF StoreStep, Store!vars

\* Calls go on without sending anything and without a response.
LEMMA QuietStep ==
    ASSUME AtomicInv, UNCHANGED log, net' \subseteq net,
           \A t \in Threads :
              Active(t)' =>
                 /\ Active(t) /\ call'[t].id = call[t].id /\ call'[t].sent = call[t].sent
                 /\ call'[t].pc = "reply" => call'[t] = call[t]
    PROVE  (NoAnswerYet /\ RepliesTold /\ LateOnlyInDoubt)'
<1>1. NoAnswerYet'
  BY DEF AtomicInv, NoAnswerYet
<1>2. RepliesTold'
  BY DEF AtomicInv, RepliesTold, Active, Req
<1>3. LateOnlyInDoubt'
  BY DEF AtomicInv, LateOnlyInDoubt
<1> QED BY <1>1, <1>2, <1>3

\* The mutex is taken.
LEMMA LockAtomic ==
    ASSUME AtomicInv, NEW t \in Threads, Lock(t)
    PROVE  (NoAnswerYet /\ RepliesTold /\ LateOnlyInDoubt)' /\ StoreStep
<1>0. TypeOK /\ OwnIds /\ AttemptsCounted
  BY DEF AtomicInv, KvInv
<1>1. UNCHANGED <<net, rec, log>> /\ call[t].pc = "lock"
  BY DEF Lock
<1>2. PICK p \in {"rpc", "broken"} : Moved(t, p, call[t].id, 0)
  BY <1>0, LockEffect
<1>3. Active(t) /\ call[t].sent = 0
  BY <1>0, <1>1 DEF Active, AttemptsCounted
<1>4. \A u \in Threads :
         Active(u)' =>
            /\ Active(u) /\ call'[u].id = call[u].id /\ call'[u].sent = call[u].sent
            /\ call'[u].pc = "reply" => call'[u] = call[u]
  BY <1>2, <1>3 DEF Moved, Active
<1> QED BY <1>1, <1>4, QuietStep, Stutter

\* The first and only attempt is sent for a call that has had no answer.
LEMMA SendAtomic ==
    ASSUME AtomicInv, NEW t \in Threads, Active(t), call[t].sent = 0,
           UNCHANGED log, Moved(t, "go", call[t].id, 1),
           net' = net \cup {[id |-> call[t].id, try |-> 1]}
    PROVE  (NoAnswerYet /\ RepliesTold /\ LateOnlyInDoubt)'
<1>0. PICK cmd : cmd = [id |-> call[t].id, try |-> 1]
  OBVIOUS
<1>1. cmd.id = call[t].id /\ net' = net \cup {cmd}
  BY <1>0
<1>2. log[cmd.id].out = None /\ log[cmd.id].seen = None
  BY <1>1 DEF AtomicInv, NoAnswerYet, KvInv, OwnIds
<1>3. call'[t].pc = "go" /\ call'[t].sent = 1 /\ \A u \in Threads \ {t} : call'[u] = call[u]
  BY DEF Moved
<1>4. NoAnswerYet'
  BY <1>1, <1>2, <1>3 DEF AtomicInv, NoAnswerYet, Active
<1>5. RepliesTold'
  BY <1>3 DEF AtomicInv, RepliesTold, Req
<1>6. LateOnlyInDoubt'
  BY <1>1, <1>2 DEF AtomicInv, LateOnlyInDoubt
<1> QED BY <1>4, <1>5, <1>6

\* The handler answers for itself.
LEMMA GiveUpAtomic ==
    ASSUME AtomicInv, NEW t \in Threads, Active(t), UNCHANGED <<net, log>>,
           Moved(t, "reply", call[t].id, call[t].sent),
           Told(Req(t), call'[t].reply, log[call[t].id].out, call[t].sent)
    PROVE  (NoAnswerYet /\ RepliesTold /\ LateOnlyInDoubt)'
<1>1. /\ call'[t].id = call[t].id /\ call'[t].sent = call[t].sent
      /\ \A u \in Threads \ {t} : call'[u] = call[u]
  BY DEF Moved
<1>2. NoAnswerYet'
  BY <1>1 DEF AtomicInv, NoAnswerYet, Active
<1>3. RepliesTold'
  BY <1>1 DEF AtomicInv, RepliesTold, Req
<1>4. LateOnlyInDoubt'
  BY DEF AtomicInv, LateOnlyInDoubt
<1> QED BY <1>2, <1>3, <1>4

\* The handler starts.
LEMMA HandleAtomic ==
    ASSUME AtomicInv, NEW t \in Threads, Handle(t)
    PROVE  (NoAnswerYet /\ RepliesTold /\ LateOnlyInDoubt)' /\ StoreStep
<1>0. TypeOK /\ OwnIds /\ AttemptsCounted
  BY DEF AtomicInv, KvInv
<1>1. UNCHANGED <<rec, log>> /\ call[t].pc = "rpc"
  BY DEF Handle
<1>2. Active(t) /\ call[t].sent = 0
  BY <1>0, <1>1 DEF Active, AttemptsCounted
<1>3. CASE /\ Moved(t, "go", call[t].id, 1)
           /\ net' = net \cup {[id |-> call[t].id, try |-> 1]}
  BY <1>1, <1>2, <1>3, SendAtomic, Stutter
<1>4. CASE /\ Moved(t, "reply", call[t].id, 0) /\ UNCHANGED net
           /\ call'[t].reply = Reply(Req(t), NoAnswer("NO_CONNECTION"), FALSE)
  BY <1>1, <1>2, <1>4, GiveUpAtomic, Stutter DEF Told
<1>5. CASE Moved(t, "broken", call[t].id, 0) /\ UNCHANGED net
  <2>1. \A u \in Threads :
           Active(u)' =>
              /\ Active(u) /\ call'[u].id = call[u].id /\ call'[u].sent = call[u].sent
              /\ call'[u].pc = "reply" => call'[u] = call[u]
    BY <1>2, <1>5 DEF Moved, Active
  <2> QED BY <1>1, <1>5, <2>1, QuietStep, Stutter
<1> QED BY <1>0, <1>3, <1>4, <1>5, HandleEffect

\* The only attempt is given up: a write is in doubt.
LEMMA TimeoutAtomic ==
    ASSUME MaxRetries = 0, AtomicInv, NEW t \in Threads, Timeout(t)
    PROVE  (NoAnswerYet /\ RepliesTold /\ LateOnlyInDoubt)' /\ StoreStep
<1>0. TypeOK /\ OwnIds /\ AttemptsCounted
  BY DEF AtomicInv, KvInv
<1>1. UNCHANGED <<rec, log>> /\ call[t].pc = "go" /\ Active(t)
  BY DEF Timeout, Active
<1>2. call[t].sent = 1
  <2>1. call[t].sent \in 0 .. MaxRetries + 1 /\ call[t].sent >= 1
    BY <1>0, <1>1 DEF AttemptsCounted, TypeOK
  <2> QED BY <2>1
<1>3. ~(call[t].sent <= MaxRetries)
  BY <1>2
<1>4. /\ Moved(t, "reply", call[t].id, call[t].sent) /\ UNCHANGED net
      /\ call'[t].reply = Reply(Req(t), NoAnswer("TIMEOUT"), InDoubt(Req(t), call[t].sent, "TIMEOUT"))
  BY <1>0, <1>3, TimeoutEffect
<1>5. InDoubt(Req(t), call[t].sent, "TIMEOUT") = (Req(t).op \notin Store!Reads)
  BY <1>2 DEF InDoubt
<1>6. Told(Req(t), call'[t].reply, log[call[t].id].out, call[t].sent)
  BY <1>4, <1>5 DEF Told
<1> QED BY <1>1, <1>4, <1>6, GiveUpAtomic, Stutter

(* ------------------------- steps that the store sees ----------------------- *)

\* A call starts.
LEMMA InvokeAtomic ==
    ASSUME AtomicInv, NEW t \in Threads, Invoke(t)
    PROVE  (NoAnswerYet /\ RepliesTold /\ LateOnlyInDoubt)' /\ StoreStep
<1>0. TypeOK /\ OwnIds /\ AttemptsCounted
  BY DEF AtomicInv, KvInv
<1>1. PICK id \in Ids, req \in Requests :
         /\ log[id].req = None
         /\ log' = [log EXCEPT ![id].req = req]
         /\ call' = [call EXCEPT ![t] = [pc |-> "lock", id |-> id, sent |-> 0, reply |-> None]]
  BY DEF Invoke
<1>2. UNCHANGED <<rec, net>>
  BY DEF Invoke
<1>3. /\ log'[id].req = req /\ log'[id].out = log[id].out /\ log'[id].seen = log[id].seen
      /\ \A k \in Ids \ {id} : log'[k] = log[k]
  BY <1>0, <1>1, OneEntry
<1>4. /\ call'[t].pc = "lock" /\ call'[t].id = id
      /\ \A u \in Threads \ {t} : call'[u] = call[u]
  BY <1>0, <1>1 DEF TypeOK
<1>5. log[id].out = None /\ log[id].seen = None
  BY <1>0, <1>1 DEF AtomicInv, NoAnswerYet, AttemptsCounted
<1>6. \A u \in Threads \ {t} : Active(u) => call[u].id \in Ids \ {id}
  BY <1>0, <1>1 DEF OwnIds
<1>7. \A cmd \in net : cmd.id \in Ids
  BY <1>0 DEF TypeOK
<1>8. NoAnswerYet'
  BY <1>2, <1>3, <1>4, <1>5, <1>6, <1>7 DEF AtomicInv, NoAnswerYet, Active
<1>9. RepliesTold'
  BY <1>3, <1>4, <1>6 DEF AtomicInv, RepliesTold, Req, Active
<1>10. LateOnlyInDoubt'
  BY <1>2, <1>3, <1>5, <1>7 DEF AtomicInv, LateOnlyInDoubt
<1>11. Store!Invoke(id)
  BY <1>1, <1>2 DEF Store!Invoke
<1> QED BY <1>8, <1>9, <1>10, <1>11 DEF StoreStep, Store!Next

\* The cluster executes the command of a call: that is the one step of the call.
LEMMA ExecuteAtomic ==
    ASSUME MaxRetries = 0, AtomicInv, NEW cmd \in net, Execute(cmd)
    PROVE  (NoAnswerYet /\ RepliesTold /\ LateOnlyInDoubt)' /\ StoreStep
<1> DEFINE req == log[cmd.id].req
           a == Store!Answer(req, rec)
           d == InDoubt(req, cmd.try, a.code) /\ a.code # "OK"
<1>0. TypeOK /\ OwnIds /\ AttemptsCounted
  BY DEF AtomicInv, KvInv
<1>1. cmd.id \in Ids /\ cmd.try = 1
  BY <1>0 DEF TypeOK
<1>2. req # None
  <2>1. Executions(cmd.id) \in Nat /\ applied[cmd.id] \in Nat /\ Executions(cmd.id) >= applied[cmd.id] + 1
    BY <1>0, <1>1, ExecutionsType DEF AttemptsCounted
  <2>2. req = None => Executions(cmd.id) = 0
    BY <1>0, <1>1 DEF AttemptsCounted
  <2> QED BY <2>1, <2>2
<1>3. log[cmd.id].out = None
  BY DEF AtomicInv, NoAnswerYet
<1>4. /\ req \in Requests /\ a \in Answers /\ net' = net \ {cmd}
      /\ log'[cmd.id].req = req /\ log'[cmd.id].seen = log[cmd.id].seen
      /\ log'[cmd.id].out = a
      /\ \A k \in Ids \ {cmd.id} : log'[k] = log[k]
      /\ rec' = Store!Effect(req, cmd.id, rec)
      /\ \/ UNCHANGED call
         \/ \E t \in Threads :
               /\ call[t].pc = "go" /\ call[t].id = cmd.id /\ call[t].sent = cmd.try
               /\ Moved(t, "reply", cmd.id, cmd.try)
               /\ call'[t].reply = Reply(req, a, d)
  BY <1>0, <1>1, <1>2, <1>3, ExecuteEffect
<1>5. d = FALSE
  <2>1. a.code # "TIMEOUT"
    BY <1>4 DEF Answers, Codes
  <2> QED BY <1>1, <2>1 DEF InDoubt
<1>6. Store!Apply(cmd.id)
  <2>1. log' = [log EXCEPT ![cmd.id].out = a]
    <3>1. log' = [log EXCEPT ![cmd.id].out = IF @ = None THEN a ELSE @]
      BY DEF Execute
    <3> HIDE DEF a
    <3> QED BY <1>3, <3>1
  <2>2. log[cmd.id].seen # None => Store!IsRead(req) \/ Store!Uncertain(log[cmd.id].seen)
    BY DEF AtomicInv, LateOnlyInDoubt
  <2> QED BY <1>2, <1>3, <1>4, <2>1, <2>2, Zenon DEF Store!Apply
<1> HIDE DEF a, req, d
<1>7. \A c \in net' : c \in net /\ c.id \in Ids \ {cmd.id}
  <2>1. ASSUME NEW c \in net, c.id = cmd.id PROVE c = cmd
    BY <1>0, <1>1, <2>1 DEF TypeOK
  <2> QED BY <1>0, <1>4, <2>1 DEF TypeOK
<1>8. LateOnlyInDoubt'
  BY <1>4, <1>7 DEF AtomicInv, LateOnlyInDoubt
<1>9. \A t \in Threads : Active(t) /\ call[t].sent = 0 => call[t].id \in Ids \ {cmd.id}
  <2> SUFFICES ASSUME NEW t \in Threads, Active(t), call[t].sent = 0 PROVE call[t].id \in Ids \ {cmd.id}
    OBVIOUS
  <2>1. call[t].id \in Ids /\ Executions(call[t].id) <= 0
    BY <1>0 DEF OwnIds, AttemptsCounted
  <2>2. Executions(cmd.id) \in Nat /\ applied[cmd.id] \in Nat /\ Executions(cmd.id) >= applied[cmd.id] + 1
    BY <1>0, <1>1, ExecutionsType DEF AttemptsCounted
  <2> QED BY <2>1, <2>2
<1>10. \A t \in Threads : Active(t) => call[t].id \in Ids
  BY <1>0 DEF OwnIds
<1>11. a # None
  BY <1>4, NoneAssumption
<1>12. \A k \in Ids : log'[k].req = log[k].req
  BY <1>4 DEF req
<1>13. \A t \in Threads :
          call[t].pc = "reply" => Told(Req(t), call[t].reply, log'[call[t].id].out, call[t].sent)
  <2> SUFFICES ASSUME NEW t \in Threads, call[t].pc = "reply"
               PROVE  Told(Req(t), call[t].reply, log'[call[t].id].out, call[t].sent)
    OBVIOUS
  <2>1. Told(Req(t), call[t].reply, log[call[t].id].out, call[t].sent)
    BY DEF AtomicInv, RepliesTold
  <2>2. CASE call[t].id = cmd.id
    BY <1>3, <2>1, <2>2 DEF Told
  <2>3. CASE call[t].id # cmd.id
    BY <1>4, <1>10, <2>1, <2>3 DEF Active
  <2> QED BY <2>2, <2>3
<1>14. CASE UNCHANGED call
  <2>1. NoAnswerYet'
    BY <1>2, <1>4, <1>7, <1>9, <1>14 DEF AtomicInv, NoAnswerYet, Active, req
  <2>2. RepliesTold'
    BY <1>10, <1>12, <1>13, <1>14 DEF RepliesTold, Req, Active
  <2> QED BY <1>1, <1>6, <1>8, <2>1, <2>2 DEF StoreStep, Store!Next
<1>15. ASSUME NEW t \in Threads, call[t].pc = "go", call[t].id = cmd.id, call[t].sent = cmd.try,
              Moved(t, "reply", cmd.id, cmd.try), call'[t].reply = Reply(req, a, d)
       PROVE  (NoAnswerYet /\ RepliesTold /\ LateOnlyInDoubt)' /\ StoreStep
  <2>1. /\ call'[t].id = cmd.id /\ call'[t].sent = 1
        /\ \A u \in Threads \ {t} : call'[u] = call[u]
    BY <1>1, <1>15 DEF Moved
  <2>2. NoAnswerYet'
    BY <1>2, <1>4, <1>7, <1>9, <2>1 DEF AtomicInv, NoAnswerYet, Active, req
  <2>3. Told(req, call'[t].reply, log'[cmd.id].out, 1)
    BY <1>4, <1>5, <1>11, <1>15 DEF Told
  <2>4. RepliesTold'
    <3>1. ASSUME NEW u \in Threads, call'[u].pc = "reply"
          PROVE  Told(Req(u)', call'[u].reply, log'[call'[u].id].out, call'[u].sent)
      <4>1. CASE u = t
        BY <1>4, <2>1, <2>3, <4>1 DEF Req
      <4>2. CASE u # t
        BY <1>10, <1>12, <1>13, <2>1, <3>1, <4>2 DEF Req, Active
      <4> QED BY <4>1, <4>2
    <3> QED BY <3>1 DEF RepliesTold, Told
  <2> QED BY <1>1, <1>6, <1>8, <2>2, <2>4 DEF StoreStep, Store!Next
<1> QED BY <1>4, <1>14, <1>15

\* A lost command is no step of the store.
LEMMA LoseAtomic ==
    ASSUME AtomicInv, NEW cmd \in net, Lose(cmd)
    PROVE  (NoAnswerYet /\ RepliesTold /\ LateOnlyInDoubt)' /\ StoreStep
<1>1. net' \subseteq net /\ UNCHANGED <<rec, call, log>>
  BY DEF Lose
<1>2. \A t \in Threads :
         Active(t)' =>
            /\ Active(t) /\ call'[t].id = call[t].id /\ call'[t].sent = call[t].sent
            /\ call'[t].pc = "reply" => call'[t] = call[t]
  BY <1>1 DEF Active
<1> QED BY <1>1, <1>2, QuietStep, Stutter

(* What the application may see of its call: the answer, a plain exception, or  *)
(* an error of the connection manager.                                         *)

OwnErrors == [kind : {"aerospike"}, code : {"TIMEOUT", "NO_CONNECTION"}, in_doubt : BOOLEAN]

Sees(req, out) ==
    (IF out = None THEN {} ELSE Store!Visible(req, out)) \cup {[kind |-> "exception"]} \cup OwnErrors

\* A response that passes on an answer is seen as that answer.
LEMMA AnswerSeen ==
    ASSUME NEW req \in Requests, NEW a \in Answers,
           req.op \in {"get", "get_header"} => (a.code = "OK" <=> a.record # None)
    PROVE  Result(req, Reply(req, a, FALSE)) \in Store!Visible(req, a)
<1> DEFINE p == Reply(req, a, FALSE)
           e == FromError(a.code, FALSE)
           x == Result(req, p)
<1>1. /\ e # None /\ e.result_code = a.code /\ e.in_doubt = FALSE
      /\ Exception(e) = [kind |-> "aerospike", code |-> a.code, in_doubt |-> FALSE]
  <2>1. e \in Errors
    BY DEF FromError, Errors, Answers, Failures, Codes
  <2> QED BY <2>1, NoneAssumption DEF FromError, Exception
<1>2. req.op \in Writes \/ req.op \in {"get", "get_header"} \/ req.op = "exists" \/ req.op = "delete"
  BY RequestsAssumption DEF Store!Reads
<1>3. CASE req.op \in Writes
  <2>1. p.error = e
    BY <1>3 DEF Reply
  <2>2. x = IF p.error.result_code = "OK" THEN [kind |-> "ok"] ELSE Exception(p.error)
    BY <1>3 DEF Result, Writes
  <2> HIDE DEF p, e, x
  <2>3. x = IF a.code = "OK" THEN [kind |-> "ok"]
            ELSE [kind |-> "aerospike", code |-> a.code, in_doubt |-> FALSE]
    BY <1>1, <2>1, <2>2
  <2> QED BY <1>3, <2>3 DEF Store!Visible, Writes, x, p
<1>4. req.op \notin Writes => /\ p.error = IF a.code = "OK" THEN None ELSE e
                              /\ p.record = a.record /\ p.flag = a.existed
  BY DEF Reply
<1>5. CASE req.op \in {"get", "get_header"}
  <2>1. p.error = (IF a.code = "OK" THEN None ELSE e) /\ p.record = a.record
    BY <1>4, <1>5 DEF Writes
  <2>2. x = IF p.error = None /\ p.record # None THEN [kind |-> "record", record |-> p.record]
            ELSE IF p.error = FromError("KEY_NOT_FOUND", FALSE) /\ p.record = None THEN [kind |-> "none"]
            ELSE IF p.error # None /\ p.record = None THEN Exception(p.error)
            ELSE [kind |-> "panic"]
    BY <1>5 DEF Result, Writes
  <2>3. e = FromError("KEY_NOT_FOUND", FALSE) <=> a.code = "KEY_NOT_FOUND"
    BY DEF FromError
  <2> HIDE DEF p, e, x
  <2>4. CASE a.code = "OK"
    BY <1>5, <2>1, <2>2, <2>4 DEF Store!Visible, x, p
  <2>5. CASE a.code = "KEY_NOT_FOUND"
    <3>1. x = [kind |-> "none"]
      BY <1>1, <1>5, <2>1, <2>2, <2>3, <2>5
    <3> QED BY <1>5, <2>5, <3>1 DEF Store!Visible, x, p
  <2>6. CASE a.code \notin {"OK", "KEY_NOT_FOUND"}
    <3>1. x = Exception(e)
      BY <1>1, <1>5, <2>1, <2>2, <2>3, <2>6
    <3> QED BY <1>1, <1>5, <2>6, <3>1 DEF Store!Visible, x, p
  <2> QED BY <2>4, <2>5, <2>6
<1>6. CASE req.op = "exists"
  <2>1. p.error = (IF a.code = "OK" THEN None ELSE e) /\ p.flag = a.existed
    BY <1>4, <1>6 DEF Writes
  <2>2. x = IF p.error = None THEN [kind |-> "bool", value |-> p.flag] ELSE Exception(p.error)
    BY <1>6 DEF Result, Writes
  <2> HIDE DEF p, e, x
  <2>3. x = IF a.code = "OK" THEN [kind |-> "bool", value |-> a.existed] ELSE Exception(e)
    BY <1>1, <2>1, <2>2
  <2> QED BY <1>1, <1>6, <2>3 DEF Store!Visible, x, p
<1>7. CASE req.op = "delete"
  <2>1. p.error = (IF a.code = "OK" THEN None ELSE e)
    BY <1>4, <1>7 DEF Writes
  <2>2. x = IF p.error = None THEN [kind |-> "bool", value |-> TRUE] ELSE Exception(p.error)
    BY <1>7 DEF Result, Writes
  <2> HIDE DEF p, e, x
  <2>3. x = IF a.code = "OK" THEN [kind |-> "bool", value |-> TRUE] ELSE Exception(e)
    BY <1>1, <2>1, <2>2
  <2> QED BY <1>1, <1>7, <2>3 DEF Store!Visible, x, p
<1> QED BY <1>2, <1>3, <1>5, <1>6, <1>7

\* A response of the handler itself is seen as an error with its flag.
LEMMA OwnErrorSeen ==
    ASSUME NEW req \in Requests, NEW code \in {"TIMEOUT", "NO_CONNECTION"}, NEW d \in BOOLEAN
    PROVE  Result(req, Reply(req, NoAnswer(code), d)) = [kind |-> "aerospike", code |-> code, in_doubt |-> d]
<1> DEFINE p == Reply(req, NoAnswer(code), d)
           e == FromError(code, d)
           x == Result(req, p)
<1>1. /\ e # None /\ e.result_code = code
      /\ Exception(e) = [kind |-> "aerospike", code |-> code, in_doubt |-> d]
  <2>1. e \in Errors
    BY DEF FromError, Errors, Failures
  <2> QED BY <2>1, NoneAssumption DEF FromError, Exception
<1>2. p.error = e /\ (req.op \notin Writes => p.record = None)
  BY DEF Reply, NoAnswer
<1>3. e # FromError("KEY_NOT_FOUND", FALSE)
  BY DEF FromError
<1>4. req.op \in Writes \/ req.op \in {"get", "get_header"} \/ req.op = "exists" \/ req.op = "delete"
  BY RequestsAssumption DEF Store!Reads
<1> HIDE DEF p, e
<1>5. x = Exception(e)
  BY <1>1, <1>2, <1>3, <1>4 DEF Result, Writes
<1> QED BY <1>1, <1>5 DEF p

\* A call returns what it may, and leaves no command behind unless that is in doubt.
LEMMA FinishAtomic ==
    ASSUME AtomicInv, NEW t \in Threads, Active(t), NEW x \in Outcomes, Finish(t, x),
           x \in Sees(Req(t), log[call[t].id].out),
           (x.kind = "aerospike" /\ x.code \in {"TIMEOUT", "NO_CONNECTION"} /\ ~x.in_doubt)
              => log[call[t].id].out = None \/ Store!IsRead(Req(t)),
           Pending(call[t].id) # {} => Store!IsRead(Req(t)) \/ Store!Uncertain(x)
    PROVE  (NoAnswerYet /\ RepliesTold /\ LateOnlyInDoubt)' /\ StoreStep
<1>0. TypeOK /\ OwnIds
  BY DEF AtomicInv, KvInv
<1>1. PICK id \in Ids : id = call[t].id /\ Req(t) = log[id].req
  BY <1>0, InProgress DEF Req
<1>2. /\ UNCHANGED <<net, rec>>
      /\ Moved(t, "idle", 0, 0)
      /\ log'[id].seen = x /\ log'[id].req = log[id].req /\ log'[id].out = log[id].out
      /\ \A k \in Ids \ {id} : log'[k] = log[k]
  BY <1>0, <1>1, FinishEffect
<1>3. log[id].req # None /\ log[id].seen = None
  BY <1>0, <1>1 DEF OwnIds
<1>4. \A u \in Threads \ {t} : /\ call'[u] = call[u]
                               /\ Active(u) => call[u].id \in Ids \ {id}
  BY <1>0, <1>1, <1>2 DEF Moved, OwnIds
<1>5. call'[t].pc = "idle"
  BY <1>2 DEF Moved
<1>6. \A cmd \in net : cmd.id \in Ids
  BY <1>0 DEF TypeOK
<1>7. NoAnswerYet'
  BY <1>2, <1>3, <1>4, <1>5, <1>6 DEF AtomicInv, NoAnswerYet, Active
<1>8. RepliesTold'
  BY <1>2, <1>4, <1>5 DEF AtomicInv, RepliesTold, Req, Active
<1>9. LateOnlyInDoubt'
  <2>1. ASSUME NEW cmd \in net, cmd.id = id PROVE Store!IsRead(log[id].req) \/ Store!Uncertain(x)
    BY <1>1, <2>1 DEF Pending
  <2> QED BY <1>2, <1>6, <2>1 DEF AtomicInv, LateOnlyInDoubt, Store!IsRead, Store!Uncertain
<1>10. Store!Return(id)
  <2>1. log' = [log EXCEPT ![id].seen = x]
    BY <1>1 DEF Finish
  <2>2. x \in (IF log[id].out = None THEN {} ELSE Store!Visible(log[id].req, log[id].out))
              \cup {[kind |-> "exception"]}
              \cup [kind : {"aerospike"}, code : {"TIMEOUT", "NO_CONNECTION"}, in_doubt : BOOLEAN]
    BY <1>1, Zenon DEF Sees, OwnErrors
  <2>3. (x.kind = "aerospike" /\ x.code \in {"TIMEOUT", "NO_CONNECTION"} /\ ~x.in_doubt)
           => log[id].out = None \/ Store!IsRead(log[id].req)
    BY <1>1
  <2> QED BY <1>2, <1>3, <2>1, <2>2, <2>3, Zenon DEF Store!Return
<1> QED BY <1>7, <1>8, <1>9, <1>10 DEF StoreStep, Store!Next

\* A response is seen for what it is.
LEMMA ReturnAtomic ==
    ASSUME AtomicInv, NEW t \in Threads, Return(t)
    PROVE  (NoAnswerYet /\ RepliesTold /\ LateOnlyInDoubt)' /\ StoreStep
<1> DEFINE id == call[t].id
           req == Req(t)
           out == log[id].out
           p == call[t].reply
           x == Result(req, p)
<1>0. TypeOK /\ OwnIds /\ AttemptsCounted
  BY DEF AtomicInv, KvInv
<1>1. Active(t) /\ call[t].pc = "reply" /\ Finish(t, x)
  BY DEF Return, Active
<1>2. req \in Requests /\ id \in Ids
  BY <1>0, <1>1, InProgress
<1>3. Tells(req, p, id)
  BY <1>1 DEF AtomicInv, KvInv, RepliesTrue
<1>4. x \in Outcomes
  BY <1>2, <1>3, ResultType DEF Tells
<1>5. Told(req, p, out, call[t].sent)
  BY <1>1 DEF AtomicInv, RepliesTold
<1>6. out \in Answers \cup {None}
  BY <1>0, <1>2 DEF TypeOK
<1>7. Pending(id) # {} => out = None
  BY DEF AtomicInv, NoAnswerYet, Pending
<1>8. call[t].sent = 0 => out = None /\ Pending(id) = {}
  <2>1. call[t].sent = 0 => out = None
    BY <1>1 DEF AtomicInv, NoAnswerYet
  <2>2. call[t].sent = 0 => Executions(id) <= 0
    BY <1>0, <1>1 DEF AttemptsCounted
  <2>3. Executions(id) \in Nat /\ (Executions(id) = 0 => Pending(id) = {})
    BY <1>0, <1>2, ExecutionsType DEF AttemptsCounted
  <2> QED BY <2>1, <2>2, <2>3
<1> HIDE DEF id, req, out, p, x
<1>9. CASE out # None /\ p = Reply(req, out, FALSE)
  <2>1. out \in Answers
    BY <1>6, <1>9
  <2>2. req.op \in {"get", "get_header"} => (out.code = "OK" <=> out.record # None)
    <3> SUFFICES ASSUME req.op \in {"get", "get_header"} PROVE out.code = "OK" <=> out.record # None
      OBVIOUS
    <3>1. p.error = None <=> p.record # None
      BY <1>3 DEF Tells
    <3>2. p.error = (IF out.code = "OK" THEN None ELSE FromError(out.code, FALSE)) /\ p.record = out.record
      BY <1>9 DEF Reply, Writes
    <3>3. FromError(out.code, FALSE) \in Errors
      BY <2>1 DEF FromError, Errors, Answers, Failures, Codes
    <3> QED BY <3>1, <3>2, <3>3, NoneAssumption
  <2>3. x \in Store!Visible(req, out)
    BY <1>2, <1>9, <2>1, <2>2, AnswerSeen DEF x
  <2>4. x \in Sees(req, out)
    BY <1>9, <2>3 DEF Sees
  <2>5. ~(x.kind = "aerospike" /\ x.code \in {"TIMEOUT", "NO_CONNECTION"})
    <3>1. out.code \notin {"TIMEOUT", "NO_CONNECTION"}
      BY <2>1 DEF Answers, Codes
    <3> QED BY <2>3, <3>1 DEF Store!Visible
  <2> QED BY <1>1, <1>4, <1>7, <1>9, <2>4, <2>5, FinishAtomic DEF id, req, out
<1>10. CASE call[t].sent = 0 /\ p = Reply(req, NoAnswer("NO_CONNECTION"), FALSE)
  <2>1. x = [kind |-> "aerospike", code |-> "NO_CONNECTION", in_doubt |-> FALSE]
    BY <1>2, <1>10, OwnErrorSeen DEF x
  <2>2. x \in Sees(req, out)
    BY <2>1, Zenon DEF Sees, OwnErrors
  <2> QED BY <1>1, <1>4, <1>8, <1>10, <2>2, FinishAtomic DEF id, req, out
<1>11. CASE p = Reply(req, NoAnswer("TIMEOUT"), req.op \notin Store!Reads)
  <2>1. PICK d \in BOOLEAN : d = (req.op \notin Store!Reads)
    OBVIOUS
  <2>2. x = [kind |-> "aerospike", code |-> "TIMEOUT", in_doubt |-> d]
    BY <1>2, <1>11, <2>1, OwnErrorSeen DEF x
  <2>3. x \in Sees(req, out)
    <3>1. x \in OwnErrors
      BY <2>2, Zenon DEF OwnErrors
    <3> QED BY <3>1 DEF Sees
  <2>4. x.kind = "aerospike" /\ x.in_doubt = d
    BY <2>2
  <2>5. Store!IsRead(req) \/ Store!Uncertain(x)
    BY <2>1, <2>4 DEF Store!IsRead, Store!Uncertain
  <2>6. ~x.in_doubt => Store!IsRead(req)
    BY <2>1, <2>4 DEF Store!IsRead
  <2> QED BY <1>1, <1>4, <2>3, <2>5, <2>6, FinishAtomic DEF id, req, out
<1> QED BY <1>5, <1>9, <1>10, <1>11 DEF Told

\* A gRPC error is seen as a plain exception, which leaves the call in doubt.
LEMMA ReturnBrokenAtomic ==
    ASSUME AtomicInv, NEW t \in Threads, ReturnBroken(t)
    PROVE  (NoAnswerYet /\ RepliesTold /\ LateOnlyInDoubt)' /\ StoreStep
<1>1. PICK x : x = [kind |-> "exception"]
  OBVIOUS
<1>2. x \in Outcomes /\ x.kind = "exception" /\ Store!Uncertain(x)
  BY <1>1 DEF Outcomes, Store!Uncertain
<1>3. x \in Sees(Req(t), log[call[t].id].out)
  BY <1>1 DEF Sees
<1>4. Active(t) /\ Finish(t, x)
  BY <1>1 DEF ReturnBroken, Active
<1> QED BY <1>2, <1>3, <1>4, FinishAtomic

(* ------------------------------- refinement ------------------------------- *)

LEMMA AtomicInit == Init => AtomicInv /\ Store!Init
<1> SUFFICES ASSUME Init PROVE AtomicInv /\ Store!Init
  OBVIOUS
<1>1. KvInv
  BY InitInv
<1>2. NoAnswerYet /\ RepliesTold /\ LateOnlyInDoubt
  BY DEF Init, Idle, NoAnswerYet, RepliesTold, LateOnlyInDoubt, Active
<1>3. Store!Init
  BY DEF Init, Store!Init
<1> QED BY <1>1, <1>2, <1>3 DEF AtomicInv

LEMMA AtomicStep ==
    ASSUME MaxRetries = 0, AtomicInv, [Next]_vars
    PROVE  (NoAnswerYet /\ RepliesTold /\ LateOnlyInDoubt)' /\ StoreStep
<1> DEFINE G == (NoAnswerYet /\ RepliesTold /\ LateOnlyInDoubt)' /\ StoreStep
<1>1. ASSUME NEW t \in Threads, Invoke(t) \/ Step(t) \/ Timeout(t) PROVE G
  BY <1>1, InvokeAtomic, LockAtomic, HandleAtomic, ReturnAtomic, ReturnBrokenAtomic, TimeoutAtomic DEF Step
<1>2. ASSUME NEW cmd \in net, Execute(cmd) \/ Lose(cmd) PROVE G
  BY <1>2, ExecuteAtomic, LoseAtomic
<1>3. CASE AcmCrash
  <2>1. UNCHANGED <<net, log, rec>>
    BY <1>3 DEF AcmCrash
  <2>2. \A t \in Threads :
           \/ call'[t] = call[t]
           \/ /\ Active(t) /\ call'[t].pc = "broken"
              /\ call'[t].id = call[t].id /\ call'[t].sent = call[t].sent
    BY <1>3, CrashEffect DEF AtomicInv, KvInv
  <2>3. \A t \in Threads :
           Active(t)' =>
              /\ Active(t) /\ call'[t].id = call[t].id /\ call'[t].sent = call[t].sent
              /\ call'[t].pc = "reply" => call'[t] = call[t]
    BY <2>2 DEF Active
  <2> QED BY <2>1, <2>3, QuietStep, Stutter
<1>4. CASE AcmRestart \/ UNCHANGED vars
  <2>1. UNCHANGED <<net, log, rec, call>>
    BY <1>4 DEF AcmRestart, vars
  <2>2. \A t \in Threads :
           Active(t)' =>
              /\ Active(t) /\ call'[t].id = call[t].id /\ call'[t].sent = call[t].sent
              /\ call'[t].pc = "reply" => call'[t] = call[t]
    BY <2>1 DEF Active
  <2> QED BY <2>1, <2>2, QuietStep, Stutter
<1> QED BY <1>1, <1>2, <1>3, <1>4 DEF Next, Finished

\* Without retries every call is one atomic step on the record, between its start and
\* its return, and the application sees that step; only after an exception that leaves
\* it in doubt may the step come later.
THEOREM CallsAreAtomic == ASSUME MaxRetries = 0 PROVE Spec => Atomic
<1>1. KvInv /\ (NoAnswerYet /\ RepliesTold /\ LateOnlyInDoubt) <=> AtomicInv
  BY DEF AtomicInv
<1>2. AtomicInv /\ [Next]_vars => (NoAnswerYet /\ RepliesTold /\ LateOnlyInDoubt)' /\ [Store!Next]_(Store!vars)
  BY AtomicStep DEF StoreStep
<1> QED BY <1>1, <1>2, AtomicInit, KvInvariant, PTL DEF Spec, Atomic, Store!Spec
================================================================================
