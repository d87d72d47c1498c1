------------------------------- MODULE AtomicStore -------------------------------
(* What the single-record calls of Aerospike\Client promise for one key: each  *)
(* call takes effect at most once and in one step, between its start and its   *)
(* return, and the application sees the answer of that step.  Only a call that *)
(* ended in a plain exception, or in an exception marked in_doubt, may take    *)
(* effect later, and a call that failed for certain never does.                *)
EXTENDS Naturals, Sequences

CONSTANTS
    Ids,        \* calls that may be made
    Requests,   \* what may be asked: operation, record-exists action, generation
    None        \* nothing yet

VARIABLES
    rec,        \* the record: exists, generation, contributions to its value
    calls       \* per call, the request, the answer of its step, what PHP saw

vars == <<rec, calls>>

Absent == [exists |-> FALSE, gen |-> 0, val |-> << >>]

Reads == {"get", "get_header", "exists"}

IsRead(req) == req.op \in Reads

\* The record's value after the operation of call id is applied to r.
NewValue(req, id, r) ==
    CASE req.op = "put" -> <<id>>
      [] req.op \in {"add", "append"} -> Append(r.val, id)
      [] req.op = "prepend" -> <<id>> \o r.val
      [] req.op = "touch" -> r.val

\* The result code the cluster gives a request on record r.
Verdict(req, r) ==
    IF req.op \in {"exists", "delete"} /\ ~r.exists THEN "OK"
    ELSE IF ~r.exists /\ (req.op \in Reads \cup {"touch"} \/ req.action = "update_only")
    THEN "KEY_NOT_FOUND"
    ELSE IF r.exists /\ req.action = "create_only" THEN "KEY_EXISTS"
    ELSE IF req.expect # None /\ req.expect # r.gen THEN "GENERATION"
    ELSE "OK"

\* The record after the request of call id.
Effect(req, id, r) ==
    IF IsRead(req) \/ Verdict(req, r) # "OK" THEN r
    ELSE IF req.op = "delete" THEN Absent
    ELSE [exists |-> TRUE, gen |-> r.gen + 1, val |-> NewValue(req, id, r)]

\* The answer of the cluster: result code, whether there was a record, the record.
Answer(req, r) ==
    [code |-> Verdict(req, r), existed |-> r.exists,
     record |-> IF ~r.exists \/ req.op \notin {"get", "get_header"} THEN None
                ELSE IF req.op = "get" THEN r ELSE [r EXCEPT !.val = << >>]]

\* What PHP may see of an answer.  What delete returns is left open here.
Visible(req, a) ==
    IF a.code = "KEY_NOT_FOUND" /\ req.op \in {"get", "get_header"}
    THEN {[kind |-> "none"]}
    ELSE IF a.code # "OK"
    THEN {[kind |-> "aerospike", code |-> a.code, in_doubt |-> FALSE]}
    ELSE CASE req.op \in {"get", "get_header"} -> {[kind |-> "record", record |-> a.record]}
           [] req.op = "exists" -> {[kind |-> "bool", value |-> a.existed]}
           [] req.op = "delete" -> {[kind |-> "bool", value |-> v] : v \in BOOLEAN}
           [] OTHER -> {[kind |-> "ok"]}

\* An outcome that leaves open whether the call took or will take effect.
Uncertain(seen) ==
    \/ seen.kind = "exception"
    \/ seen.kind = "aerospike" /\ seen.in_doubt

Init ==
    /\ rec = Absent
    /\ calls = [id \in Ids |-> [req |-> None, out |-> None, seen |-> None]]

Invoke(id) ==
    /\ calls[id].req = None
    /\ \E req \in Requests : calls' = [calls EXCEPT ![id].req = req]
    /\ UNCHANGED rec

\* The one step of the call, before its return or, when in doubt, after it.
Apply(id) ==
    LET c == calls[id] IN
    /\ c.req # None /\ c.out = None
    /\ c.seen # None => IsRead(c.req) \/ Uncertain(c.seen)
    /\ rec' = Effect(c.req, id, rec)
    /\ calls' = [calls EXCEPT ![id].out = Answer(c.req, rec)]

Return(id) ==
    LET c == calls[id] IN
    /\ c.req # None /\ c.seen = None
    /\ \E seen \in (IF c.out = None THEN {} ELSE Visible(c.req, c.out))
                   \cup {[kind |-> "exception"]}
                   \cup [kind : {"aerospike"}, code : {"TIMEOUT", "NO_CONNECTION"}, in_doubt : BOOLEAN] :
          /\ (seen.kind = "aerospike" /\ seen.code \in {"TIMEOUT", "NO_CONNECTION"} /\ ~seen.in_doubt)
                => c.out = None \/ IsRead(c.req)
          /\ calls' = [calls EXCEPT ![id].seen = seen]
    /\ UNCHANGED rec

Next == \E id \in Ids : Invoke(id) \/ Apply(id) \/ Return(id)

Spec == Init /\ [][Next]_vars
================================================================================
