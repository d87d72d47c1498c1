-------------------------------- MODULE StreamMux --------------------------------
(* One BlockingClient: a single HTTP/2 connection over the unix socket that    *)
(* carries unary calls and the streams of all open recordsets.  The connection *)
(* is driven by a current_thread runtime, so frames are read and written only  *)
(* while some call sits in block_on, and the mutex admits one such call at a   *)
(* time.  Data is flow controlled per stream and for the whole connection: the *)
(* connection manager stops sending when the window is used up by records that *)
(* PHP has not read.  Closing or dropping a recordset only drops the stream on *)
(* the PHP side; the reset goes out when the connection is driven next.        *)
EXTENDS Integers, FiniteSets

CONSTANTS
    Streams,        \* recordsets that may be opened
    StreamWindow,   \* flow-control window of a stream, in messages
    ConnWindow,     \* flow-control window of the connection, in messages
    MaxRecords      \* bound on records a recordset yields

ASSUME MuxAssumption ==
    /\ IsFiniteSet(Streams)
    /\ StreamWindow \in Nat \ {0} /\ ConnWindow \in Nat \ {0} /\ MaxRecords \in Nat

VARIABLES
    app,      \* per recordset, the stream as PHP sees it: _as and its predecessors
    srv,      \* per recordset, its Scan or Query handler in the connection manager
    left,     \* per recordset, records the cluster has still to deliver
    unread,   \* per recordset, messages sent and not read by PHP
    owed,     \* per recordset, messages read whose window update was not sent
    connOwed, \* the same for unary responses
    busy      \* the call that is in block_on, with the mutex of the client

vars == <<app, srv, left, unread, owed, connOwed, busy>>

Free == [op |-> "free"]
Unary == [op |-> "unary"]   \* a request that is not yet written
Sent == [op |-> "sent"]     \* a request that is answered
NextOn(s) == [op |-> "next", stream |-> s]

Init ==
    /\ app = [s \in Streams |-> "none"]
    /\ srv = [s \in Streams |-> "none"]
    /\ left = [s \in Streams |-> 0]
    /\ unread = [s \in Streams |-> 0]
    /\ owed = [s \in Streams |-> 0]
    /\ connOwed = 0
    /\ busy = Free

\* Messages charged to the windows of the recordsets, and with the unary responses to
\* the window of the connection.
Charged == UNION {{s} \X (1 .. unread[s] + owed[s]) : s \in Streams}
ConnUsed == Cardinality(Charged) + connOwed

(* ------------------------------ the PHP process --------------------------- *)

\* scan or query: the response headers are not flow controlled.
Open(s) ==
    /\ busy = Free
    /\ app[s] = "none"
    /\ \E n \in 0 .. MaxRecords : left' = [left EXCEPT ![s] = n]
    /\ app' = [app EXCEPT ![s] = "open"]
    /\ srv' = [srv EXCEPT ![s] = "running"]
    /\ UNCHANGED <<unread, owed, connOwed, busy>>

\* Recordset.next locks the client and waits for a message.
NextStarts(s) ==
    /\ busy = Free
    /\ app[s] = "open"
    /\ busy' = NextOn(s)
    /\ UNCHANGED <<app, srv, left, unread, owed, connOwed>>

NextReturns(s) ==
    /\ busy = NextOn(s)
    /\ unread[s] > 0
    /\ unread' = [unread EXCEPT ![s] = @ - 1]
    /\ owed' = [owed EXCEPT ![s] = @ + 1]
    /\ busy' = Free
    /\ UNCHANGED <<app, srv, left, connOwed>>

\* The end of the stream closes the recordset.
NextEnds(s) ==
    /\ busy = NextOn(s)
    /\ unread[s] = 0 /\ srv[s] = "ended"
    /\ app' = [app EXCEPT ![s] = "closed"]
    /\ busy' = Free
    /\ UNCHANGED <<srv, left, unread, owed, connOwed>>

\* Mutant: the stream is put aside and not dropped.
CloseKeeps(s) ==
    /\ app[s] = "open"
    /\ busy # NextOn(s)
    /\ app' = [app EXCEPT ![s] = "closed"]
    /\ UNCHANGED <<srv, left, unread, owed, connOwed, busy>>

\* Recordset.close, or its destruction: the stream is dropped.  No lock is taken,
\* so a call of another thread may be under way.
Close(s) ==
    /\ app[s] = "open"
    /\ busy # NextOn(s)
    /\ app' = [app EXCEPT ![s] = "dropped"]
    /\ UNCHANGED <<srv, left, unread, owed, connOwed, busy>>

\* Any other call of the client.
CallStarts ==
    /\ busy = Free
    /\ busy' = Unary
    /\ UNCHANGED <<app, srv, left, unread, owed, connOwed>>

\* The response is a message like the records, and needs room in the window.
CallReturns ==
    /\ busy = Sent
    /\ ConnUsed < ConnWindow
    /\ connOwed' = connOwed + 1
    /\ busy' = Free
    /\ UNCHANGED <<app, srv, left, unread, owed>>

\* Dropped streams whose reset, or whose unread data, is still to be dealt with.
Dropped == {s \in Streams : app[s] = "dropped"}

\* There is something for block_on to write or to release.
Due == Dropped # {} \/ busy = Unary \/ connOwed > 0 \/ \E s \in Streams : owed[s] > 0

\* block_on drives the connection: the request of a unary call is written, with
\* the window updates and resets that are due, and what was buffered for dropped
\* streams is released.
Drive ==
    /\ busy # Free
    /\ busy' = IF busy = Unary THEN Sent ELSE busy
    /\ Due
    /\ app' = [s \in Streams |-> IF s \in Dropped THEN "closed" ELSE app[s]]
    /\ srv' = [s \in Streams |-> IF s \in Dropped /\ srv[s] = "running" THEN "reset" ELSE srv[s]]
    /\ unread' = [s \in Streams |-> IF s \in Dropped THEN 0 ELSE unread[s]]
    /\ owed' = [s \in Streams |-> 0]
    /\ connOwed' = 0
    /\ UNCHANGED left

(* -------------------------- the connection manager ------------------------ *)

\* stream.Send of the next record; it blocks while a window is used up.
Send(s) ==
    /\ srv[s] = "running"
    /\ left[s] > 0
    /\ unread[s] + owed[s] < StreamWindow
    /\ ConnUsed < ConnWindow
    /\ left' = [left EXCEPT ![s] = @ - 1]
    /\ unread' = [unread EXCEPT ![s] = @ + 1]
    /\ UNCHANGED <<app, srv, owed, connOwed, busy>>

\* stream.Send on a reset stream fails: rs.Close() and return.
SendFails(s) ==
    /\ srv[s] = "reset"
    /\ left[s] > 0
    /\ left' = [left EXCEPT ![s] = 0]
    /\ srv' = [srv EXCEPT ![s] = "ended"]
    /\ UNCHANGED <<app, unread, owed, connOwed, busy>>

\* Mutant: the loop over the results goes on waiting after the last one.
ResultsEndNever(s) ==
    /\ srv[s] = "reset"
    /\ left[s] = 0
    /\ srv' = [srv EXCEPT ![s] = "ended"]
    /\ UNCHANGED <<app, left, unread, owed, connOwed, busy>>

\* rs.Results() is exhausted.
ResultsEnd(s) ==
    /\ srv[s] \in {"running", "reset"}
    /\ left[s] = 0
    /\ srv' = [srv EXCEPT ![s] = "ended"]
    /\ UNCHANGED <<app, left, unread, owed, connOwed, busy>>

(* ------------------------------ specification ----------------------------- *)

Handler(s) == Send(s) \/ SendFails(s) \/ ResultsEnd(s)

Waiting(s) == NextReturns(s) \/ NextEnds(s)

Next ==
    \/ \E s \in Streams : Open(s) \/ NextStarts(s) \/ Close(s) \/ Waiting(s) \/ Handler(s)
    \/ CallStarts \/ CallReturns \/ Drive

Spec == Init /\ [][Next]_vars

\* The handlers run; a call in block_on drives the connection and returns when it
\* can.  Nothing makes the application call again.
Fairness ==
    /\ \A s \in Streams : WF_vars(Handler(s)) /\ WF_vars(Waiting(s))
    /\ WF_vars(CallReturns)
    /\ WF_vars(Drive)

FairSpec == Spec /\ Fairness

(* -------------------------------- properties ------------------------------ *)

\* Variables keep their types, and the windows are never exceeded.
TypeOK ==
    /\ app \in [Streams -> {"none", "open", "dropped", "closed"}]
    /\ srv \in [Streams -> {"none", "running", "reset", "ended"}]
    /\ left \in [Streams -> 0 .. MaxRecords]
    /\ unread \in [Streams -> Nat] /\ owed \in [Streams -> Nat] /\ connOwed \in Nat
    /\ \A s \in Streams : unread[s] + owed[s] <= StreamWindow
    /\ ConnUsed <= ConnWindow
    /\ busy \in {Free, Unary, Sent} \cup {NextOn(s) : s \in Streams}

\* A message, or the end of the stream, is there for next, or its handler can produce it.
Arrives(s) ==
    \/ unread[s] > 0 \/ srv[s] = "ended"
    \/ srv[s] = "running" /\ left[s] = 0
    \/ srv[s] = "running" /\ unread[s] + owed[s] < StreamWindow /\ ConnUsed < ConnWindow

\* A call is in block_on with nothing to write and nothing to read, and the connection
\* manager waits for a window.  It holds the mutex that next would need to make room.
Stuck ==
    /\ busy # Free
    /\ ~Due
    /\ busy = Sent => ConnUsed >= ConnWindow
    /\ \A s \in Streams : busy = NextOn(s) => ~Arrives(s)

\* Recordsets that the program has left open with records in them.
LeftOpen == {s \in Streams : app[s] = "open" /\ unread[s] > 0}

\* A call of the client gets stuck only through recordsets that the program has left open,
\* and only if their windows together fill that of the connection: three of them, with the
\* windows of the code.  What was closed or read to its end holds nothing back
\* (Recordset::close and next, grpc.rs).
OnlyUnreadBlocks ==
    Stuck => /\ \A s \in Streams : unread[s] > 0 => s \in LeftOpen
             /\ Cardinality(LeftOpen) * StreamWindow >= ConnWindow

\* A call in block_on returns (grpc.rs, every method; the calls have no deadline), or is
\* stuck behind what the program has left unread.
BlockedCallReturns == busy # Free ~> busy = Free \/ Stuck

\* The handler of a recordset that was closed ends once the client makes another call:
\* the reset is written by the call (Recordset::close, grpc.rs).  Without one nothing
\* drives the connection, and lib.rs 4112, "Drop the stream, which will signal the server
\* and close the recordset", says too much.
CallSignalsServer ==
    \A s \in Streams : app[s] \in {"dropped", "closed"} /\ busy = Unary ~> srv[s] = "ended"
================================================================================
