----------------------------- MODULE ClientRegistry -----------------------------
(* Client.connect and the static CLIENTS map of the PHP extension, for one    *)
(* socket path.  The threads of a PHP process look up the persisted client,   *)
(* and otherwise dial the connection manager, compare versions, persist the   *)
(* new client and look it up again; CLIENTS is locked for each of these steps *)
(* alone, while the mutex of the new client is held from the version call     *)
(* until connect returns.  The connection manager may be stopped and started  *)
(* again, with another version, at any time: the gRPC channel of a persisted  *)
(* client then reconnects by itself.                                          *)
EXTENDS Naturals, FiniteSets

CONSTANTS
    Threads,      \* threads of the PHP process
    VERSION,      \* version of the extension
    Versions,     \* versions of the connection manager that may be installed
    MaxStarts,    \* bound on starts of the connection manager
    None          \* no client, or a thread without a handle

ASSUME RegistryAssumption ==
    /\ VERSION \in Versions
    /\ MaxStarts \in Nat
    /\ None \notin Threads

\* A client is named after the thread that created it: a thread that finds a
\* persisted client creates no other one, since CLIENTS is never emptied.
Clients == Threads

VARIABLES
    acm,       \* the connection manager: up, its version and incarnation
    clients,   \* CLIENTS[socket]
    conn,      \* per client, the incarnation its channel is connected to, 0: none
    checked,   \* per client, the incarnation that passed its version check, 0: none
    pc,        \* per thread, the step of connect it is in
    handle,    \* per thread, the client its Client object refers to
    served     \* per client, the incarnation and version that served its last call

vars == <<acm, clients, conn, checked, pc, handle, served>>

Steps == {"idle", "dial", "version", "persist", "fetch"}

NoServer == [inc |-> 0, version |-> VERSION]

Init ==
    /\ acm = [up |-> FALSE, inc |-> 0, version |-> VERSION]
    /\ clients = None
    /\ conn = [c \in Clients |-> 0]
    /\ checked = [c \in Clients |-> 0]
    /\ pc = [t \in Threads |-> "idle"]
    /\ handle = [t \in Threads |-> None]
    /\ served = [c \in Clients |-> NoServer]

\* The guard `client` of connect keeps the mutex of the new client locked until
\* connect returns.
LockedByConnect(c) == pc[c] \in {"version", "persist", "fetch"}

\* A call on the channel of c reaches the running connection manager: always when
\* the channel is connected to it or knows it must dial, and possibly when it was
\* connected to an earlier incarnation, if the loss is noticed before the request.
MayReach(c) == acm.up

\* A call on the channel of c may fail: no server, or a loss noticed too late.
MayMiss(c) == ~acm.up \/ conn[c] \notin {0, acm.inc}

(* ---------------------------------- connect ------------------------------- *)

\* Mutant: the persisted client is not looked for.
LookupMisses(t) ==
    /\ pc[t] = "idle"
    /\ pc' = [pc EXCEPT ![t] = "dial"]
    /\ UNCHANGED <<acm, clients, conn, checked, handle, served>>

\* get_persisted_client at the start of connect.
Lookup(t) ==
    /\ pc[t] = "idle"
    /\ IF clients # None
       THEN handle' = [handle EXCEPT ![t] = clients] /\ UNCHANGED pc
       ELSE pc' = [pc EXCEPT ![t] = "dial"] /\ UNCHANGED handle
    /\ UNCHANGED <<acm, clients, conn, checked, served>>

\* connect returns an error: the new client is dropped.
ConnectFails(t) ==
    /\ pc' = [pc EXCEPT ![t] = "idle"]
    /\ conn' = [conn EXCEPT ![t] = 0]
    /\ UNCHANGED <<acm, clients, checked, handle, served>>

\* new_aerospike_client: connect to the socket.
Dial(t) ==
    /\ pc[t] = "dial"
    /\ \/ /\ acm.up
          /\ conn' = [conn EXCEPT ![t] = acm.inc]
          /\ pc' = [pc EXCEPT ![t] = "version"]
          /\ UNCHANGED <<acm, clients, checked, handle, served>>
       \/ ~acm.up /\ ConnectFails(t)

\* Mutant: the version is fetched and not compared.
CheckVersionNot(t) ==
    /\ pc[t] = "version"
    /\ \/ /\ MayReach(t)
          /\ conn' = [conn EXCEPT ![t] = acm.inc]
          /\ checked' = [checked EXCEPT ![t] = acm.inc]
          /\ pc' = [pc EXCEPT ![t] = "persist"]
          /\ UNCHANGED <<acm, clients, handle, served>>
       \/ MayMiss(t) /\ ConnectFails(t)

\* The version call and its comparison.
CheckVersion(t) ==
    /\ pc[t] = "version"
    /\ \/ /\ MayReach(t)
          /\ acm.version = VERSION
          /\ conn' = [conn EXCEPT ![t] = acm.inc]
          /\ checked' = [checked EXCEPT ![t] = acm.inc]
          /\ pc' = [pc EXCEPT ![t] = "persist"]
          /\ UNCHANGED <<acm, clients, handle, served>>
       \/ (MayMiss(t) \/ acm.version # VERSION) /\ ConnectFails(t)

\* persist_client: insert, over a client another thread has persisted meanwhile.
Persist(t) ==
    /\ pc[t] = "persist"
    /\ clients' = t
    /\ pc' = [pc EXCEPT ![t] = "fetch"]
    /\ UNCHANGED <<acm, conn, checked, handle, served>>

\* Mutant: the look-up locks the client it finds, which connect itself holds.
FetchLocks(t) ==
    /\ pc[t] = "fetch"
    /\ ~LockedByConnect(clients)
    /\ handle' = [handle EXCEPT ![t] = clients]
    /\ pc' = [pc EXCEPT ![t] = "idle"]
    /\ UNCHANGED <<acm, clients, conn, checked, served>>

\* get_persisted_client at the end of connect: whatever is persisted by now.
Fetch(t) ==
    /\ pc[t] = "fetch"
    /\ handle' = [handle EXCEPT ![t] = clients]
    /\ pc' = [pc EXCEPT ![t] = "idle"]
    /\ UNCHANGED <<acm, clients, conn, checked, served>>

(* ----------------------------------- calls -------------------------------- *)

\* Mutant: a broken channel is never connected again.
CallNoReconnect(t) ==
    /\ pc[t] = "idle"
    /\ handle[t] # None
    /\ ~LockedByConnect(handle[t])
    /\ LET c == handle[t] IN
          IF acm.up /\ conn[c] = acm.inc
          THEN /\ served' = [served EXCEPT ![c] = [inc |-> acm.inc, version |-> acm.version]]
               /\ UNCHANGED conn
          ELSE /\ conn' = [conn EXCEPT ![c] = 0]
               /\ served' = [served EXCEPT ![c] = NoServer]
    /\ UNCHANGED <<acm, clients, checked, pc, handle>>

\* Any call on a handle.  A channel that lost its server dials the path again,
\* before the request or, after failing this one, before the next.  No version is
\* compared then.
Call(t) ==
    /\ pc[t] = "idle"
    /\ handle[t] # None
    /\ ~LockedByConnect(handle[t])
    /\ LET c == handle[t] IN
          \/ /\ MayReach(c)
             /\ conn' = [conn EXCEPT ![c] = acm.inc]
             /\ served' = [served EXCEPT ![c] = [inc |-> acm.inc, version |-> acm.version]]
          \/ /\ MayMiss(c)
             /\ conn' = [conn EXCEPT ![c] = 0]
             /\ served' = [served EXCEPT ![c] = NoServer]
    /\ UNCHANGED <<acm, clients, checked, pc, handle>>

(* --------------------------- connection manager --------------------------- *)

AcmStarts(v) ==
    /\ ~acm.up
    /\ acm.inc < MaxStarts
    /\ acm' = [up |-> TRUE, inc |-> acm.inc + 1, version |-> v]
    /\ UNCHANGED <<clients, conn, checked, pc, handle, served>>

\* The last incarnation the bound allows stays.
AcmStops ==
    /\ acm.up
    /\ acm.inc < MaxStarts
    /\ acm' = [acm EXCEPT !.up = FALSE]
    /\ UNCHANGED <<clients, conn, checked, pc, handle, served>>

(* ------------------------------ specification ----------------------------- *)

Connect(t) == Lookup(t) \/ Dial(t) \/ CheckVersion(t) \/ Persist(t) \/ Fetch(t)

Next ==
    \/ \E t \in Threads : Connect(t) \/ Call(t)
    \/ \E v \in Versions : AcmStarts(v)
    \/ AcmStops

Spec == Init /\ [][Next]_vars

\* Threads run, and every thread connects (a PHP script does so at each request)
\* and calls again and again; the operator restarts a connection manager that is
\* down.
Fairness ==
    /\ \A t \in Threads : WF_vars(Connect(t)) /\ WF_vars(Call(t))
    /\ WF_vars(\E v \in Versions : AcmStarts(v))

FairSpec == Spec /\ Fairness

(* -------------------------------- properties ------------------------------ *)

\* Variables keep their types.
TypeOK ==
    /\ acm \in [up : BOOLEAN, inc : 0 .. MaxStarts, version : Versions]
    /\ clients \in Clients \cup {None}
    /\ conn \in [Clients -> 0 .. MaxStarts]
    /\ checked \in [Clients -> 0 .. MaxStarts]
    /\ pc \in [Threads -> Steps]
    /\ handle \in [Threads -> Clients \cup {None}]
    /\ served \in [Clients -> [inc : 0 .. MaxStarts, version : Versions]]

\* The version check of connect (lib.rs 9739-9753) covers the incarnation it was
\* made against and no later one: a call is served by a connection manager of
\* another version only when that one was started after the check.
MismatchOnlyAfterRestart ==
    \A c \in Clients :
        /\ served[c].inc # 0 => checked[c] # 0
        /\ served[c].version # VERSION => served[c].inc > checked[c]

\* connect returns (lib.rs 9726-9763): no thread waits for ever on CLIENTS or on
\* the mutex of the new client, which connect holds during the second look-up.
ConnectReturns ==
    \A t \in Threads : pc[t] # "idle" ~> pc[t] = "idle"

\* Threads that raced in connect may hold different clients, but once a client has
\* been persisted, threads that go on connecting end up sharing one (lib.rs 9681-9682:
\* "Multiple threads should share this cluster instance").
OneClientInTheEnd ==
    <>(clients # None) => <>[](\A t \in Threads : handle[t] = clients)

\* A handle survives the restarts of the connection manager: once the last one is
\* up, calls on the handle are served by it without a new connect.
HandleRecovers ==
    \A c \in Clients :
        (acm.inc = MaxStarts /\ \E t \in Threads : handle[t] = c) ~>
            (served[c].inc = MaxStarts \/ \A t \in Threads : handle[t] # c)
================================================================================
