-------------------------- MODULE ClientRegistryProofs --------------------------
(* Proofs about ClientRegistry for any number of threads, any set of versions *)
(* and any number of starts of the connection manager.                        *)
EXTENDS ClientRegistry, TLAPS

(* ----------------------------- type invariant ----------------------------- *)

\* No client exists at first.
LEMMA InitType == Init => TypeOK
  BY RegistryAssumption DEF Init, TypeOK, Clients, Steps, NoServer

\* What connect, a call and the connection manager assign keeps the types.
LEMMA TypeStep == TypeOK /\ [Next]_vars => TypeOK'
<1> SUFFICES ASSUME TypeOK, [Next]_vars PROVE TypeOK'
  OBVIOUS
<1> USE RegistryAssumption DEF TypeOK, Clients, Steps
<1>1. acm.inc \in 0 .. MaxStarts /\ acm.up \in BOOLEAN /\ acm.version \in Versions
  OBVIOUS
<1>2. ASSUME NEW t \in Threads, Lookup(t) PROVE TypeOK'
  BY <1>2 DEF Lookup
<1>3. ASSUME NEW t \in Threads, ConnectFails(t) PROVE TypeOK'
  BY <1>3 DEF ConnectFails
<1>4. ASSUME NEW t \in Threads, Dial(t) PROVE TypeOK'
  BY <1>1, <1>3, <1>4 DEF Dial
<1>5. ASSUME NEW t \in Threads, CheckVersion(t) PROVE TypeOK'
  BY <1>1, <1>3, <1>5 DEF CheckVersion
<1>6. ASSUME NEW t \in Threads, Persist(t) PROVE TypeOK'
  BY <1>6 DEF Persist
<1>7. ASSUME NEW t \in Threads, Fetch(t) PROVE TypeOK'
  BY <1>7 DEF Fetch
<1>8. ASSUME NEW t \in Threads, Call(t) PROVE TypeOK'
  <2>1. NoServer \in [inc : 0 .. MaxStarts, version : Versions]
    BY DEF NoServer
  <2>2. [inc |-> acm.inc, version |-> acm.version] \in [inc : 0 .. MaxStarts, version : Versions]
    BY <1>1
  <2> QED BY <1>1, <1>8, <2>1, <2>2 DEF Call
<1>9. ASSUME NEW v \in Versions, AcmStarts(v) PROVE TypeOK'
  BY <1>1, <1>9 DEF AcmStarts
<1>10. CASE AcmStops
  BY <1>1, <1>10 DEF AcmStops
<1>11. CASE UNCHANGED vars
  BY <1>11 DEF vars
<1> QED
  BY <1>2, <1>4, <1>5, <1>6, <1>7, <1>8, <1>9, <1>10, <1>11 DEF Next, Connect

\* The variables of connect and of the calls keep their types.
THEOREM TypeCorrect == Spec => []TypeOK
  BY InitType, TypeStep, PTL DEF Spec

(* ------------------------------ version check ----------------------------- *)

\* The client c has been persisted: its thread has passed the version check and
\* will not make another one, since CLIENTS stays occupied.
Established(c) ==
    /\ clients # None
    /\ checked[c] # 0
    /\ pc[c] \in {"idle", "fetch"}

\* A thread between its version check and its handle has passed the check, and only
\* established clients are persisted, referred to or called.
OnlyCheckedClients ==
    /\ \A t \in Threads : pc[t] \in {"persist", "fetch"} => checked[t] # 0
    /\ \A t \in Threads : pc[t] = "fetch" => clients # None
    /\ clients # None => Established(clients)
    /\ \A t \in Threads : handle[t] # None => Established(handle[t])
    /\ \A c \in Clients : served[c].inc # 0 => Established(c)

\* No check and no call is ahead of the connection manager, and the incarnation
\* that runs has the extension's version if a client checked it.
ChecksAreOfThePast ==
    /\ acm.up => acm.inc # 0
    /\ \A c \in Clients :
          /\ checked[c] <= acm.inc
          /\ served[c].inc <= acm.inc
          /\ checked[c] = acm.inc /\ acm.inc # 0 => acm.version = VERSION
          /\ served[c].version # VERSION => served[c].inc > checked[c]

\* The inductive invariant behind MismatchOnlyAfterRestart.
RegistryInv == TypeOK /\ OnlyCheckedClients /\ ChecksAreOfThePast

\* A client becomes known to others only after its check.
LEMMA CheckedStep ==
    TypeOK /\ OnlyCheckedClients /\ ChecksAreOfThePast /\ [Next]_vars => OnlyCheckedClients'
<1> SUFFICES ASSUME TypeOK, OnlyCheckedClients, ChecksAreOfThePast, [Next]_vars
             PROVE  OnlyCheckedClients'
  OBVIOUS
<1> USE RegistryAssumption DEF TypeOK, Clients, Steps, OnlyCheckedClients, Established
<1>1. ASSUME NEW t \in Threads, Lookup(t) PROVE OnlyCheckedClients'
  BY <1>1 DEF Lookup
<1>2. ASSUME NEW t \in Threads, pc[t] \in {"dial", "version"}, ConnectFails(t)
      PROVE  OnlyCheckedClients'
  BY <1>2 DEF ConnectFails
<1>3. ASSUME NEW t \in Threads, Dial(t) PROVE OnlyCheckedClients'
  BY <1>2, <1>3 DEF Dial
<1>4. ASSUME NEW t \in Threads, CheckVersion(t) PROVE OnlyCheckedClients'
  BY <1>2, <1>4 DEF CheckVersion, MayReach, ChecksAreOfThePast
<1>5. ASSUME NEW t \in Threads, Persist(t) PROVE OnlyCheckedClients'
  BY <1>5 DEF Persist
<1>6. ASSUME NEW t \in Threads, Fetch(t) PROVE OnlyCheckedClients'
  BY <1>6 DEF Fetch
<1>7. ASSUME NEW t \in Threads, Call(t) PROVE OnlyCheckedClients'
  BY <1>7 DEF Call, NoServer
<1>8. CASE UNCHANGED <<clients, checked, pc, handle, served>>
  BY <1>8
<1> QED
  BY <1>1, <1>3, <1>4, <1>5, <1>6, <1>7, <1>8
  DEF Next, Connect, AcmStarts, AcmStops, vars

\* An incarnation is compared with VERSION before it is recorded as checked, and a
\* call records the incarnation that serves it.
LEMMA PastStep ==
    TypeOK /\ OnlyCheckedClients /\ ChecksAreOfThePast /\ [Next]_vars => ChecksAreOfThePast'
<1> SUFFICES ASSUME TypeOK, OnlyCheckedClients, ChecksAreOfThePast, [Next]_vars
             PROVE  ChecksAreOfThePast'
  OBVIOUS
<1> USE RegistryAssumption DEF TypeOK, Clients, ChecksAreOfThePast
<1>1. CASE UNCHANGED <<acm, checked, served>>
  BY <1>1
<1>2. ASSUME NEW t \in Threads, CheckVersion(t) PROVE ChecksAreOfThePast'
  <2>1. CASE UNCHANGED <<acm, checked, served>>
    BY <2>1, <1>1
  <2>2. CASE /\ acm.up /\ acm.version = VERSION
             /\ checked' = [checked EXCEPT ![t] = acm.inc]
             /\ UNCHANGED <<acm, served>>
    <3>1. served[t].inc = 0
      BY <1>2 DEF CheckVersion, OnlyCheckedClients, Established
    <3>2. served[t].version = VERSION
      BY <3>1
    <3> QED BY <2>2, <3>2
  <2> QED BY <1>2, <2>1, <2>2 DEF CheckVersion, ConnectFails, MayReach
<1>3. ASSUME NEW t \in Threads, Call(t) PROVE ChecksAreOfThePast'
  <2>1. PICK c \in Threads : c = handle[t] /\ UNCHANGED <<acm, checked>>
    BY <1>3 DEF Call
  <2>2. CASE acm.up /\ served' = [served EXCEPT ![c] = [inc |-> acm.inc, version |-> acm.version]]
    <3>1. /\ acm.inc # 0
          /\ checked[c] <= acm.inc
          /\ checked[c] = acm.inc => acm.version = VERSION
      BY <2>2, Zenon
    <3>2. acm.version # VERSION => acm.inc > checked[c]
      <4>1. checked[c] \in Nat /\ acm.inc \in Nat
        OBVIOUS
      <4> HIDE DEF TypeOK, ChecksAreOfThePast
      <4> QED BY <4>1, <3>1
    <3>3. /\ served'[c].inc = acm.inc /\ served'[c].version = acm.version
          /\ \A k \in Threads \ {c} : served'[k] = served[k]
      BY <2>1, <2>2
    <3> QED BY <2>1, <3>1, <3>2, <3>3
  <2>3. CASE served' = [served EXCEPT ![c] = NoServer]
    BY <2>1, <2>3 DEF NoServer
  <2> QED BY <1>3, <2>1, <2>2, <2>3 DEF Call, MayReach
<1>4. ASSUME NEW v \in Versions, AcmStarts(v) PROVE ChecksAreOfThePast'
  BY <1>4 DEF AcmStarts
<1>5. CASE AcmStops
  BY <1>5 DEF AcmStops
<1> QED
  BY <1>1, <1>2, <1>3, <1>4, <1>5
  DEF Next, Connect, Lookup, Dial, ConnectFails, Persist, Fetch, vars

\* A call is served by a connection manager of another version only when that one
\* was started after the version check of connect (lib.rs 9739-9753): the check is
\* not bypassed by a thread that races in connect, by a client persisted over
\* another one, or by a second look-up.
THEOREM VersionIsChecked == Spec => []MismatchOnlyAfterRestart
<1>1. Init => RegistryInv
  BY InitType, RegistryAssumption
  DEF Init, RegistryInv, OnlyCheckedClients, Established, ChecksAreOfThePast, Clients, NoServer
<1>2. RegistryInv /\ [Next]_vars => RegistryInv'
  BY TypeStep, CheckedStep, PastStep DEF RegistryInv
<1>3. RegistryInv => MismatchOnlyAfterRestart
  BY DEF RegistryInv, OnlyCheckedClients, Established, ChecksAreOfThePast,
         MismatchOnlyAfterRestart, Clients
<1> QED
  BY <1>1, <1>2, <1>3, PTL DEF Spec
=================================================================================
