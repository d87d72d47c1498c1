---------------------------- MODULE AcmDaemonProofs ----------------------------
(* Proofs about AcmDaemon for any number of processes and clusters and any    *)
(* number of faults.                                                          *)
EXTENDS AcmDaemon, TLAPS

(* ----------------------------- type invariant ----------------------------- *)

\* A process that ends keeps the types: what it listened on is a stale file, and
\* its goroutines are gone.
LEMMA DiesKeepsType ==
    ASSUME NEW d \in Daemons, TypeOK, faults' \in 0 .. MaxFaults,
           NEW how \in {"none", "quiet", "busy", "fatal", "crash"}, Dies(d, how)
    PROVE  TypeOK'
<1> USE DEF TypeOK, Dies, Running
<1>1. /\ proc' \in [Daemons -> {"down", "up", "cleaning"}]
      /\ server' \in [Daemons -> [Clusters -> Stages]]
      /\ toClean' \in [Daemons -> SUBSET Clusters]
      /\ exit' \in [Daemons -> {"none", "quiet", "busy", "fatal", "crash"}]
      /\ alone' \in BOOLEAN
  BY DEF Stages
<1>2. sock' \in [Clusters -> Daemons \cup {NoFile, Stale}]
  OBVIOUS
<1>3. \A e \in Daemons : toClean'[e] # {} => proc'[e] = "cleaning"
  OBVIOUS
<1>4. ASSUME NEW e \in Daemons, NEW c \in Clusters
      PROVE  /\ proc'[e] = "down" => server'[e][c] = "none"
             /\ sock'[c] = e => server'[e][c] = "serving"
  BY <1>4, MarksAssumption
<1> QED
  BY <1>1, <1>2, <1>3, <1>4

\* What counts as a fault stays within the bound.
LEMMA FaultBounded ==
    ASSUME TypeOK, Fault \/ UNCHANGED faults
    PROVE  faults' \in 0 .. MaxFaults
  BY BoundAssumption DEF TypeOK, Fault

\* A launchServer goroutine that goes from one stage to the next keeps the types,
\* when the path of its cluster names it exactly if it serves.
LEMMA StageKeepsType ==
    ASSUME NEW d \in Daemons, NEW c \in Clusters, TypeOK, Running(d),
           faults' \in 0 .. MaxFaults,
           NEW stage \in Stages,
           server' = [server EXCEPT ![d][c] = stage],
           \/ stage # "serving" /\ server[d][c] # "serving" /\ UNCHANGED sock
           \/ stage = "serving" /\ sock' = [sock EXCEPT ![c] = d]
           \/ stage # "serving" /\ sock' = [sock EXCEPT ![c] = NoFile],
           UNCHANGED <<proc, toClean, exit, alone>>
    PROVE  TypeOK'
<1> USE DEF TypeOK, Running
<1>1. /\ server' \in [Daemons -> [Clusters -> Stages]]
      /\ \A e \in Daemons, k \in Clusters :
            server'[e][k] = IF e = d /\ k = c THEN stage ELSE server[e][k]
  OBVIOUS
<1>2. sock' \in [Clusters -> Daemons \cup {NoFile, Stale}]
  <2>1. sock \in [Clusters -> Daemons \cup {NoFile, Stale}]
    OBVIOUS
  <2> QED
    BY <2>1 DEF Stages
<1>3. ASSUME NEW e \in Daemons, NEW k \in Clusters
      PROVE  /\ proc'[e] = "down" => server'[e][k] = "none"
             /\ sock'[k] = e => server'[e][k] = "serving"
  BY <1>1, <1>3, MarksAssumption
<1> QED
  BY <1>1, <1>2, <1>3

\* Every action of main.go keeps the types.
LEMMA TypeStep == TypeOK /\ [Next]_vars => TypeOK'
<1> SUFFICES ASSUME TypeOK, [Next]_vars PROVE TypeOK'
  OBVIOUS
<1> USE DEF Running
<1>1. ASSUME NEW d \in Daemons, StartProcess(d) PROVE TypeOK'
  <2>1. faults' \in 0 .. MaxFaults /\ alone' \in BOOLEAN
    BY <1>1, FaultBounded, Zenon DEF StartProcess, TypeOK
  <2>2. /\ proc' \in [Daemons -> {"down", "up", "cleaning"}]
        /\ server' \in [Daemons -> [Clusters -> Stages]]
        /\ exit' \in [Daemons -> {"none", "quiet", "busy", "fatal", "crash"}]
        /\ UNCHANGED <<toClean, sock>>
        /\ proc[d] = "down"
        /\ proc' = [proc EXCEPT ![d] = "up"]
        /\ server' = [server EXCEPT ![d] = [c \in Clusters |-> "connecting"]]
    BY <1>1 DEF StartProcess, TypeOK, Stages
  <2> QED
    BY <2>1, <2>2 DEF TypeOK
<1>2. ASSUME NEW d \in Daemons, Signal(d) PROVE TypeOK'
  <2>1. faults' \in 0 .. MaxFaults
    BY <1>2, FaultBounded DEF Signal
  <2>2. exit' \in [Daemons -> {"none", "quiet", "busy", "fatal", "crash"}]
    BY <1>2 DEF Signal, TypeOK
  <2> QED
    BY <1>2, <2>1, <2>2 DEF Signal, TypeOK
<1>3. ASSUME NEW d \in Daemons, NEW c \in Clusters, CleanUp(d, c) PROVE TypeOK'
  BY <1>3, MarksAssumption DEF CleanUp, TypeOK
<1>4. ASSUME NEW d \in Daemons, Exit(d) PROVE TypeOK'
  BY <1>4, DiesKeepsType, FaultBounded DEF Exit, TypeOK
<1>5. ASSUME NEW d \in Daemons, Crash(d) PROVE TypeOK'
  BY <1>5, DiesKeepsType, FaultBounded DEF Crash
<1>6. ASSUME NEW d \in Daemons, NEW c \in Clusters, ClientReady(d, c) PROVE TypeOK'
  BY <1>6, StageKeepsType, FaultBounded DEF ClientReady, Stages
<1>7. ASSUME NEW d \in Daemons, NEW c \in Clusters, Listen(d, c) PROVE TypeOK'
  BY <1>7, StageKeepsType, FaultBounded DEF Listen, Stages
<1>8. ASSUME NEW d \in Daemons, NEW c \in Clusters, ListenFails(d, c) PROVE TypeOK'
  BY <1>8, DiesKeepsType, FaultBounded DEF ListenFails
<1>9. ASSUME NEW d \in Daemons, NEW c \in Clusters, ClientFails(d, c) PROVE TypeOK'
  BY <1>9, DiesKeepsType, FaultBounded DEF ClientFails
<1>10. ASSUME NEW d \in Daemons, NEW c \in Clusters, ServeReturns(d, c) PROVE TypeOK'
  BY <1>10, StageKeepsType, FaultBounded DEF ServeReturns, Stages
<1>11. ASSUME RemoveByHand PROVE TypeOK'
  BY <1>11, MarksAssumption DEF RemoveByHand, TypeOK
<1>12. CASE UNCHANGED vars
  BY <1>12 DEF vars, TypeOK
<1> QED
  BY <1>1, <1>2, <1>3, <1>4, <1>5, <1>6, <1>7, <1>8, <1>9, <1>10, <1>11, <1>12
  DEF Next, Launch, Shutdown

\* No process runs at first and no file exists.
LEMMA InitType == Init => TypeOK
  BY MarksAssumption, BoundAssumption DEF Init, TypeOK, Stages, Running

\* In every reachable state a path names only a process that serves it, only a
\* running process has goroutines, and only one that cleans up has paths to remove
\* (launchServer, cleanUp and the signal goroutine of main.go).
THEOREM TypeCorrect == Spec => []TypeOK
  BY InitType, TypeStep, PTL DEF Spec

(* --------------------------- processes that are alone --------------------- *)

\* As long as no two processes have met, at most one runs.
OneRuns == alone => \A d, e \in Daemons : Running(d) /\ Running(e) => d = e

\* What a signal that found every launchServer settled implies from then on: no
\* goroutine can create a file again, the paths cleanUp has passed are free, and
\* once the process is gone nothing runs and nothing is left.  A process that has
\* not been signalled has no exit yet.
QuietExitOf(d) ==
    /\ proc[d] = "up" => exit[d] = "none"
    /\ alone /\ exit[d] = "quiet" =>
          /\ proc[d] = "cleaning" =>
                Settled(d) /\ \A c \in Clusters \ toClean[d] : sock[c] = NoFile
          /\ proc[d] = "down" =>
                /\ \A e \in Daemons : ~Running(e)
                /\ \A c \in Clusters : sock[c] = NoFile

QuietExit == \A d \in Daemons : QuietExitOf(d)

\* The inductive invariant behind ServedIsReachable and QuietExitLeavesNoFile.
DaemonInv == TypeOK /\ OneRuns /\ ServedIsReachable /\ QuietExit

\* Only StartProcess adds a process, and it clears the mark when another one runs.
LEMMA OneRunsStep == TypeOK /\ OneRuns /\ [Next]_vars => OneRuns'
<1> SUFFICES ASSUME TypeOK, OneRuns, [Next]_vars PROVE OneRuns'
  OBVIOUS
<1> USE DEF OneRuns, Running, TypeOK
<1>1. ASSUME NEW d \in Daemons, StartProcess(d) PROVE OneRuns'
  <2>1. proc' = [proc EXCEPT ![d] = "up"]
    BY <1>1 DEF StartProcess
  <2>2. alone' => \A e \in Daemons : ~Running(e)
    BY <1>1, Zenon DEF StartProcess
  <2> QED BY <2>1, <2>2
<1>2. ASSUME NEW d \in Daemons, Signal(d) PROVE OneRuns'
  BY <1>2 DEF Signal
<1>3. ASSUME NEW d \in Daemons, NEW how, Dies(d, how) PROVE OneRuns'
  BY <1>3 DEF Dies
<1>4. CASE UNCHANGED <<proc, alone>>
  BY <1>4
<1> QED
  BY <1>1, <1>2, <1>3, <1>4
  DEF Next, vars, Shutdown, CleanUp, Exit, Crash, Launch, ClientReady, Listen,
      ListenFails, ClientFails, ServeReturns, RemoveByHand

\* A path of a cluster that a lone process serves is not taken from it.
LEMMA ReachableStep ==
    TypeOK /\ OneRuns /\ ServedIsReachable /\ [Next]_vars => ServedIsReachable'
<1> SUFFICES ASSUME TypeOK, OneRuns, ServedIsReachable, [Next]_vars,
                    NEW d \in Daemons, NEW c \in Clusters,
                    alone', proc'[d] = "up", server'[d][c] = "serving"
             PROVE  sock'[c] = d
  BY DEF ServedIsReachable
<1> USE DEF Running, TypeOK
<1>1. ASSUME NEW e \in Daemons, StartProcess(e) PROVE sock'[c] = d
  BY <1>1 DEF StartProcess
<1>2. ASSUME NEW e \in Daemons, Signal(e) PROVE sock'[c] = d
  BY <1>2 DEF Signal, ServedIsReachable
<1>3. ASSUME NEW e \in Daemons, NEW k \in Clusters, CleanUp(e, k) PROVE sock'[c] = d
  BY <1>3 DEF CleanUp, OneRuns
<1>4. ASSUME NEW e \in Daemons, NEW how, Dies(e, how) PROVE sock'[c] = d
  BY <1>4 DEF Dies, ServedIsReachable
<1>5. ASSUME NEW e \in Daemons, NEW k \in Clusters, ClientReady(e, k) PROVE sock'[c] = d
  BY <1>5 DEF ClientReady, ServedIsReachable
<1>6. ASSUME NEW e \in Daemons, NEW k \in Clusters, Listen(e, k) PROVE sock'[c] = d
  BY <1>6 DEF Listen, ServedIsReachable, OneRuns
<1>7. ASSUME NEW e \in Daemons, NEW k \in Clusters, ServeReturns(e, k) PROVE sock'[c] = d
  BY <1>7 DEF ServeReturns, ServedIsReachable, OneRuns
<1>8. CASE RemoveByHand
  BY <1>8, MarksAssumption DEF RemoveByHand, ServedIsReachable
<1>9. CASE UNCHANGED vars
  BY <1>9 DEF vars, ServedIsReachable
<1> QED
  BY <1>1, <1>2, <1>3, <1>4, <1>5, <1>6, <1>7, <1>8, <1>9
  DEF Next, Shutdown, Launch, Exit, Crash, ListenFails, ClientFails

\* From the signal to the exit and until the next start nothing creates a file.
LEMMA QuietStep ==
    TypeOK /\ OneRuns /\ QuietExit /\ [Next]_vars => QuietExit'
<1> SUFFICES ASSUME TypeOK, OneRuns, QuietExit, [Next]_vars, NEW d \in Daemons
             PROVE  QuietExitOf(d)'
  BY DEF QuietExit
<1>0. QuietExitOf(d)
  BY DEF QuietExit
<1> USE <1>0 DEF Running, TypeOK, QuietExitOf, Settled
<1>1. ASSUME NEW e \in Daemons, StartProcess(e) PROVE QuietExitOf(d)'
  BY <1>1 DEF StartProcess
<1>2. ASSUME NEW e \in Daemons, Signal(e) PROVE QuietExitOf(d)'
  <2>1. CASE e = d
    BY <1>2, <2>1 DEF Signal
  <2>2. CASE e # d
    BY <1>2, <2>2 DEF Signal
  <2> QED BY <2>1, <2>2
<1>3. ASSUME NEW e \in Daemons, NEW k \in Clusters, CleanUp(e, k) PROVE QuietExitOf(d)'
  <2>1. CASE e = d
    BY <1>3, <2>1 DEF CleanUp
  <2>2. CASE e # d
    BY <1>3, <2>2 DEF CleanUp
  <2> QED BY <2>1, <2>2
<1>4. ASSUME NEW e \in Daemons, Exit(e) PROVE QuietExitOf(d)'
  <2>1. CASE e = d
    <3> SUFFICES ASSUME alone', exit'[d] = "quiet"
                 PROVE  /\ \A k \in Daemons : proc'[k] = "down"
                        /\ \A c \in Clusters : sock'[c] = NoFile
      BY <1>4, <2>1 DEF Exit, Dies
    <3>1. /\ proc' = [proc EXCEPT ![d] = "down"] /\ toClean[d] = {}
          /\ alone /\ exit[d] = "quiet" /\ proc[d] = "cleaning"
          /\ sock' = [c \in Clusters |-> IF sock[c] = d THEN Stale ELSE sock[c]]
      BY <1>4, <2>1 DEF Exit, Dies
    <3>2. \A c \in Clusters : sock[c] = NoFile
      BY <3>1
    <3>3. \A c \in Clusters : sock'[c] = NoFile
      BY <3>1, <3>2, MarksAssumption
    <3>4. \A k \in Daemons : proc'[k] = "down"
      BY <3>1 DEF OneRuns
    <3> QED BY <3>3, <3>4
  <2>2. CASE e # d
    BY <1>4, <2>2 DEF Exit, Dies, OneRuns
  <2> QED BY <2>1, <2>2
<1>5. ASSUME NEW e \in Daemons, NEW how \in {"fatal", "crash"}, Running(e), Dies(e, how)
      PROVE  QuietExitOf(d)'
  <2>1. CASE e = d
    BY <1>5, <2>1 DEF Dies
  <2>2. CASE e # d
    BY <1>5, <2>2 DEF Dies, OneRuns
  <2> QED BY <2>1, <2>2
<1>6. ASSUME NEW e \in Daemons, NEW k \in Clusters, ClientReady(e, k)
      PROVE  QuietExitOf(d)'
  BY <1>6 DEF ClientReady
<1>7. ASSUME NEW e \in Daemons, NEW k \in Clusters, Listen(e, k) PROVE QuietExitOf(d)'
  BY <1>7 DEF Listen, OneRuns
<1>8. ASSUME NEW e \in Daemons, NEW k \in Clusters, ServeReturns(e, k)
      PROVE  QuietExitOf(d)'
  BY <1>8 DEF ServeReturns
<1>9. CASE RemoveByHand
  BY <1>9 DEF RemoveByHand
<1>10. CASE UNCHANGED vars
  BY <1>10 DEF vars
<1> QED
  BY <1>1, <1>2, <1>3, <1>4, <1>5, <1>6, <1>7, <1>8, <1>9, <1>10
  DEF Next, Shutdown, Launch, Crash, ListenFails, ClientFails

\* DaemonInv is inductive.
LEMMA DaemonInvariant == Spec => []DaemonInv
<1>1. Init => DaemonInv
  BY InitType DEF Init, DaemonInv, OneRuns, ServedIsReachable, QuietExit, QuietExitOf, Running
<1>2. DaemonInv /\ [Next]_vars => DaemonInv'
  BY TypeStep, OneRunsStep, ReachableStep, QuietStep DEF DaemonInv
<1> QED
  BY <1>1, <1>2, PTL DEF Spec

\* While no two processes meet, one that is not shutting down is reachable at the
\* path of every cluster whose gRPC server runs: neither the clean-up, the deferred
\* removal, an operator's removal of stale files nor a failed start of main.go
\* takes the path away.
THEOREM ServedStaysReachable == Spec => []ServedIsReachable
  BY DaemonInvariant, PTL DEF DaemonInv

\* The clean-up of a process signalled with no launchServer on its way leaves every
\* path free until the next start (the signal goroutine and cleanUp of main.go).
THEOREM QuietExitCleansUp == Spec => []QuietExitLeavesNoFile
<1>1. DaemonInv => QuietExitLeavesNoFile
  BY DEF DaemonInv, QuietExit, QuietExitOf, QuietExitLeavesNoFile
<1> QED
  BY <1>1, DaemonInvariant, PTL

\* A process that fails to start or dies takes no path from a running one: a path is
\* lost only to a clean-up, to a gRPC server of that cluster that returns, or with
\* the process that listens there (main.go).
THEOREM FailuresTakeNoPath == Spec => PathLostOnlyToCleanUp
<1> DEFINE LossExcused ==
      \A d \in Daemons, c \in Clusters :
          sock[c] = d /\ sock'[c] # d =>
              \/ proc'[d] = "down"
              \/ \E e \in Daemons : \/ proc[e] = "cleaning" /\ c \in toClean[e]
                                    \/ server[e][c] = "serving" /\ server'[e][c] = "returned"
<1>1. TypeOK /\ [Next]_vars => [LossExcused]_vars
  <2> SUFFICES ASSUME TypeOK, Next PROVE LossExcused
    OBVIOUS
  <2> SUFFICES ASSUME NEW d \in Daemons, NEW c \in Clusters, sock[c] = d, sock'[c] # d
               PROVE  \/ proc'[d] = "down"
                      \/ \E e \in Daemons :
                            \/ proc[e] = "cleaning" /\ c \in toClean[e]
                            \/ server[e][c] = "serving" /\ server'[e][c] = "returned"
    OBVIOUS
  <2> USE DEF TypeOK
  <2>1. ASSUME NEW e \in Daemons, NEW k \in Clusters, CleanUp(e, k)
        PROVE  proc[e] = "cleaning" /\ c \in toClean[e]
    BY <2>1 DEF CleanUp
  <2>2. ASSUME NEW e \in Daemons, NEW how, Dies(e, how) PROVE proc'[d] = "down"
    BY <2>2 DEF Dies
  <2>3. ASSUME NEW e \in Daemons, NEW k \in Clusters, Listen(e, k) PROVE FALSE
    BY <2>3, MarksAssumption DEF Listen
  <2>4. ASSUME NEW e \in Daemons, NEW k \in Clusters, ServeReturns(e, k)
        PROVE  server[e][c] = "serving" /\ server'[e][c] = "returned"
    BY <2>4 DEF ServeReturns
  <2>5. ~RemoveByHand
    BY MarksAssumption DEF RemoveByHand
  <2> QED
    BY <2>1, <2>2, <2>3, <2>4, <2>5
    DEF Next, StartProcess, Signal, Shutdown, Exit, Crash, Launch, ClientReady,
        ListenFails, ClientFails
<1> QED
  BY <1>1, TypeCorrect, PTL DEF Spec, PathLostOnlyToCleanUp
================================================================================
