------------------------------- MODULE AcmDaemon -------------------------------
(* The life of the connection manager process: main.go.  One process serves   *)
(* every cluster of its configuration on a Unix socket of its own, each from  *)
(* a launchServer goroutine; a signal goroutine removes the sockets and exits.*)
(* A socket file outlives a process that does not remove it, and a later      *)
(* net.Listen on the same path then fails.                                    *)
EXTENDS Naturals

CONSTANTS
    Daemons,   \* processes started with the same configuration file
    Clusters,  \* sections of the configuration, each with its own socket path
    NoFile,    \* nothing exists at the path
    Stale,     \* a socket file whose process is gone
    MaxFaults  \* bound on signals, failures, kills and starts next to a running process

ASSUME MarksAssumption ==
    NoFile \notin Daemons /\ Stale \notin Daemons /\ NoFile # Stale
ASSUME BoundAssumption == MaxFaults \in Nat

VARIABLES
    proc,     \* "down", "up" or "cleaning" (the signal goroutine runs cleanUp)
    server,   \* the launchServer goroutine of each process and cluster
    toClean,  \* the sockets cleanUp has still to remove
    exit,     \* how the process ended, until the next start; "quiet" when signalled
              \* with no launchServer still on its way
    sock,     \* what is at each socket path: NoFile, Stale or the listening process
    alone,    \* no two processes have run at the same time so far
    faults

vars == <<proc, server, toClean, exit, sock, alone, faults>>

Stages == {"none", "connecting", "binding", "serving", "returned"}

Init ==
    /\ proc = [d \in Daemons |-> "down"]
    /\ server = [d \in Daemons |-> [c \in Clusters |-> "none"]]
    /\ toClean = [d \in Daemons |-> {}]
    /\ exit = [d \in Daemons |-> "none"]
    /\ sock = [c \in Clusters |-> NoFile]
    /\ alone = TRUE
    /\ faults = 0

Running(d) == proc[d] # "down"

Fault == faults < MaxFaults /\ faults' = faults + 1

\* The process ends: its goroutines are gone, its socket files stay behind.
Dies(d, how) ==
    /\ proc' = [proc EXCEPT ![d] = "down"]
    /\ server' = [server EXCEPT ![d] = [c \in Clusters |-> "none"]]
    /\ toClean' = [toClean EXCEPT ![d] = {}]
    /\ exit' = [exit EXCEPT ![d] = how]
    /\ sock' = [c \in Clusters |-> IF sock[c] = d THEN Stale ELSE sock[c]]
    /\ UNCHANGED alone

(* ----------------------------------- main --------------------------------- *)

\* main reads its configuration and launches one goroutine per cluster.  Nothing
\* keeps it from starting next to a process with the same configuration; that is
\* a mistake of the operator and counts as a fault.
StartProcess(d) ==
    /\ proc[d] = "down"
    /\ LET lone == \A e \in Daemons : ~Running(e) IN
          /\ IF lone THEN UNCHANGED faults ELSE Fault
          /\ alone' = (alone /\ lone)
    /\ proc' = [proc EXCEPT ![d] = "up"]
    /\ server' = [server EXCEPT ![d] = [c \in Clusters |-> "connecting"]]
    /\ exit' = [e \in Daemons |-> "none"]
    /\ UNCHANGED <<toClean, sock>>

(* ------------------------------- launchServer ------------------------------ *)

\* The Aerospike client of the cluster is connected.
ClientReady(d, c) ==
    /\ Running(d)
    /\ server[d][c] = "connecting"
    /\ server' = [server EXCEPT ![d][c] = "binding"]
    /\ UNCHANGED <<proc, toClean, exit, sock, alone, faults>>

\* It is not: log.Fatalln ends the process and runs no clean-up at all.
ClientFails(d, c) ==
    /\ Running(d)
    /\ server[d][c] = "connecting"
    /\ Fault
    /\ Dies(d, "fatal")

\* Mutant: an existing file is removed before listening.
ListenReplaces(d, c) ==
    /\ Running(d)
    /\ server[d][c] = "binding"
    /\ sock' = [sock EXCEPT ![c] = d]
    /\ server' = [server EXCEPT ![d][c] = "serving"]
    /\ UNCHANGED <<proc, toClean, exit, alone, faults>>

\* net.Listen creates the socket file, and the gRPC server starts.
Listen(d, c) ==
    /\ Running(d)
    /\ server[d][c] = "binding"
    /\ sock[c] = NoFile
    /\ sock' = [sock EXCEPT ![c] = d]
    /\ server' = [server EXCEPT ![d][c] = "serving"]
    /\ UNCHANGED <<proc, toClean, exit, alone, faults>>

\* Mutant: a failed net.Listen only ends its goroutine.
ListenGivesUp(d, c) ==
    /\ Running(d)
    /\ server[d][c] = "binding"
    /\ sock[c] # NoFile
    /\ server' = [server EXCEPT ![d][c] = "none"]
    /\ UNCHANGED <<proc, toClean, exit, sock, alone, faults>>

\* net.Listen fails on an existing file: log.Fatalln again.
ListenFails(d, c) ==
    /\ Running(d)
    /\ server[d][c] = "binding"
    /\ sock[c] # NoFile
    /\ Dies(d, "fatal")
    /\ UNCHANGED faults

\* Mutant: a goroutine whose Serve returned cleans up all sockets.
ServeReturnsCleansAll(d, c) ==
    /\ Running(d)
    /\ server[d][c] = "serving"
    /\ Fault
    /\ server' = [server EXCEPT ![d][c] = "returned"]
    /\ sock' = [k \in Clusters |-> NoFile]
    /\ UNCHANGED <<proc, toClean, exit, alone>>

\* Mutant: no deferred os.Remove.
ServeReturnsKeepsFile(d, c) ==
    /\ Running(d)
    /\ server[d][c] = "serving"
    /\ Fault
    /\ server' = [server EXCEPT ![d][c] = "returned"]
    /\ UNCHANGED <<proc, toClean, exit, sock, alone>>

\* Serve returns: the deferred os.Remove removes the path; the process stays.
ServeReturns(d, c) ==
    /\ Running(d)
    /\ server[d][c] = "serving"
    /\ Fault
    /\ server' = [server EXCEPT ![d][c] = "returned"]
    /\ sock' = [sock EXCEPT ![c] = NoFile]
    /\ UNCHANGED <<proc, toClean, exit, alone>>

(* -------------------------------- signals --------------------------------- *)

\* No launchServer is between its start and its listening socket.
Settled(d) == \A c \in Clusters : server[d][c] \in {"serving", "returned"}

\* SIGINT or SIGTERM wakes the signal goroutine.  The program is also stopped,
\* outside the bound, by an operator who sees that it no longer serves a cluster.
Signal(d) ==
    /\ proc[d] = "up"
    /\ \/ Fault
       \/ /\ \E c \in Clusters : server[d][c] \in {"serving", "returned"} /\ sock[c] # d
          /\ UNCHANGED faults
    /\ proc' = [proc EXCEPT ![d] = "cleaning"]
    /\ toClean' = [toClean EXCEPT ![d] = Clusters]
    /\ exit' = [exit EXCEPT ![d] = IF Settled(d) THEN "quiet" ELSE "busy"]
    /\ UNCHANGED <<server, sock, alone>>

\* Mutant: cleanUp keeps a path it cannot account for.
CleanUpSkips(d, c) ==
    /\ proc[d] = "cleaning"
    /\ c \in toClean[d]
    /\ toClean' = [toClean EXCEPT ![d] = {}]
    /\ sock' = [sock EXCEPT ![c] = NoFile]
    /\ UNCHANGED <<proc, server, exit, alone, faults>>

\* cleanUp removes one path, whoever listens there.
CleanUp(d, c) ==
    /\ proc[d] = "cleaning"
    /\ c \in toClean[d]
    /\ toClean' = [toClean EXCEPT ![d] = @ \ {c}]
    /\ sock' = [sock EXCEPT ![c] = NoFile]
    /\ UNCHANGED <<proc, server, exit, alone, faults>>

\* Mutant: the signal goroutine forgets to exit while a cluster is served.
ExitForgotten(d) ==
    /\ proc[d] = "cleaning"
    /\ toClean[d] = {}
    /\ \A c \in Clusters : server[d][c] # "serving"
    /\ Dies(d, exit[d])
    /\ UNCHANGED faults

\* os.Exit(1) after the clean-up.
Exit(d) ==
    /\ proc[d] = "cleaning"
    /\ toClean[d] = {}
    /\ Dies(d, exit[d])
    /\ UNCHANGED faults

\* The process is killed or crashes.
Crash(d) ==
    /\ Running(d)
    /\ Fault
    /\ Dies(d, "crash")

\* README.md: after a crash the operator removes the file by hand.  With several
\* clusters every stale file has to go before the next start: removing them one
\* per failed start never ends, since each failure leaves new ones.
RemoveByHand ==
    /\ \E c \in Clusters : sock[c] = Stale
    /\ sock' = [c \in Clusters |-> IF sock[c] = Stale THEN NoFile ELSE sock[c]]
    /\ UNCHANGED <<proc, server, toClean, exit, alone, faults>>

(* ------------------------------ specification ----------------------------- *)

Launch(d, c) == ClientReady(d, c) \/ Listen(d, c) \/ ListenFails(d, c)

Shutdown(d) == (\E c \in Clusters : CleanUp(d, c)) \/ Exit(d)

Next ==
    \/ \E d \in Daemons :
          \/ StartProcess(d)
          \/ Signal(d)
          \/ Shutdown(d)
          \/ Crash(d)
          \/ \E c \in Clusters :
                Launch(d, c) \/ ClientFails(d, c) \/ ServeReturns(d, c)
    \/ RemoveByHand

Spec == Init /\ [][Next]_vars

\* Goroutines run, and the operator acts: removes stale files, restarts a process
\* that is down and stops one that no longer serves a cluster.
Fairness ==
    /\ \A d \in Daemons :
          /\ WF_vars(Shutdown(d))
          /\ WF_vars(StartProcess(d) /\ UNCHANGED faults)
          /\ WF_vars(Signal(d) /\ UNCHANGED faults)
          /\ \A c \in Clusters : WF_vars(Launch(d, c))
    /\ SF_vars(RemoveByHand)

FairSpec == Spec /\ Fairness

(* -------------------------------- properties ------------------------------ *)

\* Processes, goroutines and socket paths are in one of their states: only a running
\* process has goroutines, only one that cleans up has sockets to remove, and a path
\* never names a process that does not serve it.
TypeOK ==
    /\ proc \in [Daemons -> {"down", "up", "cleaning"}]
    /\ server \in [Daemons -> [Clusters -> Stages]]
    /\ toClean \in [Daemons -> SUBSET Clusters]
    /\ exit \in [Daemons -> {"none", "quiet", "busy", "fatal", "crash"}]
    /\ sock \in [Clusters -> Daemons \cup {NoFile, Stale}]
    /\ alone \in BOOLEAN
    /\ faults \in 0 .. MaxFaults
    /\ \A d \in Daemons : toClean[d] # {} => proc[d] = "cleaning"
    /\ \A d \in Daemons, c \in Clusters :
          (~Running(d) => server[d][c] = "none") /\ (sock[c] = d => server[d][c] = "serving")

\* A cluster can be reached through its path.
Reachable(c) == \E d \in Daemons : sock[c] = d /\ server[d][c] = "serving"

\* While no two processes meet, one that is not shutting down is reachable at the
\* path of every cluster whose gRPC server runs (launchServer, cleanUp), whatever
\* the processes before it left behind.
ServedIsReachable ==
    \A d \in Daemons, c \in Clusters :
        alone /\ proc[d] = "up" /\ server[d][c] = "serving" => sock[c] = d

\* A signal that finds no launchServer on its way leaves no socket file behind
\* (main's signal goroutine and cleanUp), so that the next start can listen: all
\* paths are free until another process is started.
QuietExitLeavesNoFile ==
    \A d \in Daemons :
        alone /\ proc[d] = "down" /\ exit[d] = "quiet" => \A c \in Clusters : sock[c] = NoFile

\* A signalled process ends.
SignalledEnds == \A d \in Daemons : proc[d] = "cleaning" ~> proc[d] = "down"

\* Once faults stop, an operator who removes stale files and restarts gets every
\* cluster served for good.
AllServedInTheEnd == <>[](\A c \in Clusters : Reachable(c))

\* A second process started on the same configuration takes no path from a running
\* one by failing or dying: a path is lost only to a process that is cleaning up, to
\* a gRPC server of that cluster that returns, or with the process listening there.
PathLostOnlyToCleanUp ==
    [][\A d \in Daemons, c \in Clusters :
          sock[c] = d /\ sock'[c] # d =>
              \/ proc'[d] = "down"
              \/ \E e \in Daemons : \/ proc[e] = "cleaning" /\ c \in toClean[e]
                                    \/ server[e][c] = "serving" /\ server'[e][c] = "returned"]_vars
================================================================================
