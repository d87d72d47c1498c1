----------------------------- MODULE AdminCallsProofs -----------------------------
(* Proofs about AdminCalls, for any number of processes and any sequences of    *)
(* calls: an internal error means that nothing was sent, what the programs were *)
(* told of users and roles is true, and arguments arrive in their parameters.   *)
EXTENDS AdminCalls, TLAPS

(* --------------------------- inductive invariant -------------------------- *)

Executed(call) == call.stage \in {"done", "refused"}

\* The caller has not been left in doubt.
NotGivenUp(call) == call.told \in {"nothing", "ok", "aerospike"}

\* What is known of one call: its command is that of its method, and there is none when
\* its arguments cannot be converted; a command completed later is one of those that
\* are; an answer comes after the command was executed or taken on.
SoundCall(call) ==
    /\ call.go \in {NoGo, Command(call.method)}
    /\ call.stage \notin {"sent", "never"} => call.go = Command(call.method) /\ ~Unconvertible(call)
    /\ call.stage \in {"sent", "never"} => call.go = NoGo /\ call.told \in {"nothing", "internal", "unavailable"}
    /\ call.told = "internal" => Unconvertible(call)
    /\ call.stage = "accepted" => Command(call.method).name \in Background
    /\ call.told \in {"ok", "aerospike"} => Executed(call) \/ Command(call.method).name \in Background

Directory == {"user", "role"}

\* Whether the arguments of a call can be converted does not change.
LEMMA SameConversion ==
    ASSUME NEW a, NEW b, a.args = b.args
    PROVE  Unconvertible(a) <=> Unconvertible(b)
  BY DEF Unconvertible

SoundCalls == \A p \in Procs : \A i \in DOMAIN log[p] : SoundCall(log[p][i])

\* Call i of p is the last one of p on o that was executed, and o is as it left it.
Decides(p, i, o) ==
    /\ Touching(log[p][i].method, o) /\ Executed(log[p][i])
    /\ o \in dir <=> Command(log[p][i].method).name \in DOMAIN Creates
    /\ \A j \in DOMAIN log[p] : i < j /\ Touching(log[p][j].method, o) => ~Executed(log[p][j])

\* While no call on o has been given up, o is as some process left it.
Settled(o) ==
    /\ \A p \in Procs : \A i \in DOMAIN log[p] : Touching(log[p][i].method, o) => NotGivenUp(log[p][i])
    /\ \E p \in Procs : \E i \in DOMAIN log[p] : Touching(log[p][i].method, o) /\ Executed(log[p][i])
    => \E p \in Procs : \E i \in DOMAIN log[p] : Decides(p, i, o)

AdminInv == TypeOK /\ SoundCalls /\ \A o \in Directory : Settled(o)

(* -------------------------- what a step does to a log ---------------------- *)

\* The calls of q are as they were.
Same(q) == log'[q] = log[q]

\* Only call i of p changes, to c.
Becomes(p, i, c) ==
    /\ \A q \in Procs \ {p} : Same(q)
    /\ DOMAIN log'[p] = DOMAIN log[p] /\ Len(log'[p]) = Len(log[p])
    /\ log'[p][i] = c
    /\ \A j \in DOMAIN log[p] \ {i} : log'[p][j] = log[p][j]

LEMMA LogTypes ==
    ASSUME TypeOK, NEW p \in Procs
    PROVE  /\ log[p] \in Seq(CallRecords) /\ Len(log[p]) \in Nat /\ DOMAIN log[p] = 1 .. Len(log[p])
           /\ \A i \in DOMAIN log[p] : log[p][i] \in CallRecords
           /\ Waiting(p) => /\ Len(log[p]) \in DOMAIN log[p] /\ Last(p) = log[p][Len(log[p])]
                            /\ Last(p).told = "nothing" /\ Last(p) \in CallRecords
<1>1. log[p] \in Seq(CallRecords)
  BY DEF TypeOK
<1>2. Len(log[p]) \in Nat /\ DOMAIN log[p] = 1 .. Len(log[p]) /\ \A i \in DOMAIN log[p] : log[p][i] \in CallRecords
  BY <1>1
<1>3. ASSUME Waiting(p) PROVE Len(log[p]) \in DOMAIN log[p] /\ Last(p) = log[p][Len(log[p])] /\ Last(p).told = "nothing"
  BY <1>1, <1>2, <1>3 DEF Waiting, Last
<1> QED BY <1>1, <1>2, <1>3

LEMMA SetCallEffect ==
    ASSUME TypeOK, NEW p \in Procs, NEW i \in DOMAIN log[p], NEW c \in CallRecords, SetCall(p, i, c)
    PROVE  Becomes(p, i, c) /\ log' \in [Procs -> Seq(CallRecords)]
<1>1. log[p] \in Seq(CallRecords) /\ DOMAIN log[p] = 1 .. Len(log[p])
  BY LogTypes
<1>2. log' = [log EXCEPT ![p] = [log[p] EXCEPT ![i] = c]]
  BY DEF SetCall
<1>3. log'[p] = [log[p] EXCEPT ![i] = c] /\ \A q \in Procs \ {p} : log'[q] = log[q]
  BY <1>2 DEF TypeOK
<1>4. [log[p] EXCEPT ![i] = c] \in Seq(CallRecords)
  BY <1>1
<1>5. log' \in [Procs -> Seq(CallRecords)]
  BY <1>2, <1>4 DEF TypeOK
<1>6. /\ DOMAIN log'[p] = DOMAIN log[p] /\ log'[p][i] = c
      /\ \A j \in DOMAIN log[p] \ {i} : log'[p][j] = log[p][j]
  BY <1>1, <1>3
<1>7. Len(log'[p]) = Len(log[p])
  BY <1>1, <1>3
<1> QED BY <1>3, <1>5, <1>6, <1>7 DEF Becomes, Same

\* A call that is told its outcome, or makes progress, keeps the types.
LEMMA BecomesType ==
    ASSUME TypeOK, NEW p \in Procs, NEW i \in DOMAIN log[p], NEW c \in CallRecords, SetCall(p, i, c),
           log[p][i].told # "nothing" => c.told # "nothing",
           up' \in BOOLEAN, dir' \subseteq Objects, held' \in [Procs -> SUBSET ClusterPrivileges]
    PROVE  TypeOK'
<1>1. Becomes(p, i, c) /\ log' \in [Procs -> Seq(CallRecords)]
  BY SetCallEffect
<1>2. ASSUME NEW q \in Procs
      PROVE  /\ Len(log'[q]) <= Len(Calls[q])
             /\ \A j \in DOMAIN log'[q] : j < Len(log'[q]) => log'[q][j].told # "nothing"
  <2>1. /\ Len(log[q]) <= Len(Calls[q])
        /\ \A j \in DOMAIN log[q] : j < Len(log[q]) => log[q][j].told # "nothing"
    BY DEF TypeOK
  <2>2. CASE q # p
    BY <1>1, <2>1, <2>2 DEF Becomes, Same
  <2>3. CASE q = p
    BY <1>1, <2>1, <2>3 DEF Becomes
  <2> QED BY <2>2, <2>3
<1> QED BY <1>1, <1>2 DEF TypeOK

LEMMA BecomesSound ==
    ASSUME SoundCalls, NEW p \in Procs, NEW i \in DOMAIN log[p], NEW c, Becomes(p, i, c), SoundCall(c)
    PROVE  SoundCalls'
<1>1. ASSUME NEW q \in Procs, NEW j \in DOMAIN log'[q] PROVE SoundCall(log'[q][j])
  <2>1. CASE q = p /\ j = i
    BY <2>1 DEF Becomes
  <2>2. CASE ~(q = p /\ j = i)
    <3>1. j \in DOMAIN log[q] /\ log'[q][j] = log[q][j]
      BY <2>2 DEF Becomes, Same
    <3>2. SoundCall(log[q][j])
      BY <3>1 DEF SoundCalls
    <3> QED BY <3>1, <3>2
  <2> QED BY <2>1, <2>2
<1> QED BY <1>1 DEF SoundCalls, SoundCall, Executed

\* A step that executes no call on o leaves o settled.
LEMMA StaysSettled ==
    ASSUME NEW o, Settled(o), o \in dir' <=> o \in dir,
           \A p \in Procs : \A i \in DOMAIN log[p] :
              /\ i \in DOMAIN log'[p] /\ log'[p][i].method = log[p][i].method
              /\ Touching(log[p][i].method, o) => (Executed(log'[p][i]) <=> Executed(log[p][i]))
              /\ NotGivenUp(log'[p][i]) => NotGivenUp(log[p][i]),
           \A p \in Procs : \A i \in DOMAIN log'[p] : i \notin DOMAIN log[p] => ~Executed(log'[p][i])
    PROVE  Settled(o)'
<1> SUFFICES ASSUME \A p \in Procs : \A i \in DOMAIN log'[p] :
                       Touching(log'[p][i].method, o) => NotGivenUp(log'[p][i]),
                    NEW q \in Procs, NEW k \in DOMAIN log'[q],
                    Touching(log'[q][k].method, o), Executed(log'[q][k])
             PROVE  \E p \in Procs : \E i \in DOMAIN log'[p] : Decides(p, i, o)'
  BY DEF Settled, NotGivenUp, Executed
<1>1. \A p \in Procs : \A i \in DOMAIN log[p] : Touching(log[p][i].method, o) => NotGivenUp(log[p][i])
  OBVIOUS
<1>2. k \in DOMAIN log[q] /\ Touching(log[q][k].method, o) /\ Executed(log[q][k])
  OBVIOUS
<1>3. PICK p \in Procs : \E i \in DOMAIN log[p] : Decides(p, i, o)
  BY <1>1, <1>2 DEF Settled
<1>4. PICK i \in DOMAIN log[p] : Decides(p, i, o)
  BY <1>3
<1>5. /\ Touching(log[p][i].method, o) /\ Executed(log[p][i])
      /\ o \in dir <=> Command(log[p][i].method).name \in DOMAIN Creates
      /\ \A j \in DOMAIN log[p] : i < j /\ Touching(log[p][j].method, o) => ~Executed(log[p][j])
  BY <1>4 DEF Decides
<1>6. i \in DOMAIN log'[p] /\ log'[p][i].method = log[p][i].method /\ Executed(log'[p][i])
  BY <1>5
<1>7. \A j \in DOMAIN log'[p] : i < j /\ Touching(log'[p][j].method, o) => ~Executed(log'[p][j])
  BY <1>5
<1>8. Decides(p, i, o)'
  BY <1>5, <1>6, <1>7 DEF Decides, Executed
<1> QED BY <1>6, <1>8

\* A call makes progress, and the cluster executes nothing.
LEMMA ProgressStep ==
    ASSUME AdminInv, NEW p \in Procs, NEW i \in DOMAIN log[p], NEW c \in CallRecords, SetCall(p, i, c),
           up' \in BOOLEAN, dir' = dir, held' \in [Procs -> SUBSET ClusterPrivileges],
           c.method = log[p][i].method, Executed(c) <=> Executed(log[p][i]),
           NotGivenUp(c) => NotGivenUp(log[p][i]), log[p][i].told # "nothing" => c.told # "nothing",
           SoundCall(c)
    PROVE  AdminInv'
<1>1. Becomes(p, i, c)
  BY SetCallEffect DEF AdminInv
<1>2. TypeOK'
  BY BecomesType DEF AdminInv, TypeOK
<1>3. SoundCalls'
  BY <1>1, BecomesSound DEF AdminInv
<1>4. \A q \in Procs : \A j \in DOMAIN log[q] :
         /\ j \in DOMAIN log'[q] /\ log'[q][j].method = log[q][j].method
         /\ Executed(log'[q][j]) <=> Executed(log[q][j])
         /\ NotGivenUp(log'[q][j]) => NotGivenUp(log[q][j])
  BY <1>1 DEF Becomes, Same
<1>5. \A q \in Procs : DOMAIN log'[q] = DOMAIN log[q]
  BY <1>1 DEF Becomes, Same
<1>6. \A o \in Directory : Settled(o)'
  BY <1>4, <1>5, StaysSettled DEF AdminInv
<1> QED BY <1>2, <1>3, <1>6 DEF AdminInv

\* Client methods: a call is added to the log.
LEMMA CallStep ==
    ASSUME AdminInv, NEW p \in Procs, Call(p)
    PROVE  AdminInv'
<1>t. TypeOK
  BY DEF AdminInv
<1>1. PICK m \in Calls[p][Len(log[p]) + 1] : \E args \in ArgsOf(p, m) :
         log' = [log EXCEPT ![p] = Append(@, NewCall(m, args))]
  BY DEF Call
<1>2. PICK args \in ArgsOf(p, m) : log' = [log EXCEPT ![p] = Append(@, NewCall(m, args))]
  BY <1>1
<1> DEFINE c == NewCall(m, args)
<1>3. ~Waiting(p) /\ Len(log[p]) < Len(Calls[p]) /\ UNCHANGED <<up, dir, held>>
  BY DEF Call
<1>4. log[p] \in Seq(CallRecords) /\ Len(log[p]) \in Nat /\ DOMAIN log[p] = 1 .. Len(log[p])
  BY <1>t, LogTypes
<1>5. m \in Methods
  <2>1. Calls[p] \in Seq(SUBSET Methods)
    BY CallsAssumption
  <2>2. Len(log[p]) + 1 \in 1 .. Len(Calls[p])
    BY <1>3, <1>4, <2>1
  <2> QED BY <2>1, <2>2
<1>6. args \in AnyArgs
  <2>1. held[p] \subseteq ClusterPrivileges
    BY <1>t DEF TypeOK
  <2> QED BY <2>1 DEF ArgsOf, AnyArgs
<1>7. c \in CallRecords
  BY <1>5, <1>6 DEF CallRecords, Stages, Outcomes, NewCall
<1>8. SoundCall(c) /\ ~Executed(c)
  BY DEF SoundCall, Executed, NewCall
<1> HIDE DEF c
<1>9. log'[p] = Append(log[p], c) /\ \A q \in Procs \ {p} : log'[q] = log[q]
  BY <1>2, <1>t DEF TypeOK, c
<1>10. /\ Len(log'[p]) = Len(log[p]) + 1 /\ DOMAIN log'[p] = 1 .. Len(log[p]) + 1
       /\ log'[p][Len(log[p]) + 1] = c /\ \A j \in 1 .. Len(log[p]) : log'[p][j] = log[p][j]
  BY <1>4, <1>7, <1>9
<1>11. log' \in [Procs -> Seq(CallRecords)]
  <2>1. Append(log[p], c) \in Seq(CallRecords)
    BY <1>4, <1>7
  <2>2. log' = [log EXCEPT ![p] = Append(log[p], c)]
    BY <1>2 DEF c
  <2> QED BY <1>t, <2>1, <2>2 DEF TypeOK
<1>12. \A j \in DOMAIN log[p] : log[p][j].told # "nothing"
  <2> SUFFICES ASSUME NEW j \in DOMAIN log[p] PROVE log[p][j].told # "nothing"
    OBVIOUS
  <2>1. CASE j < Len(log[p])
    BY <1>t, <2>1 DEF TypeOK
  <2>2. CASE j = Len(log[p])
    BY <1>3, <1>4, <2>2 DEF Waiting, Last
  <2> QED BY <1>4, <2>1, <2>2
<1>13. TypeOK'
  <2>1. ASSUME NEW q \in Procs
        PROVE  /\ Len(log'[q]) <= Len(Calls[q])
               /\ \A j \in DOMAIN log'[q] : j < Len(log'[q]) => log'[q][j].told # "nothing"
    <3>1. CASE q = p
      <4>1. Len(Calls[p]) \in Nat
        BY CallsAssumption
      <4>2. Len(log'[p]) <= Len(Calls[p])
        BY <1>3, <1>4, <1>10, <4>1
      <4>3. ASSUME NEW j \in DOMAIN log'[p], j < Len(log'[p]) PROVE log'[p][j].told # "nothing"
        <5>1. j \in DOMAIN log[p] /\ log'[p][j] = log[p][j]
          BY <1>4, <1>10, <4>3
        <5> QED BY <1>12, <5>1
      <4> QED BY <3>1, <4>2, <4>3
    <3>2. CASE q # p
      BY <1>t, <1>9, <3>2 DEF TypeOK
    <3> QED BY <3>1, <3>2
  <2> QED BY <1>t, <1>3, <1>11, <2>1 DEF TypeOK
<1>14. SoundCalls'
  <2>1. ASSUME NEW q \in Procs, NEW j \in DOMAIN log'[q] PROVE SoundCall(log'[q][j])
    <3>1. CASE q = p /\ j = Len(log[p]) + 1
      BY <1>8, <1>10, <3>1
    <3>2. CASE q = p /\ j # Len(log[p]) + 1
      BY <1>4, <1>10, <3>2 DEF AdminInv, SoundCalls
    <3>3. CASE q # p
      BY <1>9, <3>3 DEF AdminInv, SoundCalls
    <3> QED BY <3>1, <3>2, <3>3
  <2> QED BY <2>1 DEF SoundCalls, SoundCall, Executed
<1>15. \A q \in Procs : \A j \in DOMAIN log[q] : j \in DOMAIN log'[q] /\ log'[q][j] = log[q][j]
  BY <1>4, <1>9, <1>10
<1>16. \A q \in Procs : \A j \in DOMAIN log'[q] : j \notin DOMAIN log[q] => ~Executed(log'[q][j])
  BY <1>4, <1>8, <1>9, <1>10
<1>17. \A o \in Directory : Settled(o)'
  BY <1>3, <1>15, <1>16, StaysSettled DEF AdminInv
<1> QED BY <1>13, <1>14, <1>17 DEF AdminInv

\* The handlers of kvs.go, up to the command or to the panic of a conversion.
LEMMA HandleStep ==
    ASSUME AdminInv, NEW p \in Procs, Handle(p)
    PROVE  AdminInv'
<1>t. TypeOK
  BY DEF AdminInv
<1>1. /\ Waiting(p) /\ Last(p).stage = "sent" /\ UNCHANGED <<up, dir, held>>
      /\ SetLast(p, IF Unconvertible(Last(p))
                    THEN [Last(p) EXCEPT !.stage = "never", !.told = "internal"]
                    ELSE [Last(p) EXCEPT !.stage = "going", !.go = Command(Last(p).method)])
  BY DEF Handle
<1>2. PICK i : i = Len(log[p])
  OBVIOUS
<1>3. i \in DOMAIN log[p] /\ Last(p) = log[p][i] /\ log[p][i].told = "nothing" /\ log[p][i] \in CallRecords
  BY <1>t, <1>1, <1>2, LogTypes
<1>4. SoundCall(log[p][i])
  BY <1>3 DEF AdminInv, SoundCalls
<1>5. up' \in BOOLEAN /\ dir' = dir /\ held' \in [Procs -> SUBSET ClusterPrivileges]
  BY <1>t, <1>1 DEF TypeOK
<1>6. ~Executed(log[p][i]) /\ NotGivenUp(log[p][i])
  BY <1>1, <1>3 DEF Executed, NotGivenUp
<1>7. CASE Unconvertible(log[p][i])
  <2> DEFINE c == [log[p][i] EXCEPT !.stage = "never", !.told = "internal"]
  <2>1. SetCall(p, i, c)
    BY <1>1, <1>2, <1>3, <1>7 DEF SetLast
  <2>2. /\ c \in CallRecords /\ c.stage = "never" /\ c.go = log[p][i].go /\ c.told = "internal"
        /\ c.method = log[p][i].method /\ c.args = log[p][i].args
    BY <1>3 DEF CallRecords, Stages, Outcomes
  <2> HIDE DEF c
  <2>3. SoundCall(c) /\ ~Executed(c)
    BY <1>1, <1>3, <1>4, <1>7, <2>2, SameConversion DEF SoundCall, Executed
  <2> QED BY <1>3, <1>5, <1>6, <2>1, <2>2, <2>3, ProgressStep
<1>8. CASE ~Unconvertible(log[p][i])
  <2> DEFINE c == [log[p][i] EXCEPT !.stage = "going", !.go = Command(log[p][i].method)]
  <2>1. SetCall(p, i, c)
    BY <1>1, <1>2, <1>3, <1>8 DEF SetLast
  <2>2. /\ c \in CallRecords /\ c.stage = "going" /\ c.go = Command(c.method) /\ c.told = "nothing"
        /\ c.method = log[p][i].method /\ c.args = log[p][i].args
    BY <1>3 DEF CallRecords, Stages
  <2> HIDE DEF c
  <2>3. SoundCall(c) /\ ~Executed(c)
    BY <1>8, <2>2, SameConversion DEF SoundCall, Executed
  <2> QED BY <1>3, <1>5, <1>6, <2>1, <2>2, <2>3, ProgressStep
<1> QED BY <1>7, <1>8

\* The answers, and the calls the Go client gives up.
LEMMA ToldStep ==
    ASSUME AdminInv, NEW p \in Procs, Answer(p) \/ GiveUp(p)
    PROVE  AdminInv'
<1>t. TypeOK
  BY DEF AdminInv
<1>1. PICK o \in {"ok", "aerospike", "timeout"} :
         /\ Waiting(p) /\ SetLast(p, [Last(p) EXCEPT !.told = o])
         /\ Last(p).stage \in {"going", "accepted", "done", "refused", "lost"}
         /\ o # "timeout" => Last(p).stage \in {"accepted", "done", "refused"}
  BY DEF Answer, GiveUp
<1>2. PICK i : i = Len(log[p])
  OBVIOUS
<1>3. i \in DOMAIN log[p] /\ Last(p) = log[p][i] /\ log[p][i].told = "nothing" /\ log[p][i] \in CallRecords
  BY <1>t, <1>1, <1>2, LogTypes
<1>4. SoundCall(log[p][i])
  BY <1>3 DEF AdminInv, SoundCalls
<1> DEFINE c == [log[p][i] EXCEPT !.told = o]
<1>5. SetCall(p, i, c)
  BY <1>1, <1>2, <1>3 DEF SetLast
<1>6. /\ c \in CallRecords /\ c.told = o /\ c.stage = log[p][i].stage /\ c.go = log[p][i].go
      /\ c.method = log[p][i].method /\ c.args = log[p][i].args
  BY <1>3 DEF CallRecords, Outcomes
<1> HIDE DEF c
<1>7. SoundCall(c)
  BY <1>1, <1>3, <1>4, <1>6, SameConversion DEF SoundCall, Executed
<1>8. (Executed(c) <=> Executed(log[p][i])) /\ NotGivenUp(log[p][i])
  BY <1>3, <1>6 DEF Executed, NotGivenUp
<1>9. up' \in BOOLEAN /\ dir' = dir
  BY <1>t DEF TypeOK, Answer, GiveUp
<1>10. held' \in [Procs -> SUBSET ClusterPrivileges]
  <2>1. CASE GiveUp(p)
    BY <1>t, <2>1 DEF TypeOK, GiveUp
  <2>2. CASE Answer(p)
    <3>1. PICK S \in SUBSET ClusterPrivileges : held' = [held EXCEPT ![p] = @ \cup S]
      BY <2>2 DEF Answer
    <3> QED BY <1>t, <3>1 DEF TypeOK
  <2> QED BY <2>1, <2>2
<1>11. log[p][i].told # "nothing" => c.told # "nothing"
  BY <1>3
<1> QED BY <1>3, <1>5, <1>6, <1>7, <1>8, <1>9, <1>10, <1>11, ProgressStep

LEMMA LoseStep ==
    ASSUME AdminInv, NEW p \in Procs, NEW i \in DOMAIN log[p], Lose(p, i)
    PROVE  AdminInv'
<1>t. TypeOK
  BY DEF AdminInv
<1>1. /\ log[p][i].stage = "going" /\ UNCHANGED <<up, dir, held>>
      /\ SetCall(p, i, [log[p][i] EXCEPT !.stage = "lost"])
  BY DEF Lose
<1>2. log[p][i] \in CallRecords /\ SoundCall(log[p][i])
  BY <1>t, LogTypes DEF AdminInv, SoundCalls
<1> DEFINE c == [log[p][i] EXCEPT !.stage = "lost"]
<1>3. SetCall(p, i, c)
  BY <1>1
<1>4. /\ c \in CallRecords /\ c.told = log[p][i].told /\ c.stage = "lost" /\ c.go = log[p][i].go
      /\ c.method = log[p][i].method /\ c.args = log[p][i].args
  BY <1>2 DEF CallRecords, Stages
<1> HIDE DEF c
<1>5. SoundCall(c) /\ ~Executed(c) /\ ~Executed(log[p][i]) /\ (NotGivenUp(c) => NotGivenUp(log[p][i]))
  BY <1>1, <1>2, <1>4, SameConversion DEF SoundCall, Executed, NotGivenUp
<1>6. up' \in BOOLEAN /\ dir' = dir /\ held' \in [Procs -> SUBSET ClusterPrivileges]
  BY <1>t, <1>1 DEF TypeOK
<1> QED BY <1>3, <1>4, <1>5, <1>6, ProgressStep

(* ------------------------------- the cluster ------------------------------- *)

LEMMA ClusterTables ==
    /\ \A n \in DOMAIN Creates : Creates[n] \in Objects /\ n \notin DOMAIN Drops /\ Needs(n) = {}
    /\ \A n \in DOMAIN Drops : Needs(n) = {Drops[n]} /\ n \notin {"CreateUser", "CreateRole", "CreateComplexIndex"}
<1>1. /\ DOMAIN Creates = {"CreateUser", "CreateRole", "CreateComplexIndex", "RegisterUDF"}
      /\ DOMAIN Drops = {"DropUser", "DropRole", "DropIndex", "RemoveUDF"}
  BY DEF Creates, Drops
<1>2. \A n \in DOMAIN Creates : Creates[n] \in Objects
  BY DEF Creates, Objects
<1>3. \A n \in DOMAIN Creates : n \notin DOMAIN Drops /\ Needs(n) = {}
  BY <1>1 DEF Needs
<1>4. \A n \in DOMAIN Drops : Needs(n) = {Drops[n]} /\ n \notin {"CreateUser", "CreateRole", "CreateComplexIndex"}
  BY <1>1 DEF Needs
<1> QED BY <1>2, <1>3, <1>4

\* A call on o that creates it is refused only when it is there, and one that drops it
\* when it is not.
LEMMA RefusedEffect ==
    ASSUME NEW m, NEW o, Touching(m, o), Refused(Command(m).name, dir)
    PROVE  o \in dir <=> Command(m).name \in DOMAIN Creates
  BY ClusterTables DEF Refused, Touching

\* A call on o that is executed leaves it there if it creates it, and else not.
LEMMA AfterEffect ==
    ASSUME NEW m, NEW o, Touching(m, o)
    PROVE  o \in After(Command(m).name, dir) <=> Command(m).name \in DOMAIN Creates
  BY ClusterTables DEF After, Touching

\* Other calls leave o alone.
LEMMA AfterFrame ==
    ASSUME NEW m, NEW o, ~Touching(m, o)
    PROVE  o \in After(Command(m).name, dir) <=> o \in dir
  BY DEF After, Touching

LEMMA AfterType ==
    ASSUME NEW n, dir \subseteq Objects
    PROVE  After(n, dir) \subseteq Objects
  BY ClusterTables DEF After

\* Commands on users and roles are not completed later.
LEMMA NotInBackground ==
    ASSUME NEW m, NEW o \in Directory, Touching(m, o)
    PROVE  Command(m).name \notin Background
<1>1. /\ Creates["CreateComplexIndex"] = "index" /\ Creates["RegisterUDF"] = "package"
      /\ Drops["RemoveUDF"] = "package" /\ "RemoveUDF" \notin DOMAIN Creates
      /\ DOMAIN Drops \cap {"CreateComplexIndex", "RegisterUDF"} = {}
  BY DEF Creates, Drops
<1> QED BY <1>1 DEF Background, Touching, Directory

\* The cluster completes a command: no user and no role changes.
LEMMA CompleteStep ==
    ASSUME AdminInv, NEW p \in Procs, NEW i \in DOMAIN log[p], Complete(p, i)
    PROVE  AdminInv'
<1>t. TypeOK
  BY DEF AdminInv
<1>1. log[p][i] \in CallRecords /\ SoundCall(log[p][i]) /\ log[p][i].stage = "accepted"
  BY <1>t, LogTypes DEF AdminInv, SoundCalls, Complete
<1>2. /\ log[p][i].go.name = Command(log[p][i].method).name
      /\ Command(log[p][i].method).name \in Background
  BY <1>1 DEF SoundCall
<1> DEFINE c == [log[p][i] EXCEPT !.stage = "done"]
<1>3. SetCall(p, i, c) /\ dir' = After(Command(log[p][i].method).name, dir) /\ UNCHANGED <<up, held>>
  BY <1>2 DEF Complete
<1>4. /\ c \in CallRecords /\ c.told = log[p][i].told /\ c.stage = "done" /\ c.go = log[p][i].go
      /\ c.method = log[p][i].method /\ c.args = log[p][i].args
  BY <1>1 DEF CallRecords, Stages
<1> HIDE DEF c
<1>5. SoundCall(c) /\ (NotGivenUp(c) <=> NotGivenUp(log[p][i]))
  BY <1>1, <1>4, SameConversion DEF SoundCall, Executed, NotGivenUp
<1>6. Becomes(p, i, c)
  BY <1>t, <1>3, <1>4, SetCallEffect
<1>7. TypeOK'
  <2>1. up' \in BOOLEAN /\ held' \in [Procs -> SUBSET ClusterPrivileges] /\ dir' \subseteq Objects
    BY <1>t, <1>3, AfterType DEF TypeOK
  <2> QED BY <1>t, <1>3, <1>4, <2>1, BecomesType
<1>8. SoundCalls'
  BY <1>5, <1>6, BecomesSound DEF AdminInv
<1>9. ASSUME NEW o \in Directory PROVE Settled(o)'
  <2>1. ~Touching(log[p][i].method, o)
    BY <1>2, NotInBackground
  <2>2. o \in dir' <=> o \in dir
    BY <1>3, <2>1, AfterFrame
  <2>3. \A q \in Procs : \A j \in DOMAIN log[q] :
           /\ j \in DOMAIN log'[q] /\ log'[q][j].method = log[q][j].method
           /\ Touching(log[q][j].method, o) => (Executed(log'[q][j]) <=> Executed(log[q][j]))
           /\ NotGivenUp(log'[q][j]) => NotGivenUp(log[q][j])
    BY <1>4, <1>5, <1>6, <2>1 DEF Becomes, Same
  <2>4. \A q \in Procs : DOMAIN log'[q] = DOMAIN log[q]
    BY <1>6 DEF Becomes, Same
  <2> QED BY <2>2, <2>3, <2>4, StaysSettled DEF AdminInv
<1> QED BY <1>7, <1>8, <1>9 DEF AdminInv

\* The cluster executes a command, takes it on or refuses it, late ones too.
LEMMA ExecuteStep ==
    ASSUME AdminInv, NEW p \in Procs, NEW i \in DOMAIN log[p], Execute(p, i)
    PROVE  AdminInv'
<1>t. TypeOK
  BY DEF AdminInv
<1>1. log[p][i] \in CallRecords /\ SoundCall(log[p][i]) /\ log[p][i].stage = "going"
  BY <1>t, LogTypes DEF AdminInv, SoundCalls, Execute
<1>2. PICK name : name = Command(log[p][i].method).name
  OBVIOUS
<1>3. log[p][i].go.name = name
  BY <1>1, <1>2 DEF SoundCall
<1>4. PICK st \in {"done", "accepted", "refused"} :
         /\ SetCall(p, i, [log[p][i] EXCEPT !.stage = st])
         /\ st = "done" => dir' = After(name, dir)
         /\ st = "accepted" => dir' = dir /\ name \in Background
         /\ st = "refused" => dir' = dir /\ Refused(name, dir)
  BY <1>3 DEF Execute
<1>5. UNCHANGED <<up, held>>
  BY DEF Execute
<1> DEFINE c == [log[p][i] EXCEPT !.stage = st]
<1>6. SetCall(p, i, c)
  BY <1>4
<1>7. /\ c \in CallRecords /\ c.told = log[p][i].told /\ c.stage = st /\ c.go = log[p][i].go
      /\ c.method = log[p][i].method /\ c.args = log[p][i].args
  BY <1>1 DEF CallRecords, Stages
<1> HIDE DEF c
<1>8. SoundCall(c) /\ (st # "accepted" => Executed(c)) /\ (NotGivenUp(c) <=> NotGivenUp(log[p][i]))
  BY <1>1, <1>2, <1>4, <1>7, SameConversion DEF SoundCall, Executed, NotGivenUp
<1>9. Becomes(p, i, c)
  BY <1>t, <1>6, <1>7, SetCallEffect
<1>10. dir' \subseteq Objects
  BY <1>t, <1>4, AfterType DEF TypeOK
<1>11. TypeOK'
  <2>1. up' \in BOOLEAN /\ held' \in [Procs -> SUBSET ClusterPrivileges]
    BY <1>t, <1>5 DEF TypeOK
  <2> QED BY <1>t, <1>6, <1>7, <1>10, <2>1, BecomesType
<1>12. SoundCalls'
  BY <1>8, <1>9, BecomesSound DEF AdminInv
<1>13. ASSUME NEW o \in Directory PROVE Settled(o)'
  <2>1. CASE ~Touching(log[p][i].method, o)
    <3>1. o \in dir' <=> o \in dir
      BY <1>2, <1>4, <2>1, AfterFrame
    <3>2. \A q \in Procs : \A j \in DOMAIN log[q] :
             /\ j \in DOMAIN log'[q] /\ log'[q][j].method = log[q][j].method
             /\ Touching(log[q][j].method, o) => (Executed(log'[q][j]) <=> Executed(log[q][j]))
             /\ NotGivenUp(log'[q][j]) => NotGivenUp(log[q][j])
      BY <1>7, <1>8, <1>9, <2>1 DEF Becomes, Same
    <3>3. \A q \in Procs : DOMAIN log'[q] = DOMAIN log[q]
      BY <1>9 DEF Becomes, Same
    <3> QED BY <3>1, <3>2, <3>3, StaysSettled DEF AdminInv
  <2>2. CASE Touching(log[p][i].method, o)
    <3>1. SUFFICES ASSUME \A q \in Procs : \A j \in DOMAIN log'[q] :
                             Touching(log'[q][j].method, o) => NotGivenUp(log'[q][j])
                   PROVE  Decides(p, i, o)' /\ i \in DOMAIN log'[p]
      BY DEF Settled, NotGivenUp, Executed
    <3>2. i \in DOMAIN log'[p] /\ log'[p][i] = c /\ DOMAIN log'[p] = DOMAIN log[p]
      BY <1>9 DEF Becomes
    <3>3. NotGivenUp(log[p][i]) /\ name \notin Background /\ st # "accepted"
      BY <1>2, <1>4, <1>7, <1>8, <2>2, <3>1, <3>2, NotInBackground
    <3>4. log[p][i].told = "nothing"
      BY <1>1, <1>2, <3>3 DEF SoundCall, NotGivenUp, Executed
    <3>5. \A j \in DOMAIN log[p] : ~(i < j)
      BY <1>t, <3>4, LogTypes DEF TypeOK
    <3>6. o \in dir' <=> name \in DOMAIN Creates
      BY <1>2, <1>4, <2>2, <3>3, RefusedEffect, AfterEffect
    <3>7. /\ Touching(log'[p][i].method, o) /\ Executed(log'[p][i])
          /\ o \in dir' <=> Command(log'[p][i].method).name \in DOMAIN Creates
          /\ \A j \in DOMAIN log'[p] : i < j /\ Touching(log'[p][j].method, o) => ~Executed(log'[p][j])
      BY <1>2, <1>7, <1>8, <2>2, <3>2, <3>3, <3>5, <3>6
    <3> QED BY <3>2, <3>7 DEF Decides, Executed
  <2> QED BY <2>1, <2>2
<1> QED BY <1>11, <1>12, <1>13 DEF AdminInv

\* The connection manager dies: every call that waits is in doubt.
LEMMA CrashStep ==
    ASSUME AdminInv, Crash
    PROVE  AdminInv'
<1>t. TypeOK
  BY DEF AdminInv
<1>1. up' = FALSE /\ dir' = dir /\ held' = held
  BY DEF Crash
<1>2. log' = [p \in Procs |->
                 IF Waiting(p)
                 THEN [log[p] EXCEPT ![Len(log[p])] = Dropped(Last(p))]
                 ELSE log[p]]
  BY DEF Crash
<1>3. ASSUME NEW p \in Procs
      PROVE  /\ log'[p] \in Seq(CallRecords) /\ DOMAIN log'[p] = DOMAIN log[p] /\ Len(log'[p]) = Len(log[p])
             /\ \A i \in DOMAIN log[p] :
                   /\ log'[p][i].method = log[p][i].method
                   /\ Executed(log'[p][i]) <=> Executed(log[p][i])
                   /\ NotGivenUp(log'[p][i]) => NotGivenUp(log[p][i])
                   /\ log[p][i].told # "nothing" => log'[p][i].told # "nothing"
                   /\ SoundCall(log'[p][i])
  <2>1. CASE ~Waiting(p)
    BY <1>t, <1>2, <2>1, LogTypes DEF AdminInv, SoundCalls
  <2>2. CASE Waiting(p)
    <3>1. PICK n : n = Len(log[p])
      OBVIOUS
    <3>2. /\ log[p] \in Seq(CallRecords) /\ n \in DOMAIN log[p] /\ log[p][n] \in CallRecords
          /\ log[p][n].told = "nothing" /\ DOMAIN log[p] = 1 .. Len(log[p]) /\ Last(p) = log[p][n]
      BY <1>t, <2>2, <3>1, LogTypes
    <3> DEFINE st == IF log[p][n].stage = "sent" THEN "never" ELSE log[p][n].stage
               c == [log[p][n] EXCEPT !.told = "unavailable", !.stage = st]
    <3>3. log'[p] = [log[p] EXCEPT ![n] = c]
      BY <1>2, <2>2, <3>1, <3>2 DEF Dropped
    <3>4. /\ c \in CallRecords /\ c.told = "unavailable" /\ c.stage = st /\ c.go = log[p][n].go
          /\ c.method = log[p][n].method /\ c.args = log[p][n].args
      BY <3>2 DEF CallRecords, Stages, Outcomes
    <3>5. \A i \in DOMAIN log[p] : SoundCall(log[p][i])
      BY DEF AdminInv, SoundCalls
    <3> HIDE DEF c
    <3>6. /\ SoundCall(c) /\ ~NotGivenUp(c) /\ (Executed(c) <=> Executed(log[p][n]))
      BY <3>2, <3>4, <3>5, SameConversion DEF SoundCall, NotGivenUp, Executed
    <3>7. log'[p] \in Seq(CallRecords) /\ DOMAIN log'[p] = DOMAIN log[p] /\ Len(log'[p]) = Len(log[p])
      BY <3>2, <3>3, <3>4
    <3>8. log'[p][n] = c /\ \A i \in DOMAIN log[p] \ {n} : log'[p][i] = log[p][i]
      BY <3>2, <3>3
    <3> QED BY <3>2, <3>4, <3>5, <3>6, <3>7, <3>8
  <2> QED BY <2>1, <2>2
<1>4. log' \in [Procs -> Seq(CallRecords)]
  <2>1. DOMAIN log' = Procs /\ log' = [p \in Procs |-> log'[p]]
    BY <1>2
  <2> QED BY <1>3, <2>1
<1>5. TypeOK'
  <2>1. ASSUME NEW q \in Procs
        PROVE  /\ Len(log'[q]) <= Len(Calls[q])
               /\ \A j \in DOMAIN log'[q] : j < Len(log'[q]) => log'[q][j].told # "nothing"
    BY <1>t, <1>3 DEF TypeOK
  <2> QED BY <1>t, <1>1, <1>4, <2>1 DEF TypeOK
<1>6. SoundCalls'
  <2>1. \A p \in Procs : \A i \in DOMAIN log'[p] : SoundCall(log'[p][i])
    BY <1>3
  <2> QED BY <2>1 DEF SoundCalls, SoundCall, Executed
<1>7. \A o \in Directory : Settled(o)'
  BY <1>1, <1>3, StaysSettled DEF AdminInv
<1> QED BY <1>5, <1>6, <1>7 DEF AdminInv

(* -------------------------------- theorems -------------------------------- *)

LEMMA AdminInit == Init => AdminInv
<1> SUFFICES ASSUME Init PROVE AdminInv
  OBVIOUS
<1>1. \A p \in Procs : log[p] = << >> /\ DOMAIN log[p] = {} /\ Len(log[p]) = 0
  BY DEF Init
<1>2. \A p \in Procs : Len(Calls[p]) \in Nat
  BY CallsAssumption
<1>3. log \in [Procs -> Seq(CallRecords)]
  BY DEF Init
<1>4. TypeOK
  BY <1>1, <1>2, <1>3, FoundsAssumption DEF Init, TypeOK
<1>5. SoundCalls
  BY <1>1 DEF SoundCalls
<1>6. \A o \in Directory : Settled(o)
  BY <1>1 DEF Settled
<1> QED BY <1>4, <1>5, <1>6 DEF AdminInv

LEMMA AdminStep == AdminInv /\ [Next]_vars => AdminInv'
<1> SUFFICES ASSUME AdminInv, [Next]_vars PROVE AdminInv'
  OBVIOUS
<1>1. ASSUME NEW p \in Procs, Call(p) \/ Handle(p) \/ Answer(p) \/ GiveUp(p) PROVE AdminInv'
  BY <1>1, CallStep, HandleStep, ToldStep
<1>2. ASSUME NEW p \in Procs, NEW i \in DOMAIN log[p], Execute(p, i) \/ Complete(p, i) \/ Lose(p, i)
      PROVE  AdminInv'
  BY <1>2, ExecuteStep, CompleteStep, LoseStep
<1>3. CASE Crash
  BY <1>3, CrashStep
<1>4. CASE Restart \/ UNCHANGED vars
  <2>1. UNCHANGED <<dir, log, held>> /\ up' \in BOOLEAN
    BY <1>4 DEF Restart, vars, AdminInv, TypeOK
  <2>2. TypeOK'
    BY <2>1 DEF AdminInv, TypeOK
  <2>3. SoundCalls'
    BY <2>1 DEF AdminInv, SoundCalls
  <2>4. \A o \in Directory : Settled(o)'
    BY <2>1, StaysSettled DEF AdminInv
  <2> QED BY <2>2, <2>3, <2>4 DEF AdminInv
<1> QED BY <1>1, <1>2, <1>3, <1>4 DEF Next, Finished

LEMMA AdminInvariant == Spec => []AdminInv
  BY AdminInit, AdminStep, PTL DEF Spec

\* Variables keep their types, and the calls of a process follow one another.
THEOREM TypeCorrect == Spec => []TypeOK
<1>1. AdminInv => TypeOK
  BY DEF AdminInv
<1> QED BY <1>1, AdminInvariant, PTL

\* For any keys, filters and privileges: an internal error comes from a conversion of a
\* handler that panicked, and then no command is sent, now or later; a call whose
\* arguments cannot be converted ends so, or with the connection manager.
THEOREM InternalErrorsAreUnsent == Spec => []InternalMeansUnsent
<1>1. AdminInv => InternalMeansUnsent
  BY DEF AdminInv, SoundCalls, SoundCall, InternalMeansUnsent
<1> QED BY <1>1, AdminInvariant, PTL

\* Users and roles are as the programs were told, for any number of processes, lost and
\* late commands and crashes of the connection manager: when every call that creates or
\* drops one was answered by the cluster, some process is right about it.
THEOREM ToldTheTruth == Spec => []ToldIsTrue
<1>1. AdminInv => ToldIsTrue
  <2> SUFFICES ASSUME AdminInv, NEW o \in Directory, NEW u \in Procs, Touches(u, o) # {},
                      \A p \in Procs : Touches(p, o) # {} => Certain(p, o)
               PROVE  \E p \in Procs : Touches(p, o) # {} /\ (o \in dir <=> Believes(p, o))
    BY DEF ToldIsTrue, Directory
  <2>1. ASSUME NEW p \in Procs, NEW i \in DOMAIN log[p], Touching(log[p][i].method, o)
        PROVE  NotGivenUp(log[p][i]) /\ Executed(log[p][i]) /\ i \in Touches(p, o)
    <3>1. i \in Touches(p, o)
      BY <2>1 DEF Touches
    <3>2. log[p][i].told \in {"ok", "aerospike"}
      BY <3>1 DEF Certain
    <3> QED BY <2>1, <3>1, <3>2, NotInBackground DEF AdminInv, SoundCalls, SoundCall, NotGivenUp
  <2>2. PICK k \in DOMAIN log[u] : Touching(log[u][k].method, o)
    BY DEF Touches
  <2>3. PICK p \in Procs : \E i \in DOMAIN log[p] : Decides(p, i, o)
    BY <2>1, <2>2 DEF AdminInv, Settled
  <2>4. PICK i \in DOMAIN log[p] : Decides(p, i, o)
    BY <2>3
  <2>5. i \in Touches(p, o)
    BY <2>1, <2>4 DEF Decides
  <2>6. \A j \in Touches(p, o) : j \in Nat /\ i \in Nat /\ ~(i < j)
    <3>1. DOMAIN log[p] = 1 .. Len(log[p]) /\ Len(log[p]) \in Nat
      BY LogTypes DEF AdminInv
    <3>2. \A j \in DOMAIN log[p] : Touching(log[p][j].method, o) => ~(i < j)
      BY <2>1, <2>4 DEF Decides
    <3> QED BY <3>1, <3>2 DEF Touches
  <2>7. \A l \in Touches(p, o) : (\A j \in Touches(p, o) : j <= l) <=> l = i
    BY <2>5, <2>6
  <2>8. (CHOOSE l \in Touches(p, o) : \A j \in Touches(p, o) : j <= l) = i
    BY <2>5, <2>7
  <2>9. Believes(p, o) <=> Command(log[p][i].method).name \in DOMAIN Creates
    BY <2>8 DEF Believes
  <2> QED BY <2>4, <2>5, <2>9 DEF Decides
<1> QED BY <1>1, AdminInvariant, PTL

(* ----------------------------- arguments of a call ------------------------- *)

\* The command of method m has each argument in the parameter of its name, but for ctx.
Arrives(m) ==
    Command(m).given = {<<x, x>> : x \in Requests[m].params} <=> m # "create_index_in"

\* The methods of each table, one by one: the message, the function of the Go client that
\* its handler calls with which fields, and the parameters of that function.
LEMMA UserRequestsArrive ==
    ASSUME NEW m \in DOMAIN UserRequests
    PROVE  m \in Methods /\ Arrives(m)
<1>1. m \in {"create_user", "drop_user", "change_password", "grant_roles", "revoke_roles", "query_users",
              "query_user"}
  BY DEF UserRequests
<1>2. m \in Methods /\ Requests[m] = UserRequests[m]
  BY <1>1 DEF Requests, Methods, UserRequests, RoleRequests, RoleChanges, IndexRequests, UdfRequests,
              TruncateRequests
<1>3. CASE m = "create_user"
  <2>1. Requests[m] = Asks("CreateUser", {"policy", "user", "password", "roles"})
    BY <1>2, <1>3 DEF UserRequests
  <2>2. Handler(Requests[m]) = GoCall("CreateUser", <<"policy", "user", "password", "roles">>)
    BY <2>1 DEF Handler, UserHandlers, RoleHandlers, OtherHandlers, Asks
  <2>3. GoParams["CreateUser"] = <<"policy", "user", "password", "roles">>
    BY DEF GoParams
  <2> QED BY <1>2, <1>3, <2>1, <2>2, <2>3 DEF Arrives, Command, Given, Asks, GoCall
<1>4. CASE m = "drop_user"
  <2>1. Requests[m] = Asks("DropUser", {"policy", "user"})
    BY <1>2, <1>4 DEF UserRequests
  <2>2. Handler(Requests[m]) = GoCall("DropUser", <<"policy", "user">>)
    BY <2>1 DEF Handler, UserHandlers, RoleHandlers, OtherHandlers, Asks
  <2>3. GoParams["DropUser"] = <<"policy", "user">>
    BY DEF GoParams
  <2> QED BY <1>2, <1>4, <2>1, <2>2, <2>3 DEF Arrives, Command, Given, Asks, GoCall
<1>5. CASE m = "change_password"
  <2>1. Requests[m] = Asks("ChangePassword", {"policy", "user", "password"})
    BY <1>2, <1>5 DEF UserRequests
  <2>2. Handler(Requests[m]) = GoCall("ChangePassword", <<"policy", "user", "password">>)
    BY <2>1 DEF Handler, UserHandlers, RoleHandlers, OtherHandlers, Asks
  <2>3. GoParams["ChangePassword"] = <<"policy", "user", "password">>
    BY DEF GoParams
  <2> QED BY <1>2, <1>5, <2>1, <2>2, <2>3 DEF Arrives, Command, Given, Asks, GoCall
<1>6. CASE m = "grant_roles"
  <2>1. Requests[m] = Asks("GrantRoles", {"policy", "user", "roles"})
    BY <1>2, <1>6 DEF UserRequests
  <2>2. Handler(Requests[m]) = GoCall("GrantRoles", <<"policy", "user", "roles">>)
    BY <2>1 DEF Handler, UserHandlers, RoleHandlers, OtherHandlers, Asks
  <2>3. GoParams["GrantRoles"] = <<"policy", "user", "roles">>
    BY DEF GoParams
  <2> QED BY <1>2, <1>6, <2>1, <2>2, <2>3 DEF Arrives, Command, Given, Asks, GoCall
<1>7. CASE m = "revoke_roles"
  <2>1. Requests[m] = Asks("RevokeRoles", {"policy", "user", "roles"})
    BY <1>2, <1>7 DEF UserRequests
  <2>2. Handler(Requests[m]) = GoCall("RevokeRoles", <<"policy", "user", "roles">>)
    BY <2>1 DEF Handler, UserHandlers, RoleHandlers, OtherHandlers, Asks
  <2>3. GoParams["RevokeRoles"] = <<"policy", "user", "roles">>
    BY DEF GoParams
  <2> QED BY <1>2, <1>7, <2>1, <2>2, <2>3 DEF Arrives, Command, Given, Asks, GoCall
<1>8. CASE m = "query_users"
  <2>1. Requests[m] = Asks("QueryUsers", {"policy"})
    BY <1>2, <1>8 DEF UserRequests
  <2>2. Handler(Requests[m]) = GoCall("QueryUsers", <<"policy">>)
    BY <2>1 DEF Handler, Asks
  <2>3. GoParams["QueryUsers"] = <<"policy">>
    BY DEF GoParams
  <2> QED BY <1>2, <1>8, <2>1, <2>2, <2>3 DEF Arrives, Command, Given, Asks, GoCall
<1>9. CASE m = "query_user"
  <2>1. Requests[m] = Asks("QueryUsers", {"policy", "user"})
    BY <1>2, <1>9 DEF UserRequests
  <2>2. Handler(Requests[m]) = GoCall("QueryUser", <<"policy", "user">>)
    BY <2>1 DEF Handler, Asks
  <2>3. GoParams["QueryUser"] = <<"policy", "user">>
    BY DEF GoParams
  <2> QED BY <1>2, <1>9, <2>1, <2>2, <2>3 DEF Arrives, Command, Given, Asks, GoCall
<1> QED BY <1>1, <1>2, <1>3, <1>4, <1>5, <1>6, <1>7, <1>8, <1>9

LEMMA RoleRequestsArrive ==
    ASSUME NEW m \in DOMAIN RoleRequests
    PROVE  m \in Methods /\ Arrives(m)
<1>1. m \in {"query_roles", "query_role", "create_role", "drop_role"}
  BY DEF RoleRequests
<1>2. m \in Methods /\ Requests[m] = RoleRequests[m]
  BY <1>1 DEF Requests, Methods, UserRequests, RoleRequests, RoleChanges, IndexRequests, UdfRequests,
              TruncateRequests
<1>3. CASE m = "query_roles"
  <2>1. Requests[m] = Asks("QueryRoles", {"policy"})
    BY <1>2, <1>3 DEF RoleRequests
  <2>2. Handler(Requests[m]) = GoCall("QueryRoles", <<"policy">>)
    BY <2>1 DEF Handler, Asks
  <2>3. GoParams["QueryRoles"] = <<"policy">>
    BY DEF GoParams
  <2> QED BY <1>2, <1>3, <2>1, <2>2, <2>3 DEF Arrives, Command, Given, Asks, GoCall
<1>4. CASE m = "query_role"
  <2>1. Requests[m] = Asks("QueryRoles", {"policy", "role_name"})
    BY <1>2, <1>4 DEF RoleRequests
  <2>2. Handler(Requests[m]) = GoCall("QueryRole", <<"policy", "role_name">>)
    BY <2>1 DEF Handler, Asks
  <2>3. GoParams["QueryRole"] = <<"policy", "role_name">>
    BY DEF GoParams
  <2> QED BY <1>2, <1>4, <2>1, <2>2, <2>3 DEF Arrives, Command, Given, Asks, GoCall
<1>5. CASE m = "create_role"
  <2>1. Requests[m] = Asks("CreateRole", {"policy", "role_name", "privileges", "allowlist", "read_quota",
                                         "write_quota"})
    BY <1>2, <1>5 DEF RoleRequests
  <2>2. Handler(Requests[m]) = GoCall("CreateRole", <<"policy", "role_name", "privileges", "allowlist",
              "read_quota", "write_quota">>)
    BY <2>1 DEF Handler, UserHandlers, RoleHandlers, OtherHandlers, Asks
  <2>3. GoParams["CreateRole"] = <<"policy", "role_name", "privileges", "allowlist", "read_quota",
              "write_quota">>
    BY DEF GoParams
  <2> QED BY <1>2, <1>5, <2>1, <2>2, <2>3 DEF Arrives, Command, Given, Asks, GoCall
<1>6. CASE m = "drop_role"
  <2>1. Requests[m] = Asks("DropRole", {"policy", "role_name"})
    BY <1>2, <1>6 DEF RoleRequests
  <2>2. Handler(Requests[m]) = GoCall("DropRole", <<"policy", "role_name">>)
    BY <2>1 DEF Handler, UserHandlers, RoleHandlers, OtherHandlers, Asks
  <2>3. GoParams["DropRole"] = <<"policy", "role_name">>
    BY DEF GoParams
  <2> QED BY <1>2, <1>6, <2>1, <2>2, <2>3 DEF Arrives, Command, Given, Asks, GoCall
<1> QED BY <1>1, <1>2, <1>3, <1>4, <1>5, <1>6

LEMMA RoleChangesArrive ==
    ASSUME NEW m \in DOMAIN RoleChanges
    PROVE  m \in Methods /\ Arrives(m)
<1>1. m \in {"grant_privileges", "revoke_privileges", "set_allowlist", "set_quotas"}
  BY DEF RoleChanges
<1>2. m \in Methods /\ Requests[m] = RoleChanges[m]
  BY <1>1 DEF Requests, Methods, UserRequests, RoleRequests, RoleChanges, IndexRequests, UdfRequests,
              TruncateRequests
<1>3. CASE m = "grant_privileges"
  <2>1. Requests[m] = Asks("GrantPrivileges", {"policy", "role_name", "privileges"})
    BY <1>2, <1>3 DEF RoleChanges
  <2>2. Handler(Requests[m]) = GoCall("GrantPrivileges", <<"policy", "role_name", "privileges">>)
    BY <2>1 DEF Handler, UserHandlers, RoleHandlers, OtherHandlers, Asks
  <2>3. GoParams["GrantPrivileges"] = <<"policy", "role_name", "privileges">>
    BY DEF GoParams
  <2> QED BY <1>2, <1>3, <2>1, <2>2, <2>3 DEF Arrives, Command, Given, Asks, GoCall
<1>4. CASE m = "revoke_privileges"
  <2>1. Requests[m] = Asks("RevokePrivileges", {"policy", "role_name", "privileges"})
    BY <1>2, <1>4 DEF RoleChanges
  <2>2. Handler(Requests[m]) = GoCall("RevokePrivileges", <<"policy", "role_name", "privileges">>)
    BY <2>1 DEF Handler, UserHandlers, RoleHandlers, OtherHandlers, Asks
  <2>3. GoParams["RevokePrivileges"] = <<"policy", "role_name", "privileges">>
    BY DEF GoParams
  <2> QED BY <1>2, <1>4, <2>1, <2>2, <2>3 DEF Arrives, Command, Given, Asks, GoCall
<1>5. CASE m = "set_allowlist"
  <2>1. Requests[m] = Asks("SetAllowlist", {"policy", "role_name", "allowlist"})
    BY <1>2, <1>5 DEF RoleChanges
  <2>2. Handler(Requests[m]) = GoCall("SetWhitelist", <<"policy", "role_name", "allowlist">>)
    BY <2>1 DEF Handler, UserHandlers, RoleHandlers, OtherHandlers, Asks
  <2>3. GoParams["SetWhitelist"] = <<"policy", "role_name", "allowlist">>
    BY DEF GoParams
  <2> QED BY <1>2, <1>5, <2>1, <2>2, <2>3 DEF Arrives, Command, Given, Asks, GoCall
<1>6. CASE m = "set_quotas"
  <2>1. Requests[m] = Asks("SetQuotas", {"policy", "role_name", "read_quota", "write_quota"})
    BY <1>2, <1>6 DEF RoleChanges
  <2>2. Handler(Requests[m]) = GoCall("SetQuotas", <<"policy", "role_name", "read_quota", "write_quota">>)
    BY <2>1 DEF Handler, UserHandlers, RoleHandlers, OtherHandlers, Asks
  <2>3. GoParams["SetQuotas"] = <<"policy", "role_name", "read_quota", "write_quota">>
    BY DEF GoParams
  <2> QED BY <1>2, <1>6, <2>1, <2>2, <2>3 DEF Arrives, Command, Given, Asks, GoCall
<1> QED BY <1>1, <1>2, <1>3, <1>4, <1>5, <1>6

LEMMA IndexRequestsArrive ==
    ASSUME NEW m \in DOMAIN IndexRequests
    PROVE  m \in Methods /\ Arrives(m)
<1>1. m \in {"create_index", "create_index_in", "drop_index"}
  BY DEF IndexRequests
<1>2. m \in Methods /\ Requests[m] = IndexRequests[m]
  BY <1>1 DEF Requests, Methods, UserRequests, RoleRequests, RoleChanges, IndexRequests, UdfRequests,
              TruncateRequests
<1>3. CASE m = "create_index"
  <2>1. Requests[m] = Asks("CreateIndex", {"policy", "namespace", "set_name", "bin_name", "index_name",
              "index_type", "index_collection_type"})
    BY <1>2, <1>3 DEF IndexRequests
  <2>2. Handler(Requests[m]) = GoCall("CreateComplexIndex", <<"policy", "namespace", "set_name",
              "index_name", "bin_name", "index_type", "index_collection_type">>)
    BY <2>1 DEF Handler, UserHandlers, RoleHandlers, OtherHandlers, Asks
  <2>3. GoParams["CreateComplexIndex"] = <<"policy", "namespace", "set_name", "index_name", "bin_name",
              "index_type", "index_collection_type", "ctx">>
    BY DEF GoParams
  <2> QED BY <1>2, <1>3, <2>1, <2>2, <2>3 DEF Arrives, Command, Given, Asks, GoCall
<1>4. CASE m = "create_index_in"
  <2>1. Requests[m] = Asks("CreateIndex", {"policy", "namespace", "set_name", "bin_name", "index_name",
              "index_type", "index_collection_type"} \cup {"ctx"})
    BY <1>2, <1>4 DEF IndexRequests
  <2>2. Handler(Requests[m]) = GoCall("CreateComplexIndex", <<"policy", "namespace", "set_name",
              "index_name", "bin_name", "index_type", "index_collection_type">>)
    BY <2>1 DEF Handler, UserHandlers, RoleHandlers, OtherHandlers, Asks
  <2>3. GoParams["CreateComplexIndex"] = <<"policy", "namespace", "set_name", "index_name", "bin_name",
              "index_type", "index_collection_type", "ctx">>
    BY DEF GoParams
  <2>4. <<"ctx", "ctx">> \notin Given(Requests[m])
    BY <2>2 DEF Given, GoCall
  <2> QED BY <1>2, <1>4, <2>1, <2>4 DEF Arrives, Command, Asks
<1>5. CASE m = "drop_index"
  <2>1. Requests[m] = Asks("DropIndex", {"policy", "namespace", "set_name", "index_name"})
    BY <1>2, <1>5 DEF IndexRequests
  <2>2. Handler(Requests[m]) = GoCall("DropIndex", <<"policy", "namespace", "set_name", "index_name">>)
    BY <2>1 DEF Handler, UserHandlers, RoleHandlers, OtherHandlers, Asks
  <2>3. GoParams["DropIndex"] = <<"policy", "namespace", "set_name", "index_name">>
    BY DEF GoParams
  <2> QED BY <1>2, <1>5, <2>1, <2>2, <2>3 DEF Arrives, Command, Given, Asks, GoCall
<1> QED BY <1>1, <1>2, <1>3, <1>4, <1>5

LEMMA UdfRequestsArrive ==
    ASSUME NEW m \in DOMAIN UdfRequests
    PROVE  m \in Methods /\ Arrives(m)
<1>1. m \in {"register_udf", "drop_udf", "list_udf", "udf_execute"}
  BY DEF UdfRequests
<1>2. m \in Methods /\ Requests[m] = UdfRequests[m]
  BY <1>1 DEF Requests, Methods, UserRequests, RoleRequests, RoleChanges, IndexRequests, UdfRequests,
              TruncateRequests
<1>3. CASE m = "register_udf"
  <2>1. Requests[m] = Asks("RegisterUDF", {"policy", "udf_body", "package_name", "language"})
    BY <1>2, <1>3 DEF UdfRequests
  <2>2. Handler(Requests[m]) = GoCall("RegisterUDF", <<"policy", "udf_body", "package_name", "language">>)
    BY <2>1 DEF Handler, UserHandlers, RoleHandlers, OtherHandlers, Asks
  <2>3. GoParams["RegisterUDF"] = <<"policy", "udf_body", "package_name", "language">>
    BY DEF GoParams
  <2> QED BY <1>2, <1>3, <2>1, <2>2, <2>3 DEF Arrives, Command, Given, Asks, GoCall
<1>4. CASE m = "drop_udf"
  <2>1. Requests[m] = Asks("DropUDF", {"policy", "package_name"})
    BY <1>2, <1>4 DEF UdfRequests
  <2>2. Handler(Requests[m]) = GoCall("RemoveUDF", <<"policy", "package_name">>)
    BY <2>1 DEF Handler, UserHandlers, RoleHandlers, OtherHandlers, Asks
  <2>3. GoParams["RemoveUDF"] = <<"policy", "package_name">>
    BY DEF GoParams
  <2> QED BY <1>2, <1>4, <2>1, <2>2, <2>3 DEF Arrives, Command, Given, Asks, GoCall
<1>5. CASE m = "list_udf"
  <2>1. Requests[m] = Asks("ListUDF", {"policy"})
    BY <1>2, <1>5 DEF UdfRequests
  <2>2. Handler(Requests[m]) = GoCall("ListUDF", <<"policy">>)
    BY <2>1 DEF Handler, UserHandlers, RoleHandlers, OtherHandlers, Asks
  <2>3. GoParams["ListUDF"] = <<"policy">>
    BY DEF GoParams
  <2> QED BY <1>2, <1>5, <2>1, <2>2, <2>3 DEF Arrives, Command, Given, Asks, GoCall
<1>6. CASE m = "udf_execute"
  <2>1. Requests[m] = Asks("UDFExecute", {"policy", "key", "package_name", "function_name", "args"})
    BY <1>2, <1>6 DEF UdfRequests
  <2>2. Handler(Requests[m]) = GoCall("Execute", <<"policy", "key", "package_name", "function_name", "args">>)
    BY <2>1 DEF Handler, UserHandlers, RoleHandlers, OtherHandlers, Asks
  <2>3. GoParams["Execute"] = <<"policy", "key", "package_name", "function_name", "args">>
    BY DEF GoParams
  <2> QED BY <1>2, <1>6, <2>1, <2>2, <2>3 DEF Arrives, Command, Given, Asks, GoCall
<1> QED BY <1>1, <1>2, <1>3, <1>4, <1>5, <1>6

LEMMA TruncateRequestsArrive ==
    ASSUME NEW m \in DOMAIN TruncateRequests
    PROVE  m \in Methods /\ Arrives(m)
<1>1. m \in {"truncate", "truncate_before"}
  BY DEF TruncateRequests
<1>2. m \in Methods /\ Requests[m] = TruncateRequests[m]
  BY <1>1 DEF Requests, Methods, UserRequests, RoleRequests, RoleChanges, IndexRequests, UdfRequests,
              TruncateRequests
<1>3. CASE m = "truncate"
  <2>1. Requests[m] = Asks("Truncate", {"policy", "namespace", "set_name"})
    BY <1>2, <1>3 DEF TruncateRequests
  <2>2. Handler(Requests[m]) = GoCall("Truncate", <<"policy", "namespace", "set_name", "before_nanos">>)
    BY <2>1 DEF Handler, UserHandlers, RoleHandlers, OtherHandlers, Asks
  <2>3. GoParams["Truncate"] = <<"policy", "namespace", "set_name", "before_nanos">>
    BY DEF GoParams
  <2> QED BY <1>2, <1>3, <2>1, <2>2, <2>3 DEF Arrives, Command, Given, Asks, GoCall
<1>4. CASE m = "truncate_before"
  <2>1. Requests[m] = Asks("Truncate", {"policy", "namespace", "set_name", "before_nanos"})
    BY <1>2, <1>4 DEF TruncateRequests
  <2>2. Handler(Requests[m]) = GoCall("Truncate", <<"policy", "namespace", "set_name", "before_nanos">>)
    BY <2>1 DEF Handler, UserHandlers, RoleHandlers, OtherHandlers, Asks
  <2>3. GoParams["Truncate"] = <<"policy", "namespace", "set_name", "before_nanos">>
    BY DEF GoParams
  <2> QED BY <1>2, <1>4, <2>1, <2>2, <2>3 DEF Arrives, Command, Given, Asks, GoCall
<1> QED BY <1>1, <1>2, <1>3, <1>4

LEMMA AllArrive ==
    ASSUME NEW m \in Methods
    PROVE  Arrives(m)
  BY UserRequestsArrive, RoleRequestsArrive, RoleChangesArrive, IndexRequestsArrive, UdfRequestsArrive,
     TruncateRequestsArrive DEF Methods

\* For every method and any sequences of calls, the command that leaves the connection
\* manager has each argument in the parameter it was passed for, and all of them, but
\* for the ctx of create_index, which the handler CreateIndex drops.
THEOREM HandlersKeepArguments == Spec => []ArgumentsArrive
<1>1. AdminInv => ArgumentsArrive
  <2> SUFFICES ASSUME AdminInv, NEW p \in Procs, NEW i \in DOMAIN log[p], log[p][i].go # NoGo
               PROVE  log[p][i].go.given = {<<x, x>> : x \in Requests[log[p][i].method].params}
                          <=> log[p][i].method # "create_index_in"
    BY DEF ArgumentsArrive
  <2>1. log[p][i].go = Command(log[p][i].method)
    <3>1. SoundCall(log[p][i])
      BY DEF AdminInv, SoundCalls
    <3> QED BY <3>1 DEF SoundCall
  <2>2. log[p][i].method \in Methods
    BY LogTypes DEF AdminInv, CallRecords
  <2> QED BY <2>1, <2>2, AllArrive DEF Arrives
<1> QED BY <1>1, AdminInvariant, PTL
=================================================================================
