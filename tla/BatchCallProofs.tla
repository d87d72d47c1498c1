----------------------------- MODULE BatchCallProofs -----------------------------
(* Proofs about BatchCall, for batches of any length and any commands: the      *)
(* results are in place, a batch that cannot be converted has no effect, values *)
(* of any size come back, and a batch means what its commands mean.             *)
EXTENDS BatchCall, FiniteSetTheorems, TLAPS

(* --------------------------- inductive invariant -------------------------- *)

IsSequence(s) == Len(s) \in Nat /\ DOMAIN s = 1 .. Len(s)

\* Before the handler has converted the messages the Go client knows nothing of them.
NothingYet ==
    pc \in {"new", "called", "refused", "aborted", "rpc"}
      => recs = << >> /\ net = {} /\ done = {} /\ answer = {}

\* Without a pending exception every command has its message, at its position.
OneMessageEach ==
    pc \in {"rpc", "go", "reply", "error"} /\ ~thrown
      => DOMAIN msgs = DOMAIN asked /\ \A i \in DOMAIN asked : msgs[i].key = i

\* What has been converted keeps its position and its key.
OneRecordEach ==
    pc \in {"go", "reply", "error"}
      => DOMAIN recs = DOMAIN msgs /\ \A i \in DOMAIN msgs : recs[i].key = msgs[i].key

\* A list is returned when no command is on its way any more.
ListIsLast ==
    /\ pc = "reply" => net = {}
    /\ seen.kind = "list" => pc = "returned" /\ net = {}

BatchInv ==
    /\ TypeOK
    /\ IsSequence(msgs) /\ IsSequence(recs)
    /\ NothingYet
    /\ OneMessageEach
    /\ OneRecordEach
    /\ ListIsLast
    /\ ResultsInPlace
    /\ BrokenBatchHasNoEffect

(* ------------------------------ sequences ---------------------------------- *)

LEMMA FunctionIsSequence ==
    ASSUME NEW n \in Nat, NEW f, f = [i \in 1 .. n |-> f[i]]
    PROVE  IsSequence(f) /\ Len(f) = n
<1> DEFINE S == {f[i] : i \in 1 .. n}
<1>1. f \in [1 .. n -> S]
  OBVIOUS
<1>2. f \in Seq(S)
  BY <1>1
<1>3. Len(f) \in Nat /\ DOMAIN f = 1 .. Len(f)
  BY <1>2
<1>4. DOMAIN f = 1 .. n
  BY <1>1
<1>5. Len(f) = n
  BY <1>3, <1>4
<1> QED
  BY <1>3, <1>5 DEF IsSequence

\* A batch in which everything is a command: the k-th command recognised is the k-th.
LEMMA AllRecognised ==
    ASSUME IsBatch(asked), Recognised = DOMAIN asked, NEW k \in DOMAIN asked
    PROVE  Cardinality(Recognised) = Len(asked) /\ Nth(k) = k
<1> DEFINE n == Len(asked)
<1>1. n \in Nat /\ Recognised = 1 .. n /\ k \in 1 .. n
  BY DEF IsBatch
<1>2. Cardinality(Recognised) = n
  <2>1. Cardinality(1 .. n) = IF 1 > n THEN 0 ELSE n - 1 + 1
    BY <1>1, FS_Interval, 1 \in Int, n \in Int
  <2> QED
    BY <1>1, <2>1
<1>3. ASSUME NEW i \in Recognised PROVE Cardinality({j \in Recognised : j <= i}) = i
  <2>1. {j \in Recognised : j <= i} = 1 .. i
    BY <1>1
  <2>2. i \in Nat /\ i > 0 /\ i \in Int
    BY <1>1
  <2>3. Cardinality(1 .. i) = IF 1 > i THEN 0 ELSE i - 1 + 1
    BY <2>2, FS_Interval, 1 \in Int
  <2>4. Cardinality(1 .. i) = i
    BY <2>2, <2>3
  <2> QED
    BY <2>1, <2>4, Zenon
<1>4. Nth(k) = k
  BY <1>1, <1>3 DEF Nth
<1> QED
  BY <1>2, <1>4

LEMMA RecognisedIsFinite ==
    ASSUME IsBatch(asked)
    PROVE  Cardinality(Recognised) \in Nat /\ Cardinality(Recognised) <= Len(asked)
<1>1. Len(asked) \in Nat /\ DOMAIN asked = 1 .. Len(asked)
  BY DEF IsBatch
<1>2. IsFiniteSet(1 .. Len(asked)) /\ Cardinality(1 .. Len(asked)) = Len(asked)
  <2>1. /\ IsFiniteSet(1 .. Len(asked))
        /\ Cardinality(1 .. Len(asked)) = IF 1 > Len(asked) THEN 0 ELSE Len(asked) - 1 + 1
    BY <1>1, FS_Interval, 1 \in Int, Len(asked) \in Int
  <2> QED
    BY <1>1, <2>1
<1>3. Recognised \in SUBSET (1 .. Len(asked))
  BY <1>1 DEF Recognised
<1>4. IsFiniteSet(Recognised) /\ Cardinality(Recognised) <= Len(asked)
  BY <1>2, <1>3, FS_Subset
<1> QED
  BY <1>4, FS_CardinalityType

(* ------------------------------ initial states ----------------------------- *)

LEMMA InitBatchInv == Init => BatchInv
<1> SUFFICES ASSUME Init PROVE BatchInv
  OBVIOUS
<1>1. IsBatch(asked)
  BY BatchesAssumption DEF Init
<1>2. Len(asked) \in Nat
  BY <1>1 DEF IsBatch
<1>3. IsSequence(msgs) /\ IsSequence(recs) /\ Len(msgs) = 0 /\ Len(recs) = 0 /\ DOMAIN msgs = {} /\ DOMAIN recs = {}
  BY DEF Init, IsSequence
<1>4. TypeOK
  <2>1. Len(msgs) <= Len(asked) /\ Len(recs) <= Len(msgs)
    BY <1>2, <1>3
  <2>2. DOMAIN bin = DOMAIN asked /\ DOMAIN was = DOMAIN asked
    BY DEF Init
  <2>3. seen.kind = "nothing"
    BY DEF Init
  <2> QED
    BY <1>1, <2>1, <2>2, <2>3, Zenon DEF Init, TypeOK
<1>5. NothingYet /\ OneMessageEach /\ OneRecordEach /\ ListIsLast /\ ResultsInPlace
  BY DEF Init, NothingYet, OneMessageEach, OneRecordEach, ListIsLast, ResultsInPlace
<1>6. BrokenBatchHasNoEffect
  BY DEF Init, BrokenBatchHasNoEffect
<1> QED
  BY <1>3, <1>4, <1>5, <1>6 DEF BatchInv

(* ------------------------- the steps of a call ---------------------------- *)

\* A step that only moves the call from one stage to a later one, and may tell the
\* program something other than a list.
LEMMA StageStep ==
    ASSUME BatchInv,
           UNCHANGED <<asked, round, bin, was, msgs, recs, net, done, answer, thrown>>,
           pc' \in {"new", "refused", "aborted", "called", "rpc", "go", "reply", "error", "broken", "returned"},
           seen'.kind \in {"nothing", "aerospike", "exception"},
           NothingYet', OneMessageEach', OneRecordEach', pc' = "reply" => net = {}
    PROVE  BatchInv'
<1> USE DEF BatchInv
<1>1. TypeOK'
  BY Zenon DEF TypeOK
<1>2. IsSequence(msgs)' /\ IsSequence(recs)'
  BY DEF IsSequence
<1>3. ListIsLast' /\ ResultsInPlace'
  BY DEF ListIsLast, ResultsInPlace
<1>4. BrokenBatchHasNoEffect'
  BY DEF BrokenBatchHasNoEffect
<1> QED
  BY <1>1, <1>2, <1>3, <1>4

\* Nothing is told before the call returns.
LEMMA SilentStep ==
    ASSUME BatchInv, pc # "returned", UNCHANGED seen
    PROVE  seen'.kind \in {"nothing", "aerospike", "exception"}
BY DEF BatchInv, TypeOK, ListIsLast

LEMMA ConstructStep == BatchInv /\ Construct => BatchInv'
<1> SUFFICES ASSUME BatchInv, Construct PROVE BatchInv'
  OBVIOUS
<1>1. pc = "new" /\ pc' \in {"aborted", "refused", "called"}
      /\ UNCHANGED <<asked, round, bin, was, msgs, recs, net, done, answer, thrown, seen>>
  BY DEF Construct
<1>2. NothingYet' /\ OneMessageEach' /\ OneRecordEach'
  BY <1>1 DEF BatchInv, NothingYet, OneMessageEach, OneRecordEach
<1> QED
  BY <1>1, <1>2, StageStep, SilentStep

LEMMA GoReturnsStep == BatchInv /\ GoReturns => BatchInv'
<1> SUFFICES ASSUME BatchInv, GoReturns PROVE BatchInv'
  OBVIOUS
<1>1. pc = "go" /\ pc' \in {"reply", "error"} /\ (pc' = "reply" => net = {})
      /\ UNCHANGED <<asked, round, bin, was, msgs, recs, net, done, answer, thrown, seen>>
  BY DEF GoReturns
<1>2. NothingYet' /\ OneMessageEach' /\ OneRecordEach'
  BY <1>1 DEF BatchInv, NothingYet, OneMessageEach, OneRecordEach
<1> QED
  BY <1>1, <1>2, StageStep, SilentStep

LEMMA AcmCrashStep == BatchInv /\ AcmCrash => BatchInv'
<1> SUFFICES ASSUME BatchInv, AcmCrash PROVE BatchInv'
  OBVIOUS
<1>1. pc # "returned" /\ pc' = "broken"
      /\ UNCHANGED <<asked, round, bin, was, msgs, recs, net, done, answer, thrown, seen>>
  BY DEF AcmCrash
<1>2. NothingYet' /\ OneMessageEach' /\ OneRecordEach'
  BY <1>1 DEF NothingYet, OneMessageEach, OneRecordEach
<1> QED
  BY <1>1, <1>2, StageStep, SilentStep

\* Every command that batch recognises gets its message; when all are, each has its own.
LEMMA BuildStep == BatchInv /\ Build => BatchInv'
<1> SUFFICES ASSUME BatchInv, Build PROVE BatchInv'
  OBVIOUS
<1> DEFINE c == Cardinality(Recognised)
<1>1. /\ pc = "called" /\ pc' = "rpc"
      /\ UNCHANGED <<asked, round, bin, was, recs, net, done, answer, seen>>
      /\ msgs' = [k \in 1 .. c |-> Message(asked[Nth(k)], Nth(k))]
  BY DEF Build
<1>2. recs = << >> /\ net = {} /\ done = {} /\ answer = {}
  BY <1>1 DEF BatchInv, NothingYet
<1>3. IsBatch(asked)
  BY DEF BatchInv, TypeOK
<1>4. c \in Nat /\ c <= Len(asked)
  BY <1>3, RecognisedIsFinite
<1>5. IsSequence(msgs)' /\ Len(msgs') = c
  BY <1>1, <1>4, FunctionIsSequence
<1>6. IsSequence(recs)' /\ Len(recs') = 0
  BY <1>1, <1>2 DEF IsSequence
<1>7. TypeOK'
  <2>1. Len(msgs') <= Len(asked') /\ Len(recs') <= Len(msgs')
    BY <1>1, <1>4, <1>5, <1>6
  <2>2. thrown' \in BOOLEAN
    BY Zenon DEF Build
  <2> QED
    BY <1>1, <2>1, <2>2, Zenon DEF BatchInv, TypeOK
<1>8. OneMessageEach'
  <2>1. ASSUME ~thrown' PROVE Recognised = DOMAIN asked
    BY <2>1 DEF Build
  <2>2. ASSUME ~thrown' PROVE DOMAIN msgs' = DOMAIN asked
    <3>1. Len(asked) \in Nat /\ DOMAIN asked = 1 .. Len(asked) /\ Recognised = 1 .. Len(asked)
      BY <1>3, <2>1, <2>2 DEF IsBatch
    <3>2. c = Len(asked)
      <4>1. CASE Len(asked) = 0
        BY <1>4, <3>1, <4>1
      <4>2. CASE Len(asked) # 0
        <5>1. 1 \in DOMAIN asked
          BY <3>1, <4>2
        <5> QED
          BY <1>3, <2>1, <2>2, <5>1, AllRecognised
      <4> QED
        BY <4>1, <4>2
    <3> QED
      BY <1>1, <3>1, <3>2
  <2>3. ASSUME ~thrown', NEW i \in DOMAIN asked PROVE msgs'[i].key = i
    <3>1. i \in 1 .. c
      BY <1>1, <2>2, <2>3
    <3>2. Nth(i) = i
      BY <1>3, <2>1, <2>3, AllRecognised
    <3>3. msgs'[i] = Message(asked[i], i)
      BY <1>1, <3>1, <3>2
    <3> QED
      BY <3>3 DEF Message
  <2> QED
    BY <1>1, <2>2, <2>3 DEF OneMessageEach
<1>9. NothingYet' /\ OneRecordEach' /\ ListIsLast' /\ ResultsInPlace'
  BY <1>1, <1>2 DEF BatchInv, NothingYet, OneRecordEach, ListIsLast, ResultsInPlace
<1>10. BrokenBatchHasNoEffect'
  BY <1>1, <1>2 DEF BrokenBatchHasNoEffect
<1> QED
  BY <1>5, <1>6, <1>7, <1>8, <1>9, <1>10 DEF BatchInv

\* All messages are converted, or none: what panics never reaches the cluster.
LEMMA HandleStep == BatchInv /\ Handle => BatchInv'
<1> SUFFICES ASSUME BatchInv, Handle PROVE BatchInv'
  OBVIOUS
<1>1. /\ pc = "rpc"
      /\ UNCHANGED <<asked, round, bin, was, msgs, done, answer, thrown, seen>>
  BY DEF Handle
<1>2. recs = << >> /\ net = {} /\ done = {} /\ answer = {}
  BY <1>1 DEF BatchInv, NothingYet
<1>3. CASE \E i \in DOMAIN msgs : MessagePanics(msgs[i])
  <2>1. pc' = "broken" /\ UNCHANGED <<recs, net>>
    BY <1>3 DEF Handle
  <2>2. NothingYet' /\ OneMessageEach' /\ OneRecordEach'
    BY <2>1 DEF NothingYet, OneMessageEach, OneRecordEach
  <2> QED
    BY <1>1, <2>1, <2>2, StageStep, SilentStep
<1>4. CASE ~ \E i \in DOMAIN msgs : MessagePanics(msgs[i])
  <2>1. /\ pc' = "go" /\ net' = DOMAIN msgs
        /\ recs' = [i \in DOMAIN msgs |-> BatchRecordIfc(msgs[i])]
    BY <1>4 DEF Handle
  <2>2. Len(msgs) \in Nat /\ DOMAIN msgs = 1 .. Len(msgs)
    BY DEF BatchInv, IsSequence
  <2>3. IsSequence(recs)' /\ Len(recs') = Len(msgs)
    BY <2>1, <2>2, FunctionIsSequence
  <2>4. TypeOK'
    <3>1. Len(recs') <= Len(msgs')
      BY <1>1, <2>2, <2>3
    <3>2. net' \cup done' \subseteq DOMAIN recs' /\ net' \cap done' = {} /\ answer' \subseteq done'
      BY <1>1, <1>2, <2>1
    <3> QED
      BY <1>1, <2>1, <3>1, <3>2, Zenon DEF BatchInv, TypeOK
  <2>5. OneMessageEach'
    BY <1>1, <2>1 DEF BatchInv, OneMessageEach
  <2>6. OneRecordEach'
    BY <1>1, <2>1 DEF OneRecordEach, BatchRecordIfc
  <2>7. NothingYet' /\ ListIsLast' /\ ResultsInPlace'
    BY <1>1, <2>1 DEF BatchInv, NothingYet, ListIsLast, ResultsInPlace
  <2>8. BrokenBatchHasNoEffect'
    BY <1>1, <1>4 DEF BrokenBatchHasNoEffect
  <2>9. IsSequence(msgs)'
    BY <1>1, <2>2 DEF IsSequence
  <2> QED
    BY <2>3, <2>4, <2>5, <2>6, <2>7, <2>8, <2>9 DEF BatchInv
<1> QED
  BY <1>3, <1>4

\* What a node does with one record, executed or lost: only records of a batch that
\* could be converted are on their way.
LEMMA NodeStep ==
    ASSUME BatchInv, NEW i \in net, net' = net \ {i},
           DOMAIN bin' = DOMAIN bin,
           done' \in {done, done \cup {i}},
           answer' \subseteq done', answer' \in {answer, answer \cup {i}},
           UNCHANGED <<asked, round, was, pc, msgs, recs, thrown, seen>>
    PROVE  BatchInv'
<1> USE DEF BatchInv
<1>1. TypeOK'
  <2>1. net' \cup done' \subseteq DOMAIN recs' /\ net' \cap done' = {} /\ answer' \subseteq done'
    BY DEF TypeOK
  <2> QED
    BY <2>1, Zenon DEF TypeOK
<1>2. IsSequence(msgs)' /\ IsSequence(recs)' /\ OneMessageEach' /\ OneRecordEach'
  BY DEF IsSequence, OneMessageEach, OneRecordEach
<1>3. NothingYet'
  BY DEF NothingYet
<1>4. seen.kind # "list" /\ pc # "reply"
  BY DEF ListIsLast
<1>5. ListIsLast' /\ ResultsInPlace'
  BY <1>4 DEF ListIsLast, ResultsInPlace
<1>6. BrokenBatchHasNoEffect'
  BY DEF BrokenBatchHasNoEffect
<1> QED
  BY <1>1, <1>2, <1>3, <1>5, <1>6

LEMMA ExecuteStep == ASSUME BatchInv, NEW i \in net, Execute(i) PROVE BatchInv'
<1>1. DOMAIN bin' = DOMAIN bin
  BY DEF Execute
<1>2. /\ net' = net \ {i} /\ done' = done \cup {i} /\ answer' \in {answer, answer \cup {i}}
      /\ UNCHANGED <<asked, round, was, pc, msgs, recs, thrown, seen>>
  BY DEF Execute
<1>3. answer' \subseteq done'
  BY <1>2 DEF BatchInv, TypeOK
<1> QED
  BY <1>1, <1>2, <1>3, NodeStep

LEMMA LoseStep == ASSUME BatchInv, NEW i \in net, Lose(i) PROVE BatchInv'
<1>1. answer \subseteq done
  BY DEF BatchInv, TypeOK
<1> QED
  BY <1>1, NodeStep DEF Lose

\* A list is made when every command has its record and no exception is pending.
LEMMA ReturnStep == BatchInv /\ Return => BatchInv'
<1> SUFFICES ASSUME BatchInv, Return PROVE BatchInv'
  OBVIOUS
<1>1. /\ pc \in {"reply", "error", "broken", "refused"} /\ pc' = "returned"
      /\ UNCHANGED <<asked, round, bin, was, msgs, recs, net, done, answer, thrown>>
  BY DEF Return
<1>2. NothingYet' /\ OneMessageEach' /\ OneRecordEach'
  BY <1>1 DEF NothingYet, OneMessageEach, OneRecordEach
<1>3. CASE pc \in {"broken", "refused"}
  <2>1. seen'.kind = "exception"
    BY <1>3 DEF Return
  <2> QED
    BY <1>1, <1>2, <2>1, StageStep
<1>4. CASE pc \notin {"broken", "refused"} /\ (pc = "error" \/ thrown)
  <2>1. seen'.kind = "aerospike"
    BY <1>4 DEF Return
  <2> QED
    BY <1>1, <1>2, <2>1, StageStep
<1>5. CASE pc = "reply" /\ ~thrown
  <2>1. PICK values \in ReadValues : seen' = [kind |-> "list", records |-> FromBatchRecords(values)]
    BY <1>5 DEF Return
  <2>2. seen'.kind = "list" /\ seen'.records = FromBatchRecords(values)
    BY <2>1
  <2>3. DOMAIN recs = DOMAIN asked /\ \A i \in DOMAIN asked : recs[i].key = i
    BY <1>5 DEF BatchInv, OneMessageEach, OneRecordEach
  <2>4. ResultsInPlace'
    <3>1. DOMAIN seen'.records = DOMAIN asked'
      BY <1>1, <2>2, <2>3 DEF FromBatchRecords
    <3>2. ASSUME NEW i \in DOMAIN asked PROVE seen'.records[i].key = i /\ seen'.records[i].record = (i \in answer)
      <4>1. seen'.records[i] = [key |-> recs[i].key, record |-> i \in answer, value |-> values[i]]
        BY <2>2, <2>3 DEF FromBatchRecords
      <4> QED
        BY <2>3, <4>1
    <3>3. answer \subseteq done
      BY DEF BatchInv, TypeOK
    <3> QED
      BY <1>1, <3>1, <3>2, <3>3 DEF ResultsInPlace
  <2>5. ListIsLast'
    BY <1>1, <1>5 DEF BatchInv, ListIsLast
  <2>6. TypeOK'
    BY <1>1, <2>2, Zenon DEF BatchInv, TypeOK
  <2>7. IsSequence(msgs)' /\ IsSequence(recs)' /\ BrokenBatchHasNoEffect'
    BY <1>1 DEF BatchInv, IsSequence, BrokenBatchHasNoEffect
  <2> QED
    BY <1>2, <2>4, <2>5, <2>6, <2>7 DEF BatchInv
<1> QED
  BY <1>1, <1>3, <1>4, <1>5

\* The second batch has the commands of the first, in their places, with other values.
LEMMA WriteBackStep == BatchInv /\ WriteBack => BatchInv'
<1> SUFFICES ASSUME BatchInv, WriteBack PROVE BatchInv'
  OBVIOUS
<1>1. /\ pc' = "new" /\ msgs' = << >> /\ recs' = << >> /\ done' = {} /\ answer' = {}
      /\ seen' = [kind |-> "nothing", records |-> << >>]
      /\ round' = 2 /\ was' = bin /\ bin' = bin /\ net' = net /\ thrown' = thrown
  BY DEF WriteBack
<1>2. net = {}
  BY DEF BatchInv, ListIsLast, WriteBack
<1>3. IsBatch(asked) /\ Len(asked) \in Nat /\ DOMAIN asked = 1 .. Len(asked) /\ \A i \in DOMAIN asked : IsCommand(asked[i])
  BY DEF BatchInv, TypeOK, IsBatch
<1>4. asked' = [i \in DOMAIN asked |->
                  [asked[i] EXCEPT !.value = seen.records[i].value, !.ops = <<Op("Put"), Op("Get")>>]]
  BY DEF WriteBack
<1>5. Len(asked') = Len(asked) /\ DOMAIN asked' = DOMAIN asked
  BY <1>3, <1>4, FunctionIsSequence
<1>6. ASSUME NEW i \in DOMAIN asked PROVE IsCommand(asked'[i])
  <2>1. IsCommand(asked[i])
    BY <1>3
  <2>2. asked'[i] = [asked[i] EXCEPT !.value = seen.records[i].value, !.ops = <<Op("Put"), Op("Get")>>]
    BY <1>4
  <2> QED
    BY <2>1, <2>2 DEF IsCommand
<1>7. IsBatch(asked')
  BY <1>3, <1>5, <1>6 DEF IsBatch
<1>8. IsSequence(msgs)' /\ IsSequence(recs)' /\ Len(msgs') = 0 /\ Len(recs') = 0 /\ DOMAIN msgs' = {} /\ DOMAIN recs' = {}
  BY <1>1 DEF IsSequence
<1>9. TypeOK'
  <2>1. Len(msgs') <= Len(asked') /\ Len(recs') <= Len(msgs')
    BY <1>3, <1>5, <1>8
  <2>2. seen'.kind = "nothing"
    BY <1>1
  <2> QED
    BY <1>1, <1>2, <1>5, <1>7, <2>1, <2>2, Zenon DEF BatchInv, TypeOK
<1>10. NothingYet' /\ OneMessageEach' /\ OneRecordEach' /\ ListIsLast' /\ ResultsInPlace'
  BY <1>1, <1>2 DEF NothingYet, OneMessageEach, OneRecordEach, ListIsLast, ResultsInPlace
<1>11. BrokenBatchHasNoEffect'
  BY <1>1, <1>2 DEF BrokenBatchHasNoEffect
<1> QED
  BY <1>8, <1>9, <1>10, <1>11 DEF BatchInv

LEMMA IdleStep == BatchInv /\ UNCHANGED vars => BatchInv'
<1> SUFFICES ASSUME BatchInv, UNCHANGED vars PROVE BatchInv'
  OBVIOUS
<1> USE DEF BatchInv, vars
<1>1. TypeOK'
  BY Zenon DEF TypeOK
<1>2. IsSequence(msgs)' /\ IsSequence(recs)' /\ NothingYet' /\ OneMessageEach' /\ OneRecordEach'
  BY DEF IsSequence, NothingYet, OneMessageEach, OneRecordEach
<1>3. ListIsLast' /\ ResultsInPlace' /\ BrokenBatchHasNoEffect'
  BY DEF ListIsLast, ResultsInPlace, BrokenBatchHasNoEffect
<1> QED
  BY <1>1, <1>2, <1>3

LEMMA NextBatchInv == BatchInv /\ [Next]_vars => BatchInv'
<1> SUFFICES ASSUME BatchInv, [Next]_vars PROVE BatchInv'
  OBVIOUS
<1>1. CASE Construct
  BY <1>1, ConstructStep
<1>2. CASE Build
  BY <1>2, BuildStep
<1>3. CASE Handle
  BY <1>3, HandleStep
<1>4. CASE GoReturns
  BY <1>4, GoReturnsStep
<1>5. CASE AcmCrash
  BY <1>5, AcmCrashStep
<1>6. CASE Return
  BY <1>6, ReturnStep
<1>7. CASE WriteBack
  BY <1>7, WriteBackStep
<1>8. CASE \E i \in net : Execute(i) \/ Lose(i)
  <2>1. PICK i \in net : Execute(i) \/ Lose(i)
    BY <1>8
  <2> QED
    BY <2>1, ExecuteStep, LoseStep
<1>9. CASE Ended \/ UNCHANGED vars
  BY <1>9, IdleStep DEF Ended
<1> QED
  BY <1>1, <1>2, <1>3, <1>4, <1>5, <1>6, <1>7, <1>8, <1>9 DEF Next

LEMMA AlwaysBatchInv == Spec => []BatchInv
BY InitBatchInv, NextBatchInv, PTL DEF Spec

(* -------------------------------- theorems -------------------------------- *)

\* Client::batch goes through its stages with at most one message per command, and
\* only converted records are sent, executed and answered.
THEOREM TypeCorrect == Spec => []TypeOK
<1>1. BatchInv => TypeOK
  BY DEF BatchInv
<1> QED
  BY <1>1, AlwaysBatchInv, PTL

\* A list that batch returns has one entry per command, at its position and with its
\* key, and a record only where the command was executed: messages and records keep
\* the order of the commands, and an argument that is no command never shifts the
\* others, because the exception it leaves pending hides the list.
THEOREM PositionsAreKept == Spec => []ResultsInPlace
<1>1. BatchInv => ResultsInPlace
  BY DEF BatchInv
<1> QED
  BY <1>1, AlwaysBatchInv, PTL

\* A command that panics in a conversion keeps every command of its batch from the
\* cluster: BatchOperate converts all of them before it calls the Go client.
THEOREM ConversionIsAllOrNothing == Spec => []BrokenBatchHasNoEffect
<1>1. BatchInv => BrokenBatchHasNoEffect
  BY DEF BatchInv
<1> QED
  BY <1>1, AlwaysBatchInv, PTL

(* ------------------------------ kinds of values ---------------------------- *)

\* A value whose scalars, map keys included, are of these kinds.
IsPair(p, K) ==
    /\ p = <<p[1], p[2]>> /\ p[1] = [t |-> p[1].t, n |-> p[1].n] /\ p[2] = [t |-> p[2].t]
    /\ p[1].t \in K /\ p[2].t \in K

IsList(v, K) == v = [t |-> "list", items |-> v.items] /\ v.items \in Seq({Scalar(t) : t \in K})

IsMap(v, K) == v = [t |-> "map", pairs |-> v.pairs] /\ \A p \in v.pairs : IsPair(p, K)

Flat(v, K) == v \in {Scalar(t) : t \in K} \/ IsList(v, K) \/ IsMap(v, K)

\* The names of containers are not kinds of scalars.
Proper(K) == "list" \notin K /\ "map" \notin K

\* Two changes of kinds are one.
LEMMA EachTwice ==
    ASSUME NEW K, Proper(K), NEW v, Flat(v, K), NEW k1, NEW k2, NEW k,
           \A t \in K : k1[t] \notin {"list", "map"} /\ k[t] = k2[k1[t]]
    PROVE  Each(Each(v, k1), k2) = Each(v, k)
<1>1. CASE v \in {Scalar(t) : t \in K}
  <2>1. PICK t \in K : v = Scalar(t)
    BY <1>1
  <2>2. Each(v, k1) = Scalar(k1[t]) /\ Each(v, k) = Scalar(k[t])
    BY <2>1 DEF Each, Scalar, Proper
  <2>3. Each(Scalar(k1[t]), k2) = Scalar(k2[k1[t]])
    BY DEF Each, Scalar
  <2> QED BY <2>2, <2>3
<1>2. CASE IsList(v, K)
  <2> DEFINE s == v.items
             u == [n \in DOMAIN s |-> Scalar(k1[s[n].t])]
  <2>1. v.t = "list"
    BY <1>2 DEF IsList
  <2>2. Each(v, k1) = List(u) /\ Each(v, k) = List([n \in DOMAIN s |-> Scalar(k[s[n].t])])
    BY <2>1 DEF Each
  <2>3. \A n \in DOMAIN s : s[n].t \in K
    BY <1>2 DEF IsList, Scalar
  <2>4. List(u).t = "list" /\ List(u).items = u
    BY DEF List
  <2>5. Each(List(u), k2) = List([n \in DOMAIN u |-> Scalar(k2[u[n].t])])
    BY <2>4 DEF Each
  <2>6. DOMAIN u = DOMAIN s /\ \A n \in DOMAIN s : u[n].t = k1[s[n].t]
    BY DEF Scalar
  <2>7. [n \in DOMAIN u |-> Scalar(k2[u[n].t])] = [n \in DOMAIN s |-> Scalar(k[s[n].t])]
    BY <2>3, <2>6
  <2> QED BY <2>2, <2>5, <2>7
<1>3. CASE IsMap(v, K)
  <2> DEFINE s == v.pairs
             u == {Renamed(p, k1) : p \in s}
  <2>1. v.t = "map"
    BY <1>3 DEF IsMap
  <2>2. Each(v, k1) = HashMap(u) /\ Each(v, k) = HashMap({Renamed(p, k) : p \in s})
    BY <2>1 DEF Each
  <2>3. HashMap(u).t = "map" /\ HashMap(u).pairs = u
    BY DEF HashMap
  <2>4. Each(HashMap(u), k2) = HashMap({Renamed(q, k2) : q \in u})
    BY <2>3 DEF Each
  <2>5. ASSUME NEW p \in s PROVE Renamed(Renamed(p, k1), k2) = Renamed(p, k)
    <3>1. p[1].t \in K /\ p[2].t \in K
      BY <1>3 DEF IsMap, IsPair
    <3> QED BY <3>1 DEF Renamed, Scalar
  <2>6. {Renamed(q, k2) : q \in u} = {Renamed(p, k) : p \in s}
    <3> HIDE DEF s
    <3> QED BY <2>5
  <2> QED BY <2>2, <2>4, <2>6
<1> QED BY <1>1, <1>2, <1>3 DEF Flat

\* Kinds that stay.
LEMMA EachSame ==
    ASSUME NEW K, Proper(K), NEW v, Flat(v, K), NEW k, \A t \in K : k[t] = t
    PROVE  Each(v, k) = v
<1>1. CASE v \in {Scalar(t) : t \in K}
  BY <1>1 DEF Each, Scalar, Proper
<1>2. CASE IsList(v, K)
  <2>1. v.t = "list" /\ v = List(v.items) /\ v.items \in Seq({Scalar(t) : t \in K})
    BY <1>2 DEF IsList, List
  <2>2. \A n \in DOMAIN v.items : Scalar(k[v.items[n].t]) = v.items[n]
    BY <2>1 DEF Scalar
  <2>3. [n \in DOMAIN v.items |-> Scalar(k[v.items[n].t])] = v.items
    BY <2>1, <2>2
  <2> QED BY <2>1, <2>3 DEF Each
<1>3. CASE IsMap(v, K)
  <2>1. v.t = "map" /\ v = HashMap(v.pairs)
    BY <1>3 DEF IsMap, HashMap
  <2>2. \A p \in v.pairs : Renamed(p, k) = p
    BY <1>3 DEF IsMap, IsPair, Renamed, Scalar
  <2>3. {Renamed(p, k) : p \in v.pairs} = v.pairs
    BY <2>2
  <2> QED BY <2>1, <2>3 DEF Each
<1> QED BY <1>1, <1>2, <1>3 DEF Flat

LEMMA EachFlat ==
    ASSUME NEW K, Proper(K), NEW v, Flat(v, K), NEW M, NEW k, \A t \in K : k[t] \in M
    PROVE  Flat(Each(v, k), M)
<1>1. CASE v \in {Scalar(t) : t \in K}
  BY <1>1 DEF Each, Scalar, Proper, Flat
<1>2. CASE IsList(v, K)
  <2>1. v.t = "list" /\ v.items \in Seq({Scalar(t) : t \in K})
    BY <1>2 DEF IsList, List
  <2> DEFINE u == [n \in DOMAIN v.items |-> Scalar(k[v.items[n].t])]
  <2>2. \A n \in DOMAIN v.items : v.items[n].t \in K
    BY <2>1 DEF Scalar
  <2>3. \A n \in DOMAIN v.items : Scalar(k[v.items[n].t]) \in {Scalar(t) : t \in M}
    BY <2>2
  <2>4. u \in [1 .. Len(v.items) -> {Scalar(t) : t \in M}] /\ Len(v.items) \in Nat
    BY <2>1, <2>3
  <2>5. u \in Seq({Scalar(t) : t \in M})
    BY <2>4
  <2>6. Each(v, k) = List(u)
    BY <2>1 DEF Each
  <2> HIDE DEF u
  <2> QED BY <2>5, <2>6 DEF Flat, IsList, List
<1>3. CASE IsMap(v, K)
  <2>1. v.t = "map" /\ Each(v, k) = HashMap({Renamed(p, k) : p \in v.pairs})
    BY <1>3 DEF IsMap, HashMap, Each
  <2>2. ASSUME NEW p \in v.pairs PROVE IsPair(Renamed(p, k), M)
    <3>1. p[1].t \in K /\ p[2].t \in K
      BY <1>3 DEF IsMap, IsPair
    <3> QED BY <3>1 DEF IsPair, Renamed, Scalar
  <2> QED BY <2>1, <2>2 DEF Flat, IsMap, HashMap
<1> QED BY <1>1, <1>2, <1>3 DEF Flat

(* ------------------------- values there and back --------------------------- *)

NativeKinds == DOMAIN FromKind

\* The kind a scalar of PHP has in a bin, and the kind a scalar of a bin has in PHP.
Way == [t \in PhpKinds |-> NativeKind[GoKind[WireKind[t]]]]
Back == [t \in NativeKinds |-> PhpKind[FromKind[t]]]

\* What is in the bin when a program has put zval.
Written(zval) == Stored(ToValue(ToMessage(zval)))

LEMMA KindTables ==
    /\ \A t \in PhpKinds : /\ WireKind[t] \in {"Nil", "B", "I", "F", "S", "Blob", "Hll", "Geo"}
                           /\ GoKind[WireKind[t]] \notin {"list", "map"}
                           /\ Way[t] \in NativeKinds /\ Back[Way[t]] = t
    /\ \A t \in NativeKinds : /\ FromKind[t] \in {"Nil", "B", "I", "F", "S", "Blob", "Hll", "Geo"}
                              /\ Back[t] \in PhpKinds /\ Way[Back[t]] = t
    /\ Proper(PhpKinds) /\ Proper(NativeKinds)
    /\ Way["int"] = "int" /\ Way["string"] = "string"
    /\ Back["int"] = "int" /\ Back["string"] = "string"
<1>1. NativeKinds = {"nil", "bool", "int", "float64", "string", "bytes", "HLLValue", "GeoJSONValue"}
  BY DEF NativeKinds, FromKind
<1>2. Proper(PhpKinds) /\ Proper(NativeKinds)
  BY <1>1 DEF Proper, PhpKinds
<1>3. ASSUME NEW t \in PhpKinds
      PROVE  /\ WireKind[t] \in {"Nil", "B", "I", "F", "S", "Blob", "Hll", "Geo"}
             /\ GoKind[WireKind[t]] \notin {"list", "map"}
             /\ Way[t] \in NativeKinds /\ PhpKind[FromKind[Way[t]]] = t
  BY <1>1 DEF PhpKinds, WireKind, GoKind, NativeKind, FromKind, PhpKind, Way
<1>4. ASSUME NEW t \in NativeKinds
      PROVE  /\ FromKind[t] \in {"Nil", "B", "I", "F", "S", "Blob", "Hll", "Geo"}
             /\ Back[t] \in PhpKinds /\ NativeKind[GoKind[WireKind[Back[t]]]] = t
  BY <1>1 DEF PhpKinds, WireKind, GoKind, NativeKind, FromKind, PhpKind, Back
<1>5. \A t \in PhpKinds : Back[Way[t]] = t
  BY <1>3 DEF Back
<1>6. \A t \in NativeKinds : Way[Back[t]] = t
  BY <1>4 DEF Way
<1>7. Way["int"] = "int" /\ Way["string"] = "string"
  BY DEF Way, PhpKinds, WireKind, GoKind, NativeKind
<1>8. Back["int"] = "int" /\ Back["string"] = "string"
  BY <1>1 DEF Back, FromKind, PhpKind
<1> QED BY <1>2, <1>3, <1>4, <1>5, <1>6, <1>7, <1>8

\* On its way a value changes its kinds and nothing else.
LEMMA WrittenValue ==
    ASSUME NEW zval, Flat(FromZval(zval), PhpKinds)
    PROVE  Written(zval) = Each(FromZval(zval), Way) /\ Flat(Written(zval), NativeKinds)
<1> DEFINE v == FromZval(zval)
           k == [t \in PhpKinds |-> GoKind[WireKind[t]]]
<1>1. \A t \in PhpKinds : WireKind[t] \notin {"list", "map"} /\ k[t] = GoKind[WireKind[t]]
  BY KindTables
<1>2. \A t \in PhpKinds : k[t] \notin {"list", "map"} /\ Way[t] = NativeKind[k[t]]
  BY KindTables DEF Way
<1> HIDE DEF k, v
<1>3. Flat(v, PhpKinds) /\ Proper(PhpKinds)
  BY KindTables DEF v
<1>4. Each(Each(v, WireKind), GoKind) = Each(v, k)
  BY <1>1, <1>3, EachTwice
<1>5. Each(Each(v, k), NativeKind) = Each(v, Way)
  BY <1>2, <1>3, EachTwice
<1>6. Flat(Each(v, Way), NativeKinds)
  BY <1>3, EachFlat, KindTables
<1>7. Written(zval) = Each(Each(Each(v, WireKind), GoKind), NativeKind)
  BY DEF Written, Stored, ToValue, ToMessage, v
<1> QED BY <1>4, <1>5, <1>6, <1>7 DEF v

LEMMA ReadValue ==
    ASSUME NEW native, Flat(native, NativeKinds)
    PROVE  ToPhpValue(FromValue(native)) = Each(native, Back) /\ Flat(Each(native, Back), PhpKinds)
<1> DEFINE W == {"Nil", "B", "I", "F", "S", "Blob", "Hll", "Geo"}
           v == Each(native, FromKind)
<1>1. Proper(NativeKinds) /\ Proper(W)
  BY KindTables DEF Proper
<1>2. \A t \in NativeKinds : FromKind[t] \in W
  BY KindTables
<1>3. \A t \in NativeKinds : FromKind[t] \notin {"list", "map"} /\ Back[t] = PhpKind[FromKind[t]]
  BY <1>1, <1>2 DEF Proper, Back
<1> HIDE DEF W
<1>4. Flat(v, W)
  BY <1>1, <1>2, EachFlat
<1>5. Each(v, PhpKind) = Each(native, Back)
  BY <1>1, <1>3, EachTwice
<1> HIDE DEF v
<1>6. ToPhpValue(FromValue(native)) = Each(v, PhpKind)
  <2>1. FromValue(native) = IF v.t = "map" THEN [t |-> "map", pairs |-> v.pairs, empty |-> Cardinality(v.pairs)] ELSE v
    BY DEF FromValue, v
  <2>2. CASE v.t = "map"
    <3>1. v = HashMap(v.pairs)
      BY <1>1, <1>4, <2>2 DEF Flat, IsMap, IsList, HashMap, Proper, Scalar
    <3>2. FromValue(native).t = "map" /\ FromValue(native).pairs = v.pairs
      BY <2>1, <2>2
    <3> QED BY <3>1, <3>2 DEF ToPhpValue
  <2>3. CASE v.t # "map"
    BY <2>1, <2>3 DEF ToPhpValue
  <2> QED BY <2>2, <2>3
<1>7. Flat(Each(native, Back), PhpKinds)
  BY <1>1, EachFlat, KindTables
<1> QED BY <1>5, <1>6, <1>7

\* The kinds of all scalars come back.
LEMMA KindsComeBack ==
    /\ \A v : Flat(v, PhpKinds) => Each(Each(v, Way), Back) = v
    /\ \A v : Flat(v, NativeKinds) => Each(Each(v, Back), Way) = v
<1> DEFINE there == [t \in PhpKinds |-> t]
           here == [t \in NativeKinds |-> t]
<1>1. ASSUME NEW v, Flat(v, PhpKinds) PROVE Each(Each(v, Way), Back) = v
  <2>1. \A t \in PhpKinds : Way[t] \notin {"list", "map"} /\ there[t] = Back[Way[t]]
    BY KindTables DEF Proper
  <2>2. \A t \in PhpKinds : there[t] = t
    OBVIOUS
  <2> HIDE DEF there
  <2>3. Each(Each(v, Way), Back) = Each(v, there)
    BY <1>1, <2>1, KindTables, EachTwice
  <2> QED BY <1>1, <2>2, <2>3, KindTables, EachSame
<1>2. ASSUME NEW v, Flat(v, NativeKinds) PROVE Each(Each(v, Back), Way) = v
  <2>1. \A t \in NativeKinds : Back[t] \notin {"list", "map"} /\ here[t] = Way[Back[t]]
    BY KindTables DEF Proper
  <2>2. \A t \in NativeKinds : here[t] = t
    OBVIOUS
  <2> HIDE DEF here
  <2>3. Each(Each(v, Back), Way) = Each(v, here)
    BY <1>2, <2>1, KindTables, EachTwice
  <2> QED BY <1>2, <2>2, <2>3, KindTables, EachSame
<1> QED BY <1>1, <1>2

(* --------------------------- arrays there and back -------------------------- *)

\* The entries of an array or a map, one by one.
LEMMA TableEntries ==
    ASSUME NEW E, NEW K, IsTable(E, K)
    PROVE  /\ IsFiniteSet(E) /\ Cardinality(E) \in Nat
           /\ \A e \in E : /\ e = <<e[1], e[2]>> /\ e[1] = [t |-> e[1].t, n |-> e[1].n] /\ e[2] = [t |-> e[2].t]
                           /\ e[1].t \in {"int", "string"} /\ e[2].t \in K
           /\ \A e, f \in E : e[1].t = f[1].t /\ e[1].n = f[1].n => e = f
<1>1. IsFiniteSet(E) /\ Cardinality(E) \in Nat
  BY FS_CardinalityType DEF IsTable
<1>2. ASSUME NEW e \in E
      PROVE  /\ e = <<e[1], e[2]>> /\ e[1] = [t |-> e[1].t, n |-> e[1].n] /\ e[2] = [t |-> e[2].t]
             /\ e[1].t \in {"int", "string"} /\ e[2].t \in K
  <2>1. e = <<e[1], e[2]>> /\ e[1] \in {IntKey(e[1].n), StrKey(e[1].n)} /\ e[2] \in {Scalar(t) : t \in K}
    BY DEF IsTable
  <2>2. e[1] = [t |-> e[1].t, n |-> e[1].n] /\ e[1].t \in {"int", "string"}
    BY <2>1 DEF IntKey, StrKey
  <2>3. e[2] = [t |-> e[2].t] /\ e[2].t \in K
    BY <2>1 DEF Scalar
  <2> QED BY <2>1, <2>2, <2>3
<1>3. \A e, f \in E : e[1] = f[1] => e = f
  BY DEF IsTable
<1>4. ASSUME NEW e \in E, NEW f \in E, e[1].t = f[1].t, e[1].n = f[1].n PROVE e[1] = f[1]
  <2>1. e[1] = [t |-> e[1].t, n |-> e[1].n] /\ f[1] = [t |-> f[1].t, n |-> f[1].n]
    BY <1>2
  <2> QED BY <1>4, <2>1, Zenon
<1> QED BY <1>1, <1>2, <1>3, <1>4

\* A value of PHP that is neither refused nor ends the process.
Accepted(zval) == IsZval(zval) /\ ~Throws(zval) /\ ~Aborts(zval)

LEMMA ScalarOrArray ==
    ASSUME NEW z, IsZval(z)
    PROVE  \/ z.t \in ZvalKinds /\ z = Scalar(z.t) /\ z.t # "array"
           \/ z.t = "array" /\ z = Zarray(z.entries) /\ IsTable(z.entries, ZvalKinds)
<1>1. CASE z \in {Scalar(t) : t \in ZvalKinds}
  BY <1>1 DEF Scalar, ZvalKinds, PhpKinds
<1> QED BY <1>1 DEF IsZval

\* The keys 0, 1, ...: one entry for each number.
LEMMA SequentialEntries ==
    ASSUME NEW E, NEW K, IsTable(E, K), HasSequentialKeys(E)
    PROVE  /\ Taken(E) = E
           /\ \A n \in 1 .. Cardinality(E) : <<IntKey(n - 1), At(E, n)>> \in E
           /\ \A e \in E : \E n \in 1 .. Cardinality(E) : e = <<IntKey(n - 1), At(E, n)>>
<1> DEFINE c == Cardinality(E)
<1>1. Keys(E) = {IntKey(n - 1) : n \in 1 .. c}
  BY DEF HasSequentialKeys
<1>2. Taken(E) = E
  BY <1>1 DEF Taken, HasNumericalKeys, IntKey
<1>3. ASSUME NEW n \in 1 .. c, NEW e \in E, e[1] = IntKey(n - 1) PROVE e = <<IntKey(n - 1), At(E, n)>>
  <2>1. \A f \in E : f[1] = IntKey(n - 1) => f = e
    BY <1>3 DEF IsTable
  <2>2. (CHOOSE f \in E : f[1] = IntKey(n - 1)) = e
    BY <1>3, <2>1
  <2>3. At(E, n) = e[2]
    BY <2>2 DEF At
  <2>4. e = <<e[1], e[2]>>
    BY TableEntries
  <2> QED BY <1>3, <2>3, <2>4
<1>4. ASSUME NEW n \in 1 .. c PROVE <<IntKey(n - 1), At(E, n)>> \in E
  <2>1. PICK e \in E : e[1] = IntKey(n - 1)
    BY <1>1 DEF Keys
  <2> QED BY <1>3, <2>1
<1>5. ASSUME NEW e \in E PROVE \E n \in 1 .. c : e = <<IntKey(n - 1), At(E, n)>>
  <2>1. PICK n \in 1 .. c : e[1] = IntKey(n - 1)
    BY <1>1 DEF Keys
  <2> QED BY <1>3, <2>1
<1> QED BY <1>2, <1>4, <1>5

LEMMA FromZvalFlat ==
    ASSUME NEW z, Accepted(z)
    PROVE  Flat(FromZval(z), PhpKinds)
<1>1. CASE z.t # "array"
  <2>1. z.t \in ZvalKinds /\ z = Scalar(z.t) /\ z.t # "object"
    BY <1>1, ScalarOrArray DEF Accepted, Throws, Foreign
  <2>2. z.t \in PhpKinds
    BY <2>1 DEF ZvalKinds
  <2> QED BY <1>1, <2>1, <2>2 DEF FromZval, Flat
<1>2. CASE z.t = "array"
  <2> DEFINE E == z.entries
             c == Cardinality(E)
             S == {Scalar(t) : t \in PhpKinds}
  <2>1. IsTable(E, ZvalKinds) /\ c \in Nat
    BY <1>2, ScalarOrArray, TableEntries DEF Accepted
  <2>2. \A e \in Taken(E) : e \in E /\ e[2] # Foreign
    BY <1>2 DEF Accepted, Aborts, Taken
  <2> HIDE DEF E
  <2>3. \A e \in Taken(E) : e[2] = [t |-> e[2].t] /\ e[2].t \in PhpKinds
    <3>1. \A e \in E : e[2] = [t |-> e[2].t] /\ e[2].t \in ZvalKinds
      BY <2>1, TableEntries
    <3> QED BY <2>2, <3>1 DEF ZvalKinds, Foreign, Scalar
  <2>4. CASE HasSequentialKeys(E)
    <3> DEFINE s == [n \in 1 .. c |-> At(E, n)]
    <3>1. \A n \in 1 .. c : At(E, n) \in S
      <4>1. ASSUME NEW n \in 1 .. c PROVE At(E, n) \in S
        <5>1. <<IntKey(n - 1), At(E, n)>> \in Taken(E)
          BY <2>1, <2>4, SequentialEntries
        <5>2. At(E, n) = [t |-> At(E, n).t] /\ At(E, n).t \in PhpKinds
          BY <2>3, <5>1
        <5> QED BY <5>2 DEF Scalar
      <4> QED BY <4>1
    <3>2. s \in Seq(S)
      BY <2>1, <3>1
    <3>3. FromZval(z) = List(s)
      BY <1>2, <2>4 DEF FromZval, E
    <3> HIDE DEF s
    <3> QED BY <3>2, <3>3 DEF Flat, IsList, List
  <2>5. CASE ~HasSequentialKeys(E)
    <3>1. FromZval(z) = HashMap(Taken(E))
      BY <1>2, <2>5 DEF FromZval, E
    <3>2. ASSUME NEW e \in Taken(E) PROVE IsPair(e, PhpKinds)
      <4>1. e = <<e[1], e[2]>> /\ e[1] = [t |-> e[1].t, n |-> e[1].n] /\ e[1].t \in {"int", "string"}
        BY <2>1, <2>2, TableEntries
      <4>2. e[1].t \in PhpKinds
        BY <4>1 DEF PhpKinds
      <4> QED BY <2>3, <4>1, <4>2 DEF IsPair
    <3> QED BY <3>1, <3>2 DEF Flat, IsMap, HashMap
  <2> QED BY <2>4, <2>5
<1> QED BY <1>1, <1>2

\* What a function makes of a finite set is finite.
LEMMA FiniteImage ==
    ASSUME NEW S, IsFiniteSet(S), NEW f
    PROVE  IsFiniteSet({f[x] : x \in S})
<1> DEFINE T == {f[x] : x \in S}
           g == [x \in S |-> f[x]]
<1>1. g \in [S -> T] /\ \A t \in T : \E s \in S : g[s] = t
  OBVIOUS
<1>2. g \in Surjection(S, T)
  BY <1>1 DEF Surjection
<1> HIDE DEF g, T
<1>3. IsFiniteSet(T)
  BY <1>2, FS_Surjection
<1> QED BY <1>3 DEF T

(* ------------------------- values of lists and maps ------------------------ *)

\* A value as it is between PHP and the cluster, with scalars of these kinds.
IsValue(v, K) ==
    \/ v \in {Scalar(t) : t \in K}
    \/ v.t = "list" /\ v = List(v.items) /\ v.items \in Seq({Scalar(t) : t \in K})
    \/ v.t = "map" /\ v = HashMap(v.pairs) /\ IsTable(v.pairs, K)

LEMMA ValueIsFlat ==
    ASSUME NEW K, "int" \in K, "string" \in K, NEW v, IsValue(v, K)
    PROVE  Flat(v, K)
<1>1. CASE v.t = "map" /\ v = HashMap(v.pairs) /\ IsTable(v.pairs, K)
  <2>1. ASSUME NEW p \in v.pairs PROVE IsPair(p, K)
    <3>1. /\ p = <<p[1], p[2]>> /\ p[1] = [t |-> p[1].t, n |-> p[1].n] /\ p[2] = [t |-> p[2].t]
          /\ p[1].t \in {"int", "string"} /\ p[2].t \in K
      BY <1>1, TableEntries
    <3>2. p[1].t \in K
      BY <3>1
    <3> QED BY <3>1, <3>2 DEF IsPair
  <2> QED BY <1>1, <2>1 DEF Flat, IsMap, HashMap
<1>2. CASE v.t = "list" /\ v = List(v.items) /\ v.items \in Seq({Scalar(t) : t \in K})
  BY <1>2 DEF Flat, IsList, List
<1> QED BY <1>1, <1>2 DEF IsValue, Flat

\* A change of kinds that leaves integers and strings alone keeps the keys of a map.
LEMMA TableRenamed ==
    ASSUME NEW K, NEW E, IsTable(E, K), NEW M, NEW k, k["int"] = "int", k["string"] = "string",
           \A t \in K : k[t] \in M
    PROVE  /\ IsTable({Renamed(p, k) : p \in E}, M)
           /\ \A p \in E : Renamed(p, k)[1] = p[1]
<1> DEFINE F == {Renamed(p, k) : p \in E}
           g == [p \in E |-> Renamed(p, k)]
<1>1. ASSUME NEW p \in E
      PROVE  /\ Renamed(p, k) = <<p[1], Scalar(k[p[2].t])>> /\ k[p[2].t] \in M
             /\ Renamed(p, k)[1] = p[1] /\ Renamed(p, k)[2] = Scalar(k[p[2].t])
  <2>1. p[1] = [t |-> p[1].t, n |-> p[1].n] /\ p[1].t \in {"int", "string"} /\ p[2].t \in K
    BY TableEntries
  <2>2. k[p[1].t] = p[1].t
    BY <2>1
  <2>3. [t |-> k[p[1].t], n |-> p[1].n] = p[1]
    BY <2>1, <2>2
  <2>4. Renamed(p, k) = <<p[1], Scalar(k[p[2].t])>>
    BY <2>3 DEF Renamed
  <2>5. Renamed(p, k)[1] = p[1] /\ Renamed(p, k)[2] = Scalar(k[p[2].t])
    BY <2>4
  <2> QED BY <2>1, <2>4, <2>5
<1>2. IsFiniteSet(F)
  <2>1. F = {g[p] : p \in E}
    OBVIOUS
  <2>2. IsFiniteSet(E)
    BY DEF IsTable
  <2> HIDE DEF g, F
  <2>3. IsFiniteSet({g[p] : p \in E})
    BY <2>2, FiniteImage
  <2> QED BY <2>1, <2>3
<1>3. ASSUME NEW e \in F
      PROVE  /\ e = <<e[1], e[2]>> /\ e[1] \in {IntKey(e[1].n), StrKey(e[1].n)}
             /\ e[2] \in {Scalar(t) : t \in M}
  <2>1. PICK p \in E : e = Renamed(p, k)
    OBVIOUS
  <2>2. e[1] = p[1] /\ e[2] = Scalar(k[p[2].t]) /\ e = <<e[1], e[2]>>
    BY <1>1, <2>1
  <2>3. e[1] \in {IntKey(e[1].n), StrKey(e[1].n)}
    BY <2>2 DEF IsTable
  <2> QED BY <1>1, <2>2, <2>3
<1>4. ASSUME NEW e \in F, NEW f \in F, e[1] = f[1] PROVE e = f
  <2>1. PICK p \in E : e = Renamed(p, k)
    OBVIOUS
  <2>2. PICK q \in E : f = Renamed(q, k)
    OBVIOUS
  <2>3. p[1] = q[1]
    BY <1>1, <1>4, <2>1, <2>2
  <2>4. p = q
    BY <2>3 DEF IsTable
  <2> QED BY <2>1, <2>2, <2>4
<1>5. \A p \in E : Renamed(p, k)[1] = p[1]
  BY <1>1
<1> HIDE DEF F
<1>6. IsTable(F, M)
  BY <1>2, <1>3, <1>4 DEF IsTable
<1> QED BY <1>5, <1>6 DEF F

LEMMA ValueRenamed ==
    ASSUME NEW K, Proper(K), NEW v, IsValue(v, K), NEW M, Proper(M), NEW k, k["int"] = "int", k["string"] = "string",
           \A t \in K : k[t] \in M
    PROVE  IsValue(Each(v, k), M) /\ (Unlike(Each(v, k)) <=> Unlike(v))
<1>1. CASE v \in {Scalar(t) : t \in K}
  <2>1. PICK t \in K : v = Scalar(t)
    BY <1>1
  <2>2. Each(v, k) = Scalar(k[t]) /\ k[t] \in M /\ v.t # "map"
    BY <2>1 DEF Each, Scalar, Proper
  <2>3. Scalar(k[t]).t # "map"
    BY <2>2 DEF Scalar, Proper
  <2> QED BY <2>2, <2>3 DEF IsValue, Unlike
<1>2. CASE v.t = "list" /\ v = List(v.items) /\ v.items \in Seq({Scalar(t) : t \in K})
  <2> DEFINE u == [n \in DOMAIN v.items |-> Scalar(k[v.items[n].t])]
  <2>1. Each(v, k) = List(u)
    BY <1>2 DEF Each
  <2>2. \A n \in DOMAIN v.items : Scalar(k[v.items[n].t]) \in {Scalar(t) : t \in M}
    <3>1. \A n \in DOMAIN v.items : v.items[n].t \in K
      BY <1>2 DEF Scalar
    <3> QED BY <3>1
  <2>3. u \in [1 .. Len(v.items) -> {Scalar(t) : t \in M}] /\ Len(v.items) \in Nat
    BY <1>2, <2>2
  <2>4. u \in Seq({Scalar(t) : t \in M})
    BY <2>3
  <2> HIDE DEF u
  <2>5. List(u).t = "list" /\ List(u).items = u
    BY DEF List
  <2> QED BY <1>2, <2>1, <2>4, <2>5 DEF IsValue, Unlike
<1>3. CASE v.t = "map" /\ v = HashMap(v.pairs) /\ IsTable(v.pairs, K)
  <2> DEFINE F == {Renamed(p, k) : p \in v.pairs}
  <2>1. Each(v, k) = HashMap(F)
    BY <1>3 DEF Each
  <2>2. IsTable(F, M) /\ \A p \in v.pairs : Renamed(p, k)[1] = p[1]
    BY <1>3, TableRenamed
  <2>3. F = {} <=> v.pairs = {}
    OBVIOUS
  <2>4. (\E e \in F : e[1].t = "int") <=> (\E p \in v.pairs : p[1].t = "int")
    BY <2>2
  <2> HIDE DEF F
  <2>5. HashMap(F).t = "map" /\ HashMap(F).pairs = F
    BY DEF HashMap
  <2> QED BY <1>3, <2>1, <2>2, <2>3, <2>4, <2>5 DEF IsValue, Unlike
<1> QED BY <1>1, <1>2, <1>3 DEF IsValue

\* from_zval makes a value of everything it accepts.
LEMMA FromZvalValue ==
    ASSUME NEW z, Accepted(z)
    PROVE  IsValue(FromZval(z), PhpKinds)
<1>1. Flat(FromZval(z), PhpKinds)
  BY FromZvalFlat
<1>2. CASE z.t = "array" /\ ~HasSequentialKeys(z.entries)
  <2> DEFINE T == Taken(z.entries)
  <2>1. FromZval(z) = HashMap(T) /\ T \in SUBSET z.entries /\ IsTable(z.entries, ZvalKinds)
    BY <1>2, ScalarOrArray DEF FromZval, Taken, Accepted
  <2>2. IsFiniteSet(T)
    BY <2>1, FS_Subset DEF IsTable
  <2>3. HashMap(T).t = "map" /\ HashMap(T).pairs = T
    BY DEF HashMap
  <2>4. \A e \in T : e[2].t \in PhpKinds
    <3>1. FromZval(z).pairs = T /\ FromZval(z).t = "map"
      BY <2>1, <2>3
    <3>2. IsMap(FromZval(z), PhpKinds)
      BY <1>1, <3>1 DEF Flat, IsList, Scalar, PhpKinds
    <3> QED BY <3>1, <3>2 DEF IsMap, IsPair
  <2> HIDE DEF T
  <2>5. ASSUME NEW e \in T
        PROVE  /\ e = <<e[1], e[2]>> /\ e[1] \in {IntKey(e[1].n), StrKey(e[1].n)}
               /\ e[2] \in {Scalar(t) : t \in PhpKinds}
    <3>1. e \in z.entries /\ e[2].t \in PhpKinds
      BY <2>1, <2>4
    <3>2. e = <<e[1], e[2]>> /\ e[1] \in {IntKey(e[1].n), StrKey(e[1].n)}
      BY <2>1, <3>1 DEF IsTable
    <3>3. e[2] = [t |-> e[2].t]
      BY <2>1, <3>1, TableEntries
    <3>4. e[2] = Scalar(e[2].t)
      BY <3>3, Zenon DEF Scalar
    <3> QED BY <3>1, <3>2, <3>4
  <2>6. \A e, f \in T : e[1] = f[1] => e = f
    BY <2>1 DEF IsTable
  <2>7. IsTable(T, PhpKinds)
    BY <2>2, <2>5, <2>6 DEF IsTable
  <2> QED BY <2>1, <2>3, <2>7 DEF IsValue
<1>3. CASE ~(z.t = "array" /\ ~HasSequentialKeys(z.entries))
  <2>1. FromZval(z).t # "map"
    <3>1. CASE z.t # "array"
      BY <3>1, ScalarOrArray DEF FromZval, Accepted, ZvalKinds, PhpKinds
    <3>2. CASE z.t = "array" /\ HasSequentialKeys(z.entries)
      BY <3>2 DEF FromZval, List
    <3> QED BY <1>3, <3>1, <3>2
  <2>2. ~IsMap(FromZval(z), PhpKinds)
    BY <2>1 DEF IsMap
  <2>3. CASE IsList(FromZval(z), PhpKinds)
    BY <2>3 DEF IsList, IsValue, List
  <2> QED BY <1>1, <2>2, <2>3 DEF Flat, IsValue
<1> QED BY <1>2, <1>3

\* The arrays that a map may become.
LEMMA MapIntoZval ==
    ASSUME NEW P, NEW K, IsTable(P, K), NEW z \in IntoZval(HashMap(P))
    PROVE  \E kept \in SUBSET P :
             /\ z = Zarray({<<StrKey(p[1].n), p[2]>> : p \in kept})
             /\ \A p \in P : \E q \in kept : q[1].n = p[1].n
             /\ \A p, q \in kept : p[1].n = q[1].n => p = q
             /\ (\A p \in P : p[1].t = "string") => {<<StrKey(p[1].n), p[2]>> : p \in kept} = P
<1>1. HashMap(P).t = "map" /\ HashMap(P).pairs = P
  BY DEF HashMap
<1>2. PICK kept \in SUBSET P :
         /\ {p[1].n : p \in kept} = {p[1].n : p \in P}
         /\ \A p, q \in kept : p[1].n = q[1].n => p = q
         /\ z = Zarray({<<StrKey(p[1].n), p[2]>> : p \in kept})
  BY <1>1 DEF IntoZval
<1>3. \A p \in P : \E q \in kept : q[1].n = p[1].n
  <2>1. ASSUME NEW p \in P PROVE \E q \in kept : q[1].n = p[1].n
    <3>1. p[1].n \in {q[1].n : q \in kept}
      BY <1>2
    <3> QED BY <3>1
  <2> QED BY <2>1
<1>4. ASSUME \A p \in P : p[1].t = "string" PROVE {<<StrKey(p[1].n), p[2]>> : p \in kept} = P
  <2>1. ASSUME NEW p \in P PROVE p \in kept
    <3>1. PICK q \in kept : q[1].n = p[1].n
      BY <1>3
    <3>2. q \in P /\ q[1].t = p[1].t
      BY <1>4
    <3>3. q = p
      BY <3>1, <3>2, TableEntries
    <3> QED BY <3>1, <3>3
  <2>2. kept = P
    BY <2>1
  <2>3. ASSUME NEW p \in P PROVE <<StrKey(p[1].n), p[2]>> = p
    <3>1. p = <<p[1], p[2]>> /\ p[1] \in {IntKey(p[1].n), StrKey(p[1].n)}
      BY DEF IsTable
    <3>2. p[1] # IntKey(p[1].n)
      BY <1>4 DEF IntKey
    <3> QED BY <3>1, <3>2
  <2> QED BY <2>2, <2>3
<1> QED BY <1>2, <1>3, <1>4

\* What from_zval made of an array becomes that array again, unless it has integer keys
\* that are not those of a list.
LEMMA ArrayComesBack ==
    ASSUME NEW z, Accepted(z), NEW s \in IntoZval(FromZval(z))
    PROVE  s = z <=> ~Mangled(z)
<1>1. CASE z.t # "array"
  <2>1. z.t \in ZvalKinds /\ z = Scalar(z.t)
    BY <1>1, ScalarOrArray DEF Accepted
  <2>2. z.t \notin {"list", "map"} /\ FromZval(z) = z
    BY <1>1, <2>1 DEF FromZval, ZvalKinds, PhpKinds
  <2>3. IntoZval(FromZval(z)) = {z}
    BY <2>2 DEF IntoZval
  <2> QED BY <1>1, <2>3 DEF Mangled
<1>2. CASE z.t = "array"
  <2> DEFINE E == z.entries
             c == Cardinality(E)
  <2>1. z = Zarray(E) /\ IsTable(E, ZvalKinds)
    BY <1>2, ScalarOrArray DEF Accepted
  <2>2. CASE HasSequentialKeys(E)
    <3> DEFINE t == [n \in 1 .. c |-> At(E, n)]
    <3>1. FromZval(z) = List(t)
      BY <1>2, <2>2 DEF FromZval
    <3>2. List(t).t = "list" /\ List(t).items = t
      BY DEF List
    <3>3. s = Zarray({<<IntKey(n - 1), t[n]>> : n \in DOMAIN t})
      BY <3>1, <3>2 DEF IntoZval
    <3>4. {<<IntKey(n - 1), t[n]>> : n \in DOMAIN t} = {<<IntKey(n - 1), At(E, n)>> : n \in 1 .. c}
      OBVIOUS
    <3>5. {<<IntKey(n - 1), At(E, n)>> : n \in 1 .. c} = E
      BY <2>1, <2>2, SequentialEntries
    <3>6. s = z
      BY <2>1, <3>3, <3>4, <3>5, Zenon
    <3> QED BY <2>2, <3>6 DEF Mangled
  <2>3. CASE ~HasSequentialKeys(E)
    <3> DEFINE T == Taken(E)
    <3>1. FromZval(z) = HashMap(T)
      BY <1>2, <2>3 DEF FromZval
    <3>2. IsTable(T, PhpKinds)
      <4>1. IsValue(HashMap(T), PhpKinds)
        BY <3>1, FromZvalValue, Zenon
      <4>2. HashMap(T).t = "map" /\ HashMap(T).pairs = T
        BY DEF HashMap
      <4>3. HashMap(T) \notin {Scalar(t) : t \in PhpKinds}
        BY <4>2 DEF Scalar, PhpKinds
      <4> QED BY <4>1, <4>2, <4>3 DEF IsValue
    <3> HIDE DEF T
    <3>3. PICK kept \in SUBSET T :
             /\ s = Zarray({<<StrKey(p[1].n), p[2]>> : p \in kept})
             /\ (\A p \in T : p[1].t = "string") => {<<StrKey(p[1].n), p[2]>> : p \in kept} = T
      BY <3>1, <3>2, MapIntoZval
    <3> DEFINE R == {<<StrKey(p[1].n), p[2]>> : p \in kept}
    <3>4. CASE \E k \in Keys(E) : k.t = "int"
      <4>1. PICK e \in E : e[1].t = "int"
        BY <3>4 DEF Keys
      <4>2. \A r \in R : r[1].t = "string"
        BY DEF StrKey
      <4>3. e \notin R
        BY <4>1, <4>2
      <4>4. s = Zarray(R) /\ R # E
        BY <3>3, <4>3
      <4> HIDE DEF R, E
      <4>5. s.entries = R /\ z.entries = E
        BY <2>1, <4>4 DEF Zarray
      <4> QED BY <1>2, <2>3, <3>4, <4>4, <4>5 DEF Mangled, E
    <3>5. CASE ~ \E k \in Keys(E) : k.t = "int"
      <4>1. \A e \in E : e[1].t = "string"
        <5>1. \A e \in E : e[1].t \in {"int", "string"}
          BY <2>1, TableEntries
        <5> QED BY <3>5, <5>1 DEF Keys
      <4>2. T = E
        <5>1. CASE HasNumericalKeys(E)
          BY <5>1 DEF Taken, T
        <5>2. CASE ~HasNumericalKeys(E)
          BY <4>1, <5>2 DEF Taken, T
        <5> QED BY <5>1, <5>2
      <4>3. s = z
        BY <2>1, <3>3, <4>1, <4>2, Zenon
      <4> QED BY <3>5, <4>3 DEF Mangled
    <3> QED BY <3>4, <3>5
  <2> QED BY <2>2, <2>3
<1> QED BY <1>1, <1>2

\* An array of scalars is accepted.
LEMMA TableAccepted ==
    ASSUME NEW E, IsTable(E, PhpKinds)
    PROVE  Accepted(Zarray(E)) /\ Zarray(E).t = "array" /\ Zarray(E).entries = E
<1>1. Zarray(E).t = "array" /\ Zarray(E).entries = E
  BY DEF Zarray
<1>2. PhpKinds \subseteq ZvalKinds /\ "object" \notin PhpKinds
  BY DEF PhpKinds, ZvalKinds
<1>3. IsTable(E, ZvalKinds)
  BY <1>2 DEF IsTable
<1>4. \A e \in E : e[2] # Foreign
  <2>1. \A e \in E : e[2].t \in PhpKinds
    BY TableEntries
  <2> QED BY <1>2, <2>1 DEF Foreign, Scalar
<1>5. ~Aborts(Zarray(E))
  BY <1>1, <1>4 DEF Aborts, Taken
<1>6. ~Throws(Zarray(E))
  BY <1>1 DEF Throws, Foreign, Scalar
<1>7. IsZval(Zarray(E))
  BY <1>1, <1>3 DEF IsZval
<1> QED BY <1>1, <1>5, <1>6, <1>7 DEF Accepted

\* A list becomes an array with the keys 0, 1, ..., and that array a list.
LEMMA ListComesBack ==
    ASSUME NEW s \in Seq({Scalar(t) : t \in PhpKinds}), NEW z \in IntoZval(List(s))
    PROVE  Accepted(z) /\ FromZval(z) = List(s)
<1> DEFINE m == Len(s)
           E == {<<IntKey(n - 1), s[n]>> : n \in 1 .. m}
           g == [n \in 1 .. m |-> <<IntKey(n - 1), s[n]>>]
           S == {Scalar(t) : t \in PhpKinds}
<1>1. m \in Nat /\ DOMAIN s = 1 .. m /\ \A n \in 1 .. m : s[n] \in S
  OBVIOUS
<1>2. List(s).t = "list" /\ List(s).items = s
  BY DEF List
<1>3. z = Zarray(E)
  BY <1>1, <1>2 DEF IntoZval
<1>4. \A n \in 1 .. m : IntKey(n - 1) = [t |-> "int", n |-> n - 1] /\ IntKey(n - 1).n = n - 1
  BY DEF IntKey
<1>5. \A n, k \in 1 .. m : IntKey(n - 1) = IntKey(k - 1) => n = k
  <2>1. ASSUME NEW n \in 1 .. m, NEW k \in 1 .. m, IntKey(n - 1) = IntKey(k - 1) PROVE n = k
    <3>1. n - 1 = k - 1
      BY <1>4, <2>1, Zenon
    <3> QED BY <1>1, <3>1
  <2> QED BY <2>1
<1>6. IsFiniteSet(E) /\ Cardinality(E) = m
  <2>1. g \in [1 .. m -> E] /\ \A e \in E : \E n \in 1 .. m : g[n] = e
    OBVIOUS
  <2>2. \A n, k \in 1 .. m : g[n] = g[k] => n = k
    BY <1>5
  <2> HIDE DEF g, E
  <2>3. g \in Bijection(1 .. m, E)
    BY <2>1, <2>2 DEF Bijection, Injection, Surjection, IsInjective
  <2>4. ExistsBijection(1 .. m, E)
    BY <2>3 DEF ExistsBijection
  <2>5. Cardinality(E) = m
    BY <1>1, <2>4, FS_CountingElements
  <2>6. IsFiniteSet(1 .. m)
    BY <1>1, FS_Interval, 1 \in Int, m \in Int
  <2>7. IsFiniteSet(E)
    BY <2>4, <2>6, FS_Bijection
  <2> QED BY <2>5, <2>7
<1>7. ASSUME NEW e \in E
      PROVE  /\ e = <<e[1], e[2]>> /\ e[1] \in {IntKey(e[1].n), StrKey(e[1].n)} /\ e[2] \in S
  <2>1. PICK n \in 1 .. m : e = <<IntKey(n - 1), s[n]>>
    OBVIOUS
  <2>2. e[1] = IntKey(n - 1) /\ e[2] = s[n]
    BY <2>1
  <2> QED BY <1>1, <1>4, <2>1, <2>2
<1>8. ASSUME NEW e \in E, NEW f \in E, e[1] = f[1] PROVE e = f
  <2>1. PICK n \in 1 .. m : e = <<IntKey(n - 1), s[n]>>
    OBVIOUS
  <2>2. PICK k \in 1 .. m : f = <<IntKey(k - 1), s[k]>>
    OBVIOUS
  <2>3. n = k
    BY <1>5, <1>8, <2>1, <2>2
  <2> QED BY <2>1, <2>2, <2>3
<1>9. HasSequentialKeys(E)
  <2>1. Keys(E) = {IntKey(n - 1) : n \in 1 .. m}
    <3>1. \A n \in 1 .. m : <<IntKey(n - 1), s[n]>>[1] = IntKey(n - 1)
      OBVIOUS
    <3> QED BY <3>1, Zenon DEF Keys
  <2> HIDE DEF E
  <2> QED BY <1>6, <2>1 DEF HasSequentialKeys
<1>10. \A n \in 1 .. m : <<IntKey(n - 1), s[n]>> \in E
  OBVIOUS
<1> HIDE DEF E
<1>11. IsTable(E, PhpKinds)
  BY <1>6, <1>7, <1>8 DEF IsTable
<1>12. Accepted(z) /\ z.t = "array" /\ z.entries = E
  BY <1>3, <1>11, TableAccepted
<1>13. \A n \in 1 .. m : At(E, n) = s[n]
  <2>1. ASSUME NEW n \in 1 .. m PROVE At(E, n) = s[n]
    <3>1. <<IntKey(n - 1), At(E, n)>> \in E /\ <<IntKey(n - 1), s[n]>> \in E
      BY <1>6, <1>9, <1>10, <1>11, SequentialEntries
    <3>2. <<IntKey(n - 1), At(E, n)>> = <<IntKey(n - 1), s[n]>>
      BY <1>8, <3>1
    <3> QED BY <3>2
  <2> QED BY <2>1
<1>14. FromZval(z) = List([n \in 1 .. m |-> At(E, n)])
  BY <1>6, <1>9, <1>12 DEF FromZval
<1>15. [n \in 1 .. m |-> At(E, n)] = s
  BY <1>1, <1>13
<1> QED BY <1>12, <1>14, <1>15

\* A map becomes an array with string keys, and that array a map, when it is not empty.
LEMMA MapComesBack ==
    ASSUME NEW P, IsTable(P, PhpKinds), NEW z \in IntoZval(HashMap(P))
    PROVE  Accepted(z) /\ (FromZval(z) = HashMap(P) <=> ~Unlike(HashMap(P)))
<1>1. PICK kept \in SUBSET P :
         /\ z = Zarray({<<StrKey(p[1].n), p[2]>> : p \in kept})
         /\ \A p \in P : \E q \in kept : q[1].n = p[1].n
         /\ \A p, q \in kept : p[1].n = q[1].n => p = q
         /\ (\A p \in P : p[1].t = "string") => {<<StrKey(p[1].n), p[2]>> : p \in kept} = P
  BY MapIntoZval
<1> DEFINE R == {<<StrKey(p[1].n), p[2]>> : p \in kept}
           g == [p \in kept |-> <<StrKey(p[1].n), p[2]>>]
<1>2. IsFiniteSet(R)
  <2>1. R = {g[p] : p \in kept}
    OBVIOUS
  <2>2. IsFiniteSet(kept)
    BY FS_Subset DEF IsTable
  <2> HIDE DEF g, R
  <2> QED BY <2>1, <2>2, FiniteImage
<1>3. ASSUME NEW e \in R
      PROVE  /\ e = <<e[1], e[2]>> /\ e[1] = StrKey(e[1].n) /\ e[1].t = "string"
             /\ e[2] \in {Scalar(t) : t \in PhpKinds}
  <2>1. PICK p \in kept : e = <<StrKey(p[1].n), p[2]>>
    OBVIOUS
  <2>2. e[1] = StrKey(p[1].n) /\ e[2] = p[2] /\ p \in P
    BY <2>1
  <2>3. StrKey(p[1].n).n = p[1].n /\ StrKey(p[1].n).t = "string"
    BY DEF StrKey
  <2>4. p[2] \in {Scalar(t) : t \in PhpKinds}
    BY <2>2 DEF IsTable
  <2> QED BY <2>1, <2>2, <2>3, <2>4
<1>4. ASSUME NEW e \in R, NEW f \in R, e[1] = f[1] PROVE e = f
  <2>1. PICK p \in kept : e = <<StrKey(p[1].n), p[2]>>
    OBVIOUS
  <2>2. PICK q \in kept : f = <<StrKey(q[1].n), q[2]>>
    OBVIOUS
  <2>3. p[1].n = q[1].n
    BY <1>4, <2>1, <2>2 DEF StrKey
  <2>4. p = q
    BY <1>1, <2>3
  <2> QED BY <2>1, <2>2, <2>4
<1>5. R = {} <=> P = {}
  BY <1>1
<1>6. z = Zarray(R) /\ ((\A p \in P : p[1].t = "string") => R = P)
  BY <1>1
<1> HIDE DEF R
<1>7. IsTable(R, PhpKinds)
  BY <1>2, <1>3, <1>4 DEF IsTable
<1>8. Accepted(z) /\ z.t = "array" /\ z.entries = R
  BY <1>6, <1>7, TableAccepted
<1>9. HashMap(P).t = "map" /\ HashMap(P).pairs = P /\ HashMap(R).pairs = R
  BY DEF HashMap
<1>10. CASE P = {}
  <2>1. R = {} /\ Keys(R) = {} /\ Cardinality(R) = 0
    BY <1>5, <1>10, FS_EmptySet DEF Keys
  <2>2. HasSequentialKeys(R)
    BY <2>1 DEF HasSequentialKeys
  <2>3. FromZval(z).t = "list"
    BY <1>8, <2>2 DEF FromZval, List
  <2> QED BY <1>8, <1>9, <1>10, <2>3 DEF Unlike
<1>11. CASE P # {}
  <2>1. PICK e \in R : e[1].t = "string"
    BY <1>3, <1>5, <1>11
  <2>2. e[1] \in Keys(R)
    BY DEF Keys
  <2>3. ~HasSequentialKeys(R) /\ ~HasNumericalKeys(R)
    BY <2>1, <2>2 DEF HasSequentialKeys, HasNumericalKeys, IntKey
  <2>4. Taken(R) = R
    BY <1>3, <2>3 DEF Taken
  <2>5. FromZval(z) = HashMap(R)
    BY <1>8, <2>3, <2>4 DEF FromZval
  <2>6. CASE \E p \in P : p[1].t = "int"
    <3>1. R # P
      BY <1>3, <2>6
    <3>2. HashMap(R) # HashMap(P)
      BY <1>9, <3>1
    <3> QED BY <1>8, <1>9, <2>5, <2>6, <3>2 DEF Unlike
  <2>7. CASE ~ \E p \in P : p[1].t = "int"
    <3>1. \A p \in P : p[1].t = "string"
      BY <2>7, TableEntries
    <3> QED BY <1>6, <1>8, <1>9, <1>11, <2>5, <2>7, <3>1 DEF Unlike
  <2> QED BY <2>6, <2>7
<1> QED BY <1>10, <1>11

LEMMA ValueComesBack ==
    ASSUME NEW v, IsValue(v, PhpKinds), NEW z \in IntoZval(v)
    PROVE  Accepted(z) /\ (FromZval(z) = v <=> ~Unlike(v))
<1>1. CASE v \in {Scalar(t) : t \in PhpKinds}
  <2>1. PICK t \in PhpKinds : v = Scalar(t)
    BY <1>1
  <2>2. v.t \notin {"array", "list", "map", "object"}
    BY <2>1 DEF Scalar, PhpKinds
  <2>3. z = v
    BY <2>2 DEF IntoZval
  <2>4. IsZval(v)
    BY <2>1 DEF IsZval, ZvalKinds
  <2>5. v # Foreign
    BY <2>2 DEF Foreign, Scalar
  <2> QED BY <2>2, <2>3, <2>4, <2>5 DEF Accepted, Throws, Aborts, FromZval, Unlike
<1>2. CASE v.t = "list" /\ v = List(v.items) /\ v.items \in Seq({Scalar(t) : t \in PhpKinds})
  BY <1>2, ListComesBack DEF Unlike
<1>3. CASE v.t = "map" /\ v = HashMap(v.pairs) /\ IsTable(v.pairs, PhpKinds)
  <2> DEFINE P == v.pairs
  <2>1. v = HashMap(P) /\ IsTable(P, PhpKinds)
    BY <1>3
  <2> HIDE DEF P
  <2> QED BY <2>1, MapComesBack
<1> QED BY <1>1, <1>2, <1>3 DEF IsValue

(* ------------------------------- round trips ------------------------------- *)

LEMMA WrittenIsNative ==
    ASSUME NEW z, Accepted(z)
    PROVE  IsNative(Written(z)) /\ Written(z) = Each(FromZval(z), Way) /\ Flat(FromZval(z), PhpKinds)
<1>1. Flat(FromZval(z), PhpKinds) /\ IsValue(FromZval(z), PhpKinds)
  BY FromZvalFlat, FromZvalValue
<1>2. Written(z) = Each(FromZval(z), Way)
  BY <1>1, WrittenValue
<1>3. IsValue(Each(FromZval(z), Way), NativeKinds)
  BY <1>1, KindTables, ValueRenamed
<1> QED BY <1>1, <1>2, <1>3 DEF IsNative, IsValue, NativeKinds

LEMMA SeenOfNative ==
    ASSUME NEW v, IsNative(v)
    PROVE  /\ Flat(v, NativeKinds) /\ Flat(Each(v, Back), PhpKinds) /\ IsValue(Each(v, Back), PhpKinds)
           /\ Seen(v) = IntoZval(Each(v, Back))
           /\ Unlike(Each(v, Back)) <=> Unlike(v)
<1>1. IsValue(v, NativeKinds)
  BY DEF IsNative, IsValue, NativeKinds
<1>2. "int" \in NativeKinds /\ "string" \in NativeKinds
  BY DEF NativeKinds, FromKind
<1>3. Flat(v, NativeKinds)
  BY <1>1, <1>2, ValueIsFlat
<1>4. Seen(v) = IntoZval(Each(v, Back)) /\ Flat(Each(v, Back), PhpKinds)
  BY <1>3, ReadValue DEF Seen
<1>5. IsValue(Each(v, Back), PhpKinds) /\ (Unlike(Each(v, Back)) <=> Unlike(v))
  BY <1>1, KindTables, ValueRenamed
<1> QED BY <1>3, <1>4, <1>5

\* A value that is put and read.
LEMMA PutAndRead ==
    ASSUME NEW z, Accepted(z), NEW s \in Seen(Written(z))
    PROVE  s = z <=> ~Mangled(z)
<1>1. IsNative(Written(z)) /\ Written(z) = Each(FromZval(z), Way) /\ Flat(FromZval(z), PhpKinds)
  BY WrittenIsNative
<1>2. Seen(Written(z)) = IntoZval(Each(Written(z), Back))
  BY <1>1, SeenOfNative
<1>3. Each(Written(z), Back) = FromZval(z)
  BY <1>1, KindsComeBack
<1> QED BY <1>2, <1>3, ArrayComesBack

\* A value that is read and written back.
LEMMA ReadAndPut ==
    ASSUME NEW v, IsNative(v), NEW z \in Seen(v)
    PROVE  Accepted(z) /\ (Written(z) = v <=> ~Unlike(v))
<1> DEFINE u == Each(v, Back)
<1>1. Flat(v, NativeKinds) /\ Flat(u, PhpKinds) /\ IsValue(u, PhpKinds) /\ z \in IntoZval(u) /\ (Unlike(u) <=> Unlike(v))
  BY SeenOfNative
<1>2. Each(u, Way) = v
  BY <1>1, KindsComeBack
<1> HIDE DEF u
<1>3. Accepted(z) /\ (FromZval(z) = u <=> ~Unlike(u))
  BY <1>1, ValueComesBack
<1>4. Written(z) = Each(FromZval(z), Way) /\ Flat(FromZval(z), PhpKinds)
  BY <1>3, WrittenIsNative
<1>5. Each(Written(z), Back) = FromZval(z)
  BY <1>4, KindsComeBack
<1> QED BY <1>1, <1>2, <1>3, <1>4, <1>5 DEF u

(* ----------------------- inductive invariant of values --------------------- *)

\* Programs pass values of PHP, and bins hold what the Go client can read.
ValuesTyped == \A i \in DOMAIN asked : IsZval(asked[i].value) /\ IsNative(bin[i]) /\ IsNative(was[i])

\* What is put was accepted when the operations were made.
PutsAccepted == pc = "called" => \A i \in DOMAIN asked : PutsValue(asked[i]) => Accepted(asked[i].value)

\* A message and a record carry the value of their command.
MessagesCarry ==
    \A k \in DOMAIN msgs : LET i == msgs[k].key IN
        /\ i \in DOMAIN asked
        /\ PutsValue(asked[i]) => Accepted(asked[i].value) /\ msgs[k].value = ToMessage(asked[i].value)

RecordsCarry ==
    \A k \in DOMAIN recs : LET i == recs[k].key IN
        /\ i \in DOMAIN asked
        /\ PutsValue(asked[i]) => Accepted(asked[i].value) /\ recs[k].value = ToValue(ToMessage(asked[i].value))

\* A bin holds what was put into it.
BinsHoldPuts ==
    \A k \in done : LET i == recs[k].key IN PutsValue(asked[i]) => bin[i] = Written(asked[i].value)

\* Where a list is returned, and in the second round, everything is a command, and
\* records are at the positions of their commands.
AllAreCommands ==
    /\ pc \in {"rpc", "go", "reply", "error"} /\ ~thrown => Recognised = DOMAIN asked
    /\ seen.kind = "list" => Recognised = DOMAIN asked /\ \A k \in DOMAIN recs : recs[k].key = k
    /\ round = 2 => /\ Recognised = DOMAIN asked
                    /\ \A k \in DOMAIN msgs : msgs[k].key = k
                    /\ \A k \in DOMAIN recs : recs[k].key = k

\* A list shows what the bins hold.
ListShowsBins ==
    /\ seen.kind = "list" => \A i \in DOMAIN asked : seen.records[i].value \in Seen(bin[i])
    /\ seen.kind # "list" => seen.records = << >>

\* The second round puts what was read from the bins when it began.
SecondRound == round = 2 => \A i \in DOMAIN asked : asked[i].value \in Seen(was[i]) /\ PutsValue(asked[i])

ValuesInv ==
    /\ ValuesTyped
    /\ PutsAccepted
    /\ MessagesCarry
    /\ RecordsCarry
    /\ BinsHoldPuts
    /\ AllAreCommands
    /\ ListShowsBins
    /\ SecondRound

LEMMA InitValuesInv == Init => ValuesInv
<1> SUFFICES ASSUME Init PROVE ValuesInv
  OBVIOUS
<1>1. \A i \in DOMAIN asked : IsZval(asked[i].value) /\ IsNative(asked[i].holds)
  BY ValuesAssumption DEF Init
<1>2. \A i \in DOMAIN asked : bin[i] = asked[i].holds /\ was[i] = asked[i].holds
  BY DEF Init
<1>3. ValuesTyped
  BY <1>1, <1>2, Zenon DEF ValuesTyped
<1>4. pc = "new" /\ DOMAIN msgs = {} /\ DOMAIN recs = {} /\ done = {} /\ round = 1 /\ seen.kind = "nothing" /\ seen.records = << >>
  BY DEF Init
<1>5. PutsAccepted /\ MessagesCarry /\ RecordsCarry /\ BinsHoldPuts
  BY <1>4 DEF PutsAccepted, MessagesCarry, RecordsCarry, BinsHoldPuts
<1>6. AllAreCommands /\ ListShowsBins /\ SecondRound
  BY <1>4 DEF AllAreCommands, ListShowsBins, SecondRound
<1> QED BY <1>3, <1>5, <1>6 DEF ValuesInv

\* A step that leaves commands, bins, messages and records alone.
LEMMA StageValues ==
    ASSUME ValuesInv, UNCHANGED <<asked, round, bin, was, msgs, recs, done>>,
           PutsAccepted', AllAreCommands', ListShowsBins'
    PROVE  ValuesInv'
<1>1. ValuesTyped' /\ SecondRound'
  BY DEF ValuesInv, ValuesTyped, SecondRound
<1>2. MessagesCarry' /\ RecordsCarry'
  BY DEF ValuesInv, MessagesCarry, RecordsCarry
<1>3. BinsHoldPuts'
  BY DEF ValuesInv, BinsHoldPuts
<1> QED BY <1>1, <1>2, <1>3 DEF ValuesInv

LEMMA ConstructValues == ValuesInv /\ Construct => ValuesInv'
<1> SUFFICES ASSUME ValuesInv, Construct PROVE ValuesInv'
  OBVIOUS
<1> DEFINE Values == {asked[i].value : i \in {j \in DOMAIN asked : PutsValue(asked[j])}}
<1>1. /\ pc' \in {"aborted", "refused", "called"}
      /\ UNCHANGED <<asked, round, bin, was, msgs, recs, net, done, answer, thrown, seen>>
  BY DEF Construct
<1>2. pc' = "called" => \A v \in Values : ~Aborts(v) /\ ~Throws(v)
  BY DEF Construct
<1>3. PutsAccepted'
  <2>1. ASSUME pc' = "called", NEW i \in DOMAIN asked, PutsValue(asked[i]) PROVE Accepted(asked[i].value)
    <3>1. asked[i].value \in Values
      BY <2>1
    <3>2. IsZval(asked[i].value)
      BY DEF ValuesInv, ValuesTyped
    <3> QED BY <1>2, <2>1, <3>1, <3>2 DEF Accepted
  <2> QED BY <1>1, <2>1 DEF PutsAccepted
<1>4. AllAreCommands' /\ ListShowsBins'
  BY <1>1 DEF ValuesInv, AllAreCommands, ListShowsBins, Recognised
<1> QED BY <1>1, <1>3, <1>4, StageValues

LEMMA GoReturnsValues == ValuesInv /\ GoReturns => ValuesInv'
<1> SUFFICES ASSUME ValuesInv, GoReturns PROVE ValuesInv'
  OBVIOUS
<1>1. /\ pc = "go" /\ pc' \in {"reply", "error"}
      /\ UNCHANGED <<asked, round, bin, was, msgs, recs, net, done, answer, thrown, seen>>
  BY DEF GoReturns
<1>2. PutsAccepted' /\ AllAreCommands' /\ ListShowsBins'
  BY <1>1 DEF ValuesInv, PutsAccepted, AllAreCommands, ListShowsBins, Recognised
<1> QED BY <1>1, <1>2, StageValues

LEMMA AcmCrashValues == ValuesInv /\ AcmCrash => ValuesInv'
<1> SUFFICES ASSUME ValuesInv, AcmCrash PROVE ValuesInv'
  OBVIOUS
<1>1. pc' = "broken" /\ UNCHANGED <<asked, round, bin, was, msgs, recs, net, done, answer, thrown, seen>>
  BY DEF AcmCrash
<1>2. PutsAccepted' /\ AllAreCommands' /\ ListShowsBins'
  BY <1>1 DEF ValuesInv, PutsAccepted, AllAreCommands, ListShowsBins, Recognised
<1> QED BY <1>1, <1>2, StageValues

LEMMA IdleValues == ValuesInv /\ UNCHANGED vars => ValuesInv'
<1> SUFFICES ASSUME ValuesInv, UNCHANGED vars PROVE ValuesInv'
  OBVIOUS
<1>1. PutsAccepted' /\ AllAreCommands' /\ ListShowsBins'
  BY DEF vars, ValuesInv, PutsAccepted, AllAreCommands, ListShowsBins, Recognised
<1> QED BY <1>1, StageValues DEF vars

\* The command that is the k-th recognised is a command.
LEMMA NthIsCommand ==
    ASSUME IsBatch(asked), NEW k \in 1 .. Cardinality(Recognised)
    PROVE  Nth(k) \in Recognised /\ Nth(k) \in DOMAIN asked
<1> DEFINE R == Recognised
           c == Cardinality(R)
           r == [i \in R |-> Cardinality({j \in R : j <= i})]
<1>1. R \in SUBSET (1 .. Len(asked)) /\ Len(asked) \in Nat /\ R \subseteq DOMAIN asked
  BY DEF IsBatch, Recognised
<1>2. IsFiniteSet(1 .. Len(asked))
  BY <1>1, FS_Interval, 1 \in Int, Len(asked) \in Int
<1>3. IsFiniteSet(R)
  BY <1>1, <1>2, FS_Subset
<1>4. c \in Nat
  BY <1>3, FS_CardinalityType
<1> HIDE DEF R
<1>5. ASSUME NEW i \in R
      PROVE  /\ IsFiniteSet({j \in R : j <= i}) /\ i \in {j \in R : j <= i}
             /\ Cardinality({j \in R : j <= i}) \in 1 .. c
  <2> DEFINE S == {j \in R : j <= i}
  <2>1. S \in SUBSET R /\ i \in S
    BY <1>1
  <2> HIDE DEF S
  <2>2. IsFiniteSet(S) /\ Cardinality(S) <= c
    BY <1>3, <2>1, FS_Subset
  <2>3. Cardinality(S) \in Nat
    BY <2>2, FS_CardinalityType
  <2>4. Cardinality(S) # 0
    BY <2>1, <2>2, FS_EmptySet
  <2>5. Cardinality(S) \in 1 .. c
    BY <1>4, <2>2, <2>3, <2>4
  <2> QED BY <2>1, <2>2, <2>5 DEF S
<1>6. ASSUME NEW i \in R, NEW l \in R, r[i] = r[l], i < l PROVE FALSE
  <2> DEFINE S == {j \in R : j <= i}
             T == {j \in R : j <= l}
  <2>1. i \in Nat /\ l \in Nat /\ S \in SUBSET T /\ l \in T /\ l \notin S
    BY <1>1, <1>6
  <2>2. IsFiniteSet(T) /\ Cardinality(T) = Cardinality(S)
    BY <1>5, <1>6
  <2> HIDE DEF S, T
  <2>3. T = S
    BY <2>1, <2>2, FS_Subset
  <2> QED BY <2>1, <2>3
<1>7. \A i, l \in R : r[i] = r[l] => i = l
  <2>1. \A i \in R : i \in Nat
    BY <1>1
  <2> HIDE DEF r
  <2>2. ASSUME NEW i \in R, NEW l \in R, r[i] = r[l] PROVE i = l
    <3>1. ~(i < l) /\ ~(l < i)
      BY <1>6, <2>2
    <3> QED BY <2>1, <3>1
  <2> QED BY <2>2
<1>8. r \in [R -> 1 .. c]
  BY <1>5
<1>9. r \in Injection(R, 1 .. c)
  <2> HIDE DEF r
  <2> QED BY <1>7, <1>8 DEF Injection, IsInjective
<1>10. IsFiniteSet(1 .. c) /\ Cardinality(1 .. c) = c
  <2>1. /\ IsFiniteSet(1 .. c)
        /\ Cardinality(1 .. c) = IF 1 > c THEN 0 ELSE c - 1 + 1
    BY <1>4, FS_Interval, 1 \in Int, c \in Int
  <2> QED BY <1>4, <2>1
<1>11. r \in Surjection(R, 1 .. c)
  <2> HIDE DEF r
  <2> QED BY <1>9, <1>10, FS_Injection
<1>12. k \in 1 .. c
  BY DEF R
<1>13. PICK i \in R : r[i] = k
  <2> HIDE DEF r
  <2> QED BY <1>11, <1>12 DEF Surjection
<1>14. i \in Recognised /\ Cardinality({j \in Recognised : j <= i}) = k
  BY <1>13 DEF R
<1>15. Nth(k) \in Recognised
  BY <1>14 DEF Nth
<1> QED BY <1>1, <1>15 DEF R

LEMMA BuildValues == BatchInv /\ ValuesInv /\ Build => ValuesInv'
<1> SUFFICES ASSUME BatchInv, ValuesInv, Build PROVE ValuesInv'
  OBVIOUS
<1> DEFINE c == Cardinality(Recognised)
<1>1. /\ pc = "called" /\ pc' = "rpc"
      /\ UNCHANGED <<asked, round, bin, was, recs, net, done, answer, seen>>
      /\ msgs' = [k \in 1 .. c |-> Message(asked[Nth(k)], Nth(k))]
  BY DEF Build
<1>2. IsBatch(asked)
  BY DEF BatchInv, TypeOK
<1>3. thrown' = (Recognised # DOMAIN asked)
  BY DEF Build
<1>4. seen.kind # "list" /\ DOMAIN recs = {} /\ done = {}
  BY <1>1 DEF BatchInv, ListIsLast, NothingYet
<1>5. ASSUME NEW k \in DOMAIN msgs'
      PROVE  /\ msgs'[k].key = Nth(k) /\ Nth(k) \in DOMAIN asked
             /\ PutsValue(asked[Nth(k)]) => msgs'[k].value = ToMessage(asked[Nth(k)].value)
  <2>1. k \in 1 .. c /\ msgs'[k] = Message(asked[Nth(k)], Nth(k))
    BY <1>1
  <2>2. Nth(k) \in DOMAIN asked
    BY <1>2, <2>1, NthIsCommand
  <2>3. msgs'[k].key = Nth(k)
    BY <2>1 DEF Message
  <2>4. PutsValue(asked[Nth(k)]) => msgs'[k].value = ToMessage(asked[Nth(k)].value)
    BY <2>1 DEF Message
  <2> QED BY <2>2, <2>3, <2>4
<1>6. MessagesCarry'
  <2>1. \A i \in DOMAIN asked : PutsValue(asked[i]) => Accepted(asked[i].value)
    BY <1>1 DEF ValuesInv, PutsAccepted
  <2> QED BY <1>1, <1>5, <2>1 DEF MessagesCarry
<1>7. AllAreCommands'
  <2>1. ASSUME Recognised = DOMAIN asked, NEW k \in DOMAIN msgs' PROVE msgs'[k].key = k
    <3>1. k \in 1 .. c
      BY <1>1, <2>1
    <3>2. Len(asked) \in Nat /\ DOMAIN asked = 1 .. Len(asked) /\ c \in Nat /\ c <= Len(asked)
      BY <1>2, RecognisedIsFinite DEF IsBatch
    <3>3. k \in DOMAIN asked
      BY <3>1, <3>2
    <3>4. Nth(k) = k
      BY <1>2, <2>1, <3>3, AllRecognised
    <3> QED BY <1>5, <3>4
  <2>2. round = 2 => Recognised = DOMAIN asked
    BY DEF ValuesInv, AllAreCommands
  <2>3. Recognised' = Recognised
    BY <1>1 DEF Recognised
  <2>4. ~thrown' => Recognised = DOMAIN asked
    BY <1>3
  <2> QED BY <1>1, <1>4, <2>1, <2>2, <2>3, <2>4 DEF AllAreCommands
<1>8. ValuesTyped' /\ SecondRound' /\ ListShowsBins'
  BY <1>1 DEF ValuesInv, ValuesTyped, SecondRound, ListShowsBins
<1>9. RecordsCarry' /\ BinsHoldPuts' /\ PutsAccepted'
  BY <1>1, <1>4 DEF RecordsCarry, BinsHoldPuts, PutsAccepted
<1> QED BY <1>6, <1>7, <1>8, <1>9 DEF ValuesInv

LEMMA HandleValues == BatchInv /\ ValuesInv /\ Handle => ValuesInv'
<1> SUFFICES ASSUME BatchInv, ValuesInv, Handle PROVE ValuesInv'
  OBVIOUS
<1>1. pc = "rpc" /\ UNCHANGED <<asked, round, bin, was, msgs, done, answer, thrown, seen>>
  BY DEF Handle
<1>2. seen.kind # "list" /\ done = {}
  BY <1>1 DEF BatchInv, ListIsLast, NothingYet
<1>3. CASE \E i \in DOMAIN msgs : MessagePanics(msgs[i])
  <2>1. pc' = "broken" /\ UNCHANGED <<recs, net>>
    BY <1>3 DEF Handle
  <2>2. PutsAccepted' /\ AllAreCommands' /\ ListShowsBins'
    BY <1>1, <2>1 DEF ValuesInv, PutsAccepted, AllAreCommands, ListShowsBins, Recognised
  <2> QED BY <1>1, <2>1, <2>2, StageValues
<1>4. CASE ~ \E i \in DOMAIN msgs : MessagePanics(msgs[i])
  <2>1. pc' = "go" /\ recs' = [i \in DOMAIN msgs |-> BatchRecordIfc(msgs[i])]
    BY <1>4 DEF Handle
  <2>2. ASSUME NEW k \in DOMAIN msgs
        PROVE  recs'[k].key = msgs[k].key /\ recs'[k].value = ToValue(msgs[k].value)
    <3>1. recs'[k] = BatchRecordIfc(msgs[k])
      BY <2>1
    <3> QED BY <3>1 DEF BatchRecordIfc
  <2>3. DOMAIN recs' = DOMAIN msgs
    BY <2>1
  <2>4. RecordsCarry'
    BY <1>1, <2>2, <2>3 DEF ValuesInv, MessagesCarry, RecordsCarry
  <2>5. MessagesCarry'
    BY <1>1 DEF ValuesInv, MessagesCarry
  <2>6. AllAreCommands'
    BY <1>1, <1>2, <2>1, <2>2, <2>3 DEF ValuesInv, AllAreCommands, Recognised
  <2>7. ValuesTyped' /\ SecondRound' /\ ListShowsBins'
    BY <1>1 DEF ValuesInv, ValuesTyped, SecondRound, ListShowsBins
  <2>8. BinsHoldPuts' /\ PutsAccepted'
    BY <1>1, <1>2, <2>1 DEF BinsHoldPuts, PutsAccepted
  <2> QED BY <2>4, <2>5, <2>6, <2>7, <2>8 DEF ValuesInv
<1> QED BY <1>3, <1>4

\* A node puts the value of the command, and only there.
LEMMA ExecuteValues == ASSUME BatchInv, ValuesInv, NEW k \in net, Execute(k) PROVE ValuesInv'
<1> DEFINE i == recs[k].key
<1>1. /\ bin' = IF PutsValue(asked[i]) THEN [bin EXCEPT ![i] = Stored(recs[k].value)] ELSE bin
      /\ done' = done \cup {k}
      /\ UNCHANGED <<asked, round, was, pc, msgs, recs, thrown, seen>>
  BY DEF Execute
<1>2. k \in DOMAIN recs /\ done \subseteq DOMAIN recs /\ DOMAIN bin = DOMAIN asked
  BY DEF BatchInv, TypeOK
<1>3. i \in DOMAIN asked /\ (PutsValue(asked[i]) => Accepted(asked[i].value) /\ Stored(recs[k].value) = Written(asked[i].value))
  <2>1. /\ i \in DOMAIN asked
        /\ PutsValue(asked[i]) => Accepted(asked[i].value) /\ recs[k].value = ToValue(ToMessage(asked[i].value))
    BY <1>2 DEF ValuesInv, RecordsCarry
  <2> HIDE DEF i
  <2> QED BY <2>1 DEF Written
<1> HIDE DEF i
<1>4. \A j \in DOMAIN asked : bin'[j] = IF PutsValue(asked[j]) /\ j = i THEN Written(asked[j].value) ELSE bin[j]
  BY <1>1, <1>2, <1>3
<1>5. ASSUME NEW j \in DOMAIN asked PROVE IsNative(bin'[j])
  <2>1. CASE PutsValue(asked[j]) /\ j = i
    BY <1>3, <1>4, <2>1, WrittenIsNative
  <2>2. CASE ~(PutsValue(asked[j]) /\ j = i)
    BY <1>4, <2>2 DEF ValuesInv, ValuesTyped
  <2> QED BY <2>1, <2>2
<1>6. ValuesTyped'
  BY <1>1, <1>5 DEF ValuesInv, ValuesTyped
<1>7. BinsHoldPuts'
  <2>1. ASSUME NEW l \in done', PutsValue(asked[recs[l].key])
        PROVE  bin'[recs[l].key] = Written(asked[recs[l].key].value)
    <3>1. recs[l].key \in DOMAIN asked
      BY <1>1, <1>2 DEF ValuesInv, RecordsCarry
    <3>2. CASE recs[l].key = i
      BY <1>4, <2>1, <3>1, <3>2
    <3>3. CASE recs[l].key # i
      <4>1. l \in done
        BY <1>1, <3>3 DEF i
      <4> QED BY <1>4, <2>1, <3>1, <3>3, <4>1 DEF ValuesInv, BinsHoldPuts
    <3> QED BY <3>2, <3>3
  <2> QED BY <1>1, <2>1 DEF BinsHoldPuts
<1>8. seen.kind # "list"
  BY DEF BatchInv, ListIsLast
<1>9. MessagesCarry' /\ RecordsCarry' /\ PutsAccepted'
  BY <1>1 DEF ValuesInv, MessagesCarry, RecordsCarry, PutsAccepted
<1>10. AllAreCommands' /\ SecondRound' /\ ListShowsBins'
  BY <1>1, <1>8 DEF ValuesInv, AllAreCommands, SecondRound, ListShowsBins, Recognised
<1> QED BY <1>6, <1>7, <1>9, <1>10 DEF ValuesInv

LEMMA LoseValues == ASSUME ValuesInv, NEW k \in net, Lose(k) PROVE ValuesInv'
<1>1. UNCHANGED <<asked, round, bin, was, pc, msgs, recs, done, answer, thrown, seen>>
  BY DEF Lose
<1>2. PutsAccepted' /\ AllAreCommands' /\ ListShowsBins'
  BY <1>1 DEF ValuesInv, PutsAccepted, AllAreCommands, ListShowsBins, Recognised
<1> QED BY <1>1, <1>2, StageValues

LEMMA ReturnValues == BatchInv /\ ValuesInv /\ Return => ValuesInv'
<1> SUFFICES ASSUME BatchInv, ValuesInv, Return PROVE ValuesInv'
  OBVIOUS
<1>1. /\ pc \in {"reply", "error", "broken", "refused"} /\ pc' = "returned"
      /\ UNCHANGED <<asked, round, bin, was, msgs, recs, net, done, answer, thrown>>
  BY DEF Return
<1>2. PutsAccepted'
  BY <1>1 DEF PutsAccepted
<1>3. round = 2 => /\ Recognised = DOMAIN asked
                   /\ \A k \in DOMAIN msgs : msgs[k].key = k
                   /\ \A k \in DOMAIN recs : recs[k].key = k
  BY DEF ValuesInv, AllAreCommands
<1>4. Recognised' = Recognised
  BY <1>1 DEF Recognised
<1>5. CASE ~(pc = "reply" /\ ~thrown)
  <2>1. seen' \in {[kind |-> "exception", records |-> << >>], [kind |-> "aerospike", records |-> << >>]}
    BY <1>1, <1>5 DEF Return
  <2>2. seen'.kind # "list" /\ seen'.records = << >>
    BY <2>1
  <2>3. AllAreCommands' /\ ListShowsBins'
    BY <1>1, <1>3, <1>4, <2>2 DEF AllAreCommands, ListShowsBins
  <2> QED BY <1>1, <1>2, <2>3, StageValues
<1>6. CASE pc = "reply" /\ ~thrown
  <2>1. PICK values \in ReadValues : seen' = [kind |-> "list", records |-> FromBatchRecords(values)]
    BY <1>6 DEF Return
  <2>2. seen'.kind = "list" /\ seen'.records = FromBatchRecords(values)
    BY <2>1
  <2>3. DOMAIN recs = DOMAIN asked /\ \A i \in DOMAIN asked : recs[i].key = i
    BY <1>6 DEF BatchInv, OneMessageEach, OneRecordEach
  <2>4. ASSUME NEW i \in DOMAIN asked PROVE seen'.records[i].value \in Seen(bin[i])
    <3>1. seen'.records[i] = [key |-> recs[i].key, record |-> i \in answer, value |-> values[i]]
      BY <2>2, <2>3 DEF FromBatchRecords
    <3>2. values[i] \in Seen(bin[recs[i].key])
      BY <2>3 DEF ReadValues
    <3>3. seen'.records[i].value = values[i]
      BY <3>1
    <3> QED BY <2>3, <3>2, <3>3
  <2>5. ListShowsBins'
    BY <1>1, <2>2, <2>4 DEF ListShowsBins
  <2>6. Recognised = DOMAIN asked
    BY <1>6 DEF ValuesInv, AllAreCommands
  <2>7. AllAreCommands'
    BY <1>1, <1>3, <1>4, <2>3, <2>6 DEF AllAreCommands
  <2> QED BY <1>1, <1>2, <2>5, <2>7, StageValues
<1> QED BY <1>5, <1>6

\* The second batch puts what the first has read.
LEMMA WriteBackValues == BatchInv /\ ValuesInv /\ WriteBack => ValuesInv'
<1> SUFFICES ASSUME BatchInv, ValuesInv, WriteBack PROVE ValuesInv'
  OBVIOUS
<1>1. /\ pc' = "new" /\ DOMAIN msgs' = {} /\ DOMAIN recs' = {} /\ done' = {}
      /\ seen' = [kind |-> "nothing", records |-> << >>] /\ seen.kind = "list"
      /\ round' = 2 /\ was' = bin /\ bin' = bin
      /\ asked' = [i \in DOMAIN asked |->
                    [asked[i] EXCEPT !.value = seen.records[i].value, !.ops = <<Op("Put"), Op("Get")>>]]
  <2>1. msgs' = << >> /\ recs' = << >>
    BY DEF WriteBack
  <2>2. DOMAIN msgs' = {} /\ DOMAIN recs' = {}
    BY <2>1
  <2> QED BY <2>2 DEF WriteBack
<1>2. DOMAIN asked' = DOMAIN asked
  BY <1>1
<1>3. ASSUME NEW i \in DOMAIN asked
      PROVE  /\ asked'[i].value = seen.records[i].value /\ asked'[i].kind = asked[i].kind
             /\ asked'[i].ops = <<Op("Put"), Op("Get")>>
  <2>1. asked[i] = [kind |-> asked[i].kind, bins |-> asked[i].bins, ops |-> asked[i].ops, key |-> asked[i].key,
                    filter |-> asked[i].filter, value |-> asked[i].value, holds |-> asked[i].holds]
    BY DEF BatchInv, TypeOK, IsBatch, IsCommand
  <2>2. asked'[i] = [asked[i] EXCEPT !.value = seen.records[i].value, !.ops = <<Op("Put"), Op("Get")>>]
    BY <1>1
  <2> QED BY <2>1, <2>2
<1>4. ASSUME NEW i \in DOMAIN asked PROVE PutsValue(asked'[i])
  <2>1. Op("Put").method = "Put"
    BY DEF Op
  <2> QED BY <1>3, <2>1 DEF PutsValue
<1>5. ASSUME NEW i \in DOMAIN asked
      PROVE  asked'[i].value \in Seen(bin[i]) /\ IsZval(asked'[i].value) /\ IsNative(bin[i])
  <2>1. IsNative(bin[i]) /\ asked'[i].value \in Seen(bin[i])
    BY <1>1, <1>3 DEF ValuesInv, ValuesTyped, ListShowsBins
  <2>2. Accepted(asked'[i].value)
    BY <2>1, ReadAndPut
  <2> QED BY <2>1, <2>2 DEF Accepted
<1>6. Recognised' = DOMAIN asked'
  <2>1. Recognised = DOMAIN asked
    BY <1>1 DEF ValuesInv, AllAreCommands
  <2> QED BY <1>2, <1>3, <2>1 DEF Recognised
<1>7. ValuesTyped' /\ SecondRound'
  BY <1>1, <1>2, <1>4, <1>5 DEF ValuesTyped, SecondRound
<1>8. MessagesCarry' /\ RecordsCarry' /\ BinsHoldPuts' /\ PutsAccepted'
  BY <1>1 DEF MessagesCarry, RecordsCarry, BinsHoldPuts, PutsAccepted
<1>9. AllAreCommands' /\ ListShowsBins'
  <2>1. seen'.kind = "nothing" /\ seen'.records = << >>
    BY <1>1
  <2> QED BY <1>1, <1>6, <2>1 DEF AllAreCommands, ListShowsBins
<1> QED BY <1>7, <1>8, <1>9 DEF ValuesInv

LEMMA NextValuesInv == BatchInv /\ ValuesInv /\ [Next]_vars => ValuesInv'
<1> SUFFICES ASSUME BatchInv, ValuesInv, [Next]_vars PROVE ValuesInv'
  OBVIOUS
<1>1. CASE Construct
  BY <1>1, ConstructValues
<1>2. CASE Build
  BY <1>2, BuildValues
<1>3. CASE Handle
  BY <1>3, HandleValues
<1>4. CASE GoReturns
  BY <1>4, GoReturnsValues
<1>5. CASE AcmCrash
  BY <1>5, AcmCrashValues
<1>6. CASE Return
  BY <1>6, ReturnValues
<1>7. CASE WriteBack
  BY <1>7, WriteBackValues
<1>8. CASE \E k \in net : Execute(k) \/ Lose(k)
  <2>1. PICK k \in net : Execute(k) \/ Lose(k)
    BY <1>8
  <2> QED BY <2>1, ExecuteValues, LoseValues
<1>9. CASE Ended \/ UNCHANGED vars
  BY <1>9, IdleValues DEF Ended
<1> QED BY <1>1, <1>2, <1>3, <1>4, <1>5, <1>6, <1>7, <1>8, <1>9 DEF Next

LEMMA InvariantValuesComeBack == BatchInv /\ ValuesInv => ValuesComeBack
<1> SUFFICES ASSUME BatchInv, ValuesInv PROVE ValuesComeBack
  OBVIOUS
<1>1. done \subseteq DOMAIN recs
  BY DEF BatchInv, TypeOK
<1>2. ASSUME NEW i \in DOMAIN seen.records, seen.records[i].record, PutsValue(asked[i])
      PROVE  seen.records[i].value = asked[i].value <=> ~Mangled(asked[i].value)
  <2>1. seen.kind = "list"
    BY <1>2 DEF ValuesInv, ListShowsBins
  <2>2. i \in DOMAIN asked /\ i \in done
    BY <1>2, <2>1 DEF BatchInv, ResultsInPlace
  <2>3. recs[i].key = i
    BY <1>1, <2>1, <2>2 DEF ValuesInv, AllAreCommands
  <2>4. bin[i] = Written(asked[i].value)
    BY <1>2, <2>2, <2>3 DEF ValuesInv, BinsHoldPuts
  <2>5. Accepted(asked[i].value)
    BY <1>1, <1>2, <2>2, <2>3 DEF ValuesInv, RecordsCarry
  <2>6. seen.records[i].value \in Seen(bin[i])
    BY <2>1, <2>2 DEF ValuesInv, ListShowsBins
  <2> QED BY <2>4, <2>5, <2>6, PutAndRead
<1>3. ASSUME NEW i \in done, round = 2 PROVE bin[i] = was[i] <=> ~Unlike(was[i])
  <2>1. i \in DOMAIN recs /\ recs[i].key = i
    BY <1>1, <1>3 DEF ValuesInv, AllAreCommands
  <2>2. i \in DOMAIN asked
    BY <2>1 DEF ValuesInv, RecordsCarry
  <2>3. asked[i].value \in Seen(was[i]) /\ PutsValue(asked[i]) /\ IsNative(was[i])
    BY <1>3, <2>2 DEF ValuesInv, SecondRound, ValuesTyped
  <2>4. bin[i] = Written(asked[i].value)
    BY <2>1, <2>3 DEF ValuesInv, BinsHoldPuts
  <2> QED BY <2>3, <2>4, ReadAndPut
<1> QED BY <1>2, <1>3 DEF ValuesComeBack

\* A value that a program puts in a batch and reads comes back as it was, and a value
\* that it reads and puts back leaves the bin as it was, except for what a PHP array
\* cannot stand for, and for exactly that: from_zval, the conversions between PHP
\* values, messages and Go values, and into_zval are inverse to each other on every
\* other value, of any size, and a batch of any length puts each value into the bin of
\* its own command.
THEOREM ValuesReturn == Spec => []ValuesComeBack
<1>1. Init => BatchInv /\ ValuesInv
  BY InitBatchInv, InitValuesInv
<1>2. BatchInv /\ ValuesInv /\ [Next]_vars => (BatchInv /\ ValuesInv)'
  BY NextBatchInv, NextValuesInv
<1>3. BatchInv /\ ValuesInv => ValuesComeBack
  BY InvariantValuesComeBack
<1> QED BY <1>1, <1>2, <1>3, PTL DEF Spec

(* ------------------------- the tables of operations ------------------------ *)

\* The parameters of an operation of the Go client, as kvs.go fills them.
Params(c) ==
    IF c \in {"Put", "Append", "Prepend", "Add"} THEN <<V("bin_value")>>
    ELSE IF c = "ListCreate" THEN <<I("order"), B("pad"), B("index")>>
    ELSE IF c \in {"ListSetOrder", "MapCreate"} THEN <<I("order")>>
    ELSE IF c \in {"ListAppend", "ListGetByValueList", "ListRemoveByValueList", "MapRemoveByValueList",
                   "MapGetByValueList"} THEN <<L("values")>>
    ELSE IF c = "ListInsert" THEN <<I("index"), L("values")>>
    ELSE IF c \in {"ListPop", "ListPopRangeFrom", "ListRemoveRangeFrom", "ListGetByIndex", "ListGetByIndexRange",
                   "ListRemoveByIndex", "ListRemoveByIndexRange", "MapRemoveByIndex", "MapRemoveByIndexRange",
                   "MapGetByIndex", "MapGetByIndexRange"} THEN <<I("index")>>
    ELSE IF c \in {"ListPopRange", "ListTrim", "ListRemoveRange", "ListGetByIndexRangeCount",
                   "ListRemoveByIndexRangeCount", "MapRemoveByIndexRangeCount", "MapGetByIndexRangeCount"}
    THEN <<I("index"), I("count")>>
    ELSE IF c \in {"ListSet", "ListIncrement"} THEN <<I("index"), V("value")>>
    ELSE IF c = "ListSort" THEN <<I("sort_flags")>>
    ELSE IF c \in {"ListGetByValueRange", "ListRemoveByValueRange", "MapRemoveByKeyRange", "MapRemoveByValueRange",
                   "MapGetByKeyRange", "MapGetByValueRange"} THEN <<V("begin"), V("end")>>
    ELSE IF c \in {"ListGetByRank", "ListGetByRankRange", "ListRemoveByRank", "ListRemoveByRankRange",
                   "MapRemoveByRank", "MapRemoveByRankRange", "MapGetByRank", "MapGetByRankRange"}
    THEN <<I("rank")>>
    ELSE IF c \in {"ListGetByRankRangeCount", "ListRemoveByRankRangeCount", "MapRemoveByRankRangeCount",
                   "MapGetByRankRangeCount"} THEN <<I("rank"), I("count")>>
    ELSE IF c \in {"ListGetByValueRelativeRankRange", "ListRemoveByValueRelativeRankRange",
                   "MapRemoveByValueRelativeRankRange", "MapGetByValueRelativeRankRange"}
    THEN <<V("value"), I("rank")>>
    ELSE IF c \in {"ListGetByValueRelativeRankRangeCount", "ListRemoveByValueRelativeRankRangeCount",
                   "MapRemoveByValueRelativeRankRangeCount", "MapGetByValueRelativeRankRangeCount"}
    THEN <<V("value"), I("rank"), I("count")>>
    ELSE IF c = "MapPutItems" THEN <<V("map")>>
    ELSE IF c = "MapIncrement" THEN <<V("key"), V("incr")>>
    ELSE IF c = "MapDecrement" THEN <<V("key"), V("decr")>>
    ELSE IF c \in {"MapRemoveByKeyList", "MapGetByKeyList"} THEN <<L("keys")>>
    ELSE IF c \in {"MapRemoveByKeyRelativeIndexRange", "MapGetByKeyRelativeIndexRange"} THEN <<V("key"), I("index")>>
    ELSE IF c \in {"MapRemoveByKeyRelativeIndexRangeCount", "MapGetByKeyRelativeIndexRangeCount"}
    THEN <<V("key"), I("index"), I("count")>>
    ELSE IF c = "HLLInit" THEN <<I("index_bit_count"), I("min_hash_bit_count")>>
    ELSE IF c = "HLLAdd" THEN <<L("list"), I("index_bit_count"), I("min_hash_bit_count")>>
    ELSE IF c = "HLLFold" THEN <<I("index_bit_count")>>
    ELSE IF c \in {"HLLSetUnion", "HLLGetUnion", "HLLGetUnionCount", "HLLGetIntersectCount", "HLLGetSimilarity"}
    THEN <<L("list")>>
    ELSE IF c = "BitResize" THEN <<I("byte_size"), I("resize_flags")>>
    ELSE IF c = "BitInsert" THEN <<I("byte_offset"), Blob("value")>>
    ELSE IF c = "BitRemove" THEN <<I("byte_offset"), I("byte_size")>>
    ELSE IF c \in {"BitSet", "BitOr", "BitXor", "BitAnd"} THEN <<I("bit_offset"), I("bit_size"), Blob("value")>>
    ELSE IF c \in {"BitNot", "BitGet", "BitCount"} THEN <<I("bit_offset"), I("bit_size")>>
    ELSE IF c \in {"BitLShift", "BitRShift"} THEN <<I("bit_offset"), I("bit_size"), I("shift")>>
    ELSE IF c = "BitSetInt" THEN <<I("bit_offset"), I("bit_size"), I("value")>>
    ELSE IF c \in {"BitLScan", "BitRScan"} THEN <<I("bit_offset"), I("bit_size"), B("value")>>
    ELSE IF c = "BitGetInt" THEN <<I("bit_offset"), I("bit_size"), B("signed")>>
    ELSE << >>

\* What the handler reads for a code: each parameter from its place, but for the overflow
\* action of two bit operations, which it takes from the place of the sign.
Exact(c, r) ==
    r = IF c \in {"BitAdd", "BitSubtract"}
        THEN <<[at |-> 1, arg |-> I("bit_offset")], [at |-> 2, arg |-> I("bit_size")], [at |-> 3, arg |-> I("value")],
               [at |-> 4, arg |-> B("signed")], [at |-> 4, arg |-> I("action")]>>
        ELSE [k \in DOMAIN Params(c) |-> [at |-> k, arg |-> Params(c)[k]]]

ReadsExactly(f) == \A c \in DOMAIN f : Exact(c, f[c])

\* What a method sends that is no misfit: its own code and the parameters of that.
Plainly(m, e) ==
    /\ e.op = m /\ e.args = Params(m) /\ e.takes = {Params(m)[k].param : k \in DOMAIN Params(m)}
    /\ m \in DOMAIN Server

\* What the misfits send: another code, too few arguments, a parameter that the operation
\* does not have, or an action that is not read.
Wrongly(m, e) ==
    \/ e.op # m
    \/ m = "MapCreate" /\ e.args = << >>
    \/ m \in {"MapGetByIndexRange", "MapGetByRankRange"} /\ "begin" \in e.takes
    \/ m = "MapGetByIndexRangeCount" /\ "rank" \in e.takes
    \/ m = "MapGetByRankRangeCount" /\ "range" \in e.takes
    \/ /\ m \in {"BitAdd", "BitSubtract"}
       /\ e.args = <<I("bit_offset"), I("bit_size"), I("value"), B("signed"), I("action")>>

SendsAsTold(f) == \A m \in DOMAIN f : IF m \in Misfits THEN Wrongly(m, f[m]) ELSE Plainly(m, f[m])

\* A table of parts has the names of all, and for each an entry of one.
LEMMA JoinEntries ==
    ASSUME NEW parts
    PROVE  /\ DOMAIN Join(parts) = UNION {DOMAIN parts[i] : i \in DOMAIN parts}
           /\ \A n \in DOMAIN Join(parts) :
                 \E i \in DOMAIN parts : n \in DOMAIN parts[i] /\ Join(parts)[n] = parts[i][n]
<1>1. DOMAIN Join(parts) = UNION {DOMAIN parts[i] : i \in DOMAIN parts}
  BY DEF Join
<1>2. ASSUME NEW n \in DOMAIN Join(parts)
      PROVE  \E i \in DOMAIN parts : n \in DOMAIN parts[i] /\ Join(parts)[n] = parts[i][n]
  <2> DEFINE j == CHOOSE i \in DOMAIN parts : n \in DOMAIN parts[i]
  <2>1. \E i \in DOMAIN parts : n \in DOMAIN parts[i]
    BY <1>1, <1>2
  <2>2. j \in DOMAIN parts /\ n \in DOMAIN parts[j]
    BY <2>1
  <2>3. Join(parts)[n] = parts[j][n]
    BY <1>1, <1>2 DEF Join
  <2> QED BY <2>2, <2>3
<1> QED BY <1>1, <1>2

\* Parts that read exactly make a table that does, and so does a table entry by entry.
LEMMA ReadsJoin ==
    ASSUME NEW parts, \A i \in DOMAIN parts : ReadsExactly(parts[i])
    PROVE  ReadsExactly(Join(parts))
<1> SUFFICES ASSUME NEW c \in DOMAIN Join(parts) PROVE Exact(c, Join(parts)[c])
  BY DEF ReadsExactly
<1>1. PICK i \in DOMAIN parts : c \in DOMAIN parts[i] /\ Join(parts)[c] = parts[i][c]
  BY JoinEntries
<1> QED BY <1>1 DEF ReadsExactly

LEMMA ReadsTable ==
    ASSUME NEW S, NEW args, \A c \in S : c \notin {"BitAdd", "BitSubtract"} /\ Params(c) = args
    PROVE  ReadsExactly(Reads(S, args))
  BY DEF ReadsExactly, Exact, Reads

\* The functions of kvs.go, one by one.
LEMMA ToStdOpReads == ReadsExactly(ToStdOp)
<1>1. ReadsExactly(Reads({"Get", "GetHeader", "Touch", "Delete"}, << >>))
  BY ReadsTable DEF Params
<1>2. ReadsExactly(Reads({"Put", "Append", "Prepend", "Add"}, <<V("bin_value")>>))
  BY ReadsTable DEF Params
<1> QED BY <1>1, <1>2, ReadsJoin DEF ToStdOp

LEMMA ToCdtListOpReads == ReadsExactly(ToCdtListOp)
<1>1. ReadsExactly(Reads({"ListCreate"}, <<I("order"), B("pad"), B("index")>>))
  BY ReadsTable DEF Params
<1>2. ReadsExactly(Reads({"ListSetOrder"}, <<I("order")>>))
  BY ReadsTable DEF Params
<1>3. ReadsExactly(Reads({"ListAppend", "ListGetByValueList", "ListRemoveByValueList"}, <<L("values")>>))
  BY ReadsTable DEF Params
<1>4. ReadsExactly(Reads({"ListInsert"}, <<I("index"), L("values")>>))
  BY ReadsTable DEF Params
<1>5. ReadsExactly(Reads({"ListPop", "ListPopRangeFrom", "ListRemoveRangeFrom", "ListGetByIndex",
       "ListGetByIndexRange", "ListRemoveByIndex", "ListRemoveByIndexRange"}, <<I("index")>>))
  BY ReadsTable DEF Params
<1>6. ReadsExactly(Reads({"ListPopRange", "ListTrim", "ListRemoveRange", "ListGetByIndexRangeCount",
       "ListRemoveByIndexRangeCount"}, <<I("index"), I("count")>>))
  BY ReadsTable DEF Params
<1>7. ReadsExactly(Reads({"ListSet", "ListIncrement"}, <<I("index"), V("value")>>))
  BY ReadsTable DEF Params
<1>8. ReadsExactly(Reads({"ListClear", "ListSize"}, << >>))
  BY ReadsTable DEF Params
<1>9. ReadsExactly(Reads({"ListSort"}, <<I("sort_flags")>>))
  BY ReadsTable DEF Params
<1>10. ReadsExactly(Reads({"ListGetByValueRange", "ListRemoveByValueRange"}, <<V("begin"), V("end")>>))
  BY ReadsTable DEF Params
<1>11. ReadsExactly(Reads({"ListGetByRank", "ListGetByRankRange", "ListRemoveByRank",
       "ListRemoveByRankRange"}, <<I("rank")>>))
  BY ReadsTable DEF Params
<1>12. ReadsExactly(Reads({"ListGetByRankRangeCount", "ListRemoveByRankRangeCount"}, <<I("rank"),
       I("count")>>))
  BY ReadsTable DEF Params
<1>13. ReadsExactly(Reads({"ListGetByValueRelativeRankRange", "ListRemoveByValueRelativeRankRange"},
       <<V("value"), I("rank")>>))
  BY ReadsTable DEF Params
<1>14. ReadsExactly(Reads({"ListGetByValueRelativeRankRangeCount", "ListRemoveByValueRelativeRankRangeCount"},
       <<V("value"), I("rank"), I("count")>>))
  BY ReadsTable DEF Params
<1> QED BY <1>1, <1>2, <1>3, <1>4, <1>5, <1>6, <1>7, <1>8, <1>9, <1>10, <1>11, <1>12, <1>13, <1>14, ReadsJoin DEF ToCdtListOp

LEMMA ToCdtMapOpReads == ReadsExactly(ToCdtMapOp)
<1>1. ReadsExactly(Reads({"MapCreate"}, <<I("order")>>))
  BY ReadsTable DEF Params
<1>2. ReadsExactly(Reads({"MapSetPolicy", "MapClear", "MapSize"}, << >>))
  BY ReadsTable DEF Params
<1>3. ReadsExactly(Reads({"MapPutItems"}, <<V("map")>>))
  BY ReadsTable DEF Params
<1>4. ReadsExactly(Reads({"MapIncrement"}, <<V("key"), V("incr")>>))
  BY ReadsTable DEF Params
<1>5. ReadsExactly(Reads({"MapDecrement"}, <<V("key"), V("decr")>>))
  BY ReadsTable DEF Params
<1>6. ReadsExactly(Reads({"MapRemoveByKeyList", "MapGetByKeyList"}, <<L("keys")>>))
  BY ReadsTable DEF Params
<1>7. ReadsExactly(Reads({"MapRemoveByValueList", "MapGetByValueList"}, <<L("values")>>))
  BY ReadsTable DEF Params
<1>8. ReadsExactly(Reads({"MapRemoveByKeyRange", "MapRemoveByValueRange", "MapGetByKeyRange",
       "MapGetByValueRange"}, <<V("begin"), V("end")>>))
  BY ReadsTable DEF Params
<1>9. ReadsExactly(Reads({"MapRemoveByValueRelativeRankRange", "MapGetByValueRelativeRankRange"},
       <<V("value"), I("rank")>>))
  BY ReadsTable DEF Params
<1>10. ReadsExactly(Reads({"MapRemoveByValueRelativeRankRangeCount", "MapGetByValueRelativeRankRangeCount"},
       <<V("value"), I("rank"), I("count")>>))
  BY ReadsTable DEF Params
<1>11. ReadsExactly(Reads({"MapRemoveByIndex", "MapRemoveByIndexRange", "MapGetByIndex",
       "MapGetByIndexRange"}, <<I("index")>>))
  BY ReadsTable DEF Params
<1>12. ReadsExactly(Reads({"MapRemoveByIndexRangeCount", "MapGetByIndexRangeCount"}, <<I("index"),
       I("count")>>))
  BY ReadsTable DEF Params
<1>13. ReadsExactly(Reads({"MapRemoveByRank", "MapRemoveByRankRange", "MapGetByRank", "MapGetByRankRange"},
       <<I("rank")>>))
  BY ReadsTable DEF Params
<1>14. ReadsExactly(Reads({"MapRemoveByRankRangeCount", "MapGetByRankRangeCount"}, <<I("rank"), I("count")>>))
  BY ReadsTable DEF Params
<1>15. ReadsExactly(Reads({"MapRemoveByKeyRelativeIndexRange", "MapGetByKeyRelativeIndexRange"}, <<V("key"),
       I("index")>>))
  BY ReadsTable DEF Params
<1>16. ReadsExactly(Reads({"MapRemoveByKeyRelativeIndexRangeCount", "MapGetByKeyRelativeIndexRangeCount"},
       <<V("key"), I("index"), I("count")>>))
  BY ReadsTable DEF Params
<1> QED BY <1>1, <1>2, <1>3, <1>4, <1>5, <1>6, <1>7, <1>8, <1>9, <1>10, <1>11, <1>12, <1>13, <1>14, <1>15, <1>16, ReadsJoin DEF ToCdtMapOp

LEMMA ToCdtHLLOpReads == ReadsExactly(ToCdtHLLOp)
<1>1. ReadsExactly(Reads({"HLLInit"}, <<I("index_bit_count"), I("min_hash_bit_count")>>))
  BY ReadsTable DEF Params
<1>2. ReadsExactly(Reads({"HLLAdd"}, <<L("list"), I("index_bit_count"), I("min_hash_bit_count")>>))
  BY ReadsTable DEF Params
<1>3. ReadsExactly(Reads({"HLLFold"}, <<I("index_bit_count")>>))
  BY ReadsTable DEF Params
<1>4. ReadsExactly(Reads({"HLLRefreshCount", "HLLGetCount", "HLLDescribe"}, << >>))
  BY ReadsTable DEF Params
<1>5. ReadsExactly(Reads({"HLLSetUnion", "HLLGetUnion", "HLLGetUnionCount", "HLLGetIntersectCount",
       "HLLGetSimilarity"}, <<L("list")>>))
  BY ReadsTable DEF Params
<1> QED BY <1>1, <1>2, <1>3, <1>4, <1>5, ReadsJoin DEF ToCdtHLLOp

LEMMA ToCdtBitwiseOpReads == ReadsExactly(ToCdtBitwiseOp)
<1>1. ReadsExactly(Reads({"BitResize"}, <<I("byte_size"), I("resize_flags")>>))
  BY ReadsTable DEF Params
<1>2. ReadsExactly(Reads({"BitInsert"}, <<I("byte_offset"), Blob("value")>>))
  BY ReadsTable DEF Params
<1>3. ReadsExactly(Reads({"BitRemove"}, <<I("byte_offset"), I("byte_size")>>))
  BY ReadsTable DEF Params
<1>4. ReadsExactly(Reads({"BitSet", "BitOr", "BitXor", "BitAnd"}, <<I("bit_offset"), I("bit_size"),
       Blob("value")>>))
  BY ReadsTable DEF Params
<1>5. ReadsExactly(Reads({"BitNot", "BitGet", "BitCount"}, <<I("bit_offset"), I("bit_size")>>))
  BY ReadsTable DEF Params
<1>6. ReadsExactly(Reads({"BitLShift", "BitRShift"}, <<I("bit_offset"), I("bit_size"), I("shift")>>))
  BY ReadsTable DEF Params
<1>7. ReadsExactly([c \in {"BitAdd", "BitSubtract"} |-> <<[at |-> 1, arg |-> I("bit_offset")], [at |-> 2, arg
       |-> I("bit_size")], [at |-> 3, arg |-> I("value")], [at |-> 4, arg |-> B("signed")], [at |-> 4, arg |->
       I("action")]>>])
  BY DEF ReadsExactly, Exact
<1>8. ReadsExactly(Reads({"BitSetInt"}, <<I("bit_offset"), I("bit_size"), I("value")>>))
  BY ReadsTable DEF Params
<1>9. ReadsExactly(Reads({"BitLScan", "BitRScan"}, <<I("bit_offset"), I("bit_size"), B("value")>>))
  BY ReadsTable DEF Params
<1>10. ReadsExactly(Reads({"BitGetInt"}, <<I("bit_offset"), I("bit_size"), B("signed")>>))
  BY ReadsTable DEF Params
<1> QED BY <1>1, <1>2, <1>3, <1>4, <1>5, <1>6, <1>7, <1>8, <1>9, <1>10, ReadsJoin DEF ToCdtBitwiseOp

\* The connection manager reads every operation exactly, and knows by its kind which
\* function to use.
LEMMA ServerReads == ReadsExactly(Server)
  BY ToStdOpReads, ToCdtListOpReads, ToCdtMapOpReads, ToCdtHLLOpReads, ToCdtBitwiseOpReads, ReadsJoin DEF Server

LEMMA HandlerTables ==
    /\ DOMAIN ToStdOp \subseteq DOMAIN Server /\ DOMAIN ToCdtListOp \subseteq DOMAIN Server
    /\ DOMAIN ToCdtMapOp \subseteq DOMAIN Server /\ DOMAIN ToCdtHLLOp \subseteq DOMAIN Server
    /\ DOMAIN ToCdtBitwiseOp \subseteq DOMAIN Server
  BY DEF Server, Join

\* The codes that each function of kvs.go knows.
LEMMA PlainCodes ==
    {"Get", "GetHeader", "Touch", "Delete", "Put", "Append", "Prepend", "Add"} \subseteq DOMAIN ToStdOp
  BY DEF ToStdOp, Join, Reads

LEMMA ListCodes ==
    {"ListCreate", "ListSetOrder", "ListAppend", "ListGetByValueList", "ListRemoveByValueList", "ListInsert",
    "ListPop", "ListPopRangeFrom", "ListRemoveRangeFrom", "ListGetByIndex", "ListGetByIndexRange",
    "ListRemoveByIndex", "ListRemoveByIndexRange", "ListPopRange", "ListTrim", "ListRemoveRange",
    "ListGetByIndexRangeCount", "ListRemoveByIndexRangeCount", "ListSet", "ListIncrement", "ListClear",
    "ListSize", "ListSort", "ListGetByValueRange", "ListRemoveByValueRange", "ListGetByRank",
    "ListGetByRankRange", "ListRemoveByRank", "ListRemoveByRankRange", "ListGetByRankRangeCount",
    "ListRemoveByRankRangeCount", "ListGetByValueRelativeRankRange", "ListRemoveByValueRelativeRankRange",
    "ListGetByValueRelativeRankRangeCount", "ListRemoveByValueRelativeRankRangeCount"} \subseteq DOMAIN
    ToCdtListOp
  BY DEF ToCdtListOp, Join, Reads

LEMMA MapCodes ==
    {"MapCreate", "MapSetPolicy", "MapClear", "MapSize", "MapPutItems", "MapIncrement", "MapDecrement",
    "MapRemoveByKeyList", "MapGetByKeyList", "MapRemoveByValueList", "MapGetByValueList",
    "MapRemoveByKeyRange", "MapRemoveByValueRange", "MapGetByKeyRange", "MapGetByValueRange",
    "MapRemoveByValueRelativeRankRange", "MapGetByValueRelativeRankRange",
    "MapRemoveByValueRelativeRankRangeCount", "MapGetByValueRelativeRankRangeCount", "MapRemoveByIndex",
    "MapRemoveByIndexRange", "MapGetByIndex", "MapGetByIndexRange", "MapRemoveByIndexRangeCount",
    "MapGetByIndexRangeCount", "MapRemoveByRank", "MapRemoveByRankRange", "MapGetByRank", "MapGetByRankRange",
    "MapRemoveByRankRangeCount", "MapGetByRankRangeCount", "MapRemoveByKeyRelativeIndexRange",
    "MapGetByKeyRelativeIndexRange", "MapRemoveByKeyRelativeIndexRangeCount",
    "MapGetByKeyRelativeIndexRangeCount"} \subseteq DOMAIN ToCdtMapOp
  BY DEF ToCdtMapOp, Join, Reads

LEMMA HllCodes ==
    {"HLLInit", "HLLAdd", "HLLFold", "HLLRefreshCount", "HLLGetCount", "HLLDescribe", "HLLSetUnion",
    "HLLGetUnion", "HLLGetUnionCount", "HLLGetIntersectCount", "HLLGetSimilarity"} \subseteq DOMAIN ToCdtHLLOp
  BY DEF ToCdtHLLOp, Join, Reads

LEMMA BitCodes ==
    {"BitResize", "BitInsert", "BitRemove", "BitSet", "BitOr", "BitXor", "BitAnd", "BitNot", "BitGet",
    "BitCount", "BitLShift", "BitRShift", "BitAdd", "BitSubtract", "BitSetInt", "BitLScan", "BitRScan",
    "BitGetInt"} \subseteq DOMAIN ToCdtBitwiseOp
  BY DEF ToCdtBitwiseOp, Join, Reads

\* Parts that send as told make a table that does, and so does a table entry by entry.
LEMMA SendsJoin ==
    ASSUME NEW parts, \A i \in DOMAIN parts : SendsAsTold(parts[i])
    PROVE  SendsAsTold(Join(parts))
<1> SUFFICES ASSUME NEW m \in DOMAIN Join(parts)
             PROVE  IF m \in Misfits THEN Wrongly(m, Join(parts)[m]) ELSE Plainly(m, Join(parts)[m])
  BY DEF SendsAsTold
<1>1. PICK i \in DOMAIN parts : m \in DOMAIN parts[i] /\ Join(parts)[m] = parts[i][m]
  BY JoinEntries
<1> QED BY <1>1 DEF SendsAsTold

LEMMA SendsTable ==
    ASSUME NEW S, NEW args, \A m \in S : m \notin Misfits /\ Params(m) = args, S \subseteq DOMAIN Server
    PROVE  SendsAsTold(Sends(S, args))
  BY DEF SendsAsTold, Plainly, Sends

\* The classes of operations of lib.rs, group of methods by group of methods.
LEMMA ListCreationSends == SendsAsTold(ListCreation)
<1>1. SendsAsTold(Sends({"ListCreate"}, <<I("order"), B("pad"), B("index")>>))
  BY SendsTable, ListCodes, HandlerTables DEF Params, Misfits
<1>2. SendsAsTold(Sends({"ListSetOrder"}, <<I("order")>>))
  BY SendsTable, ListCodes, HandlerTables DEF Params, Misfits
<1>3. SendsAsTold(Sends({"ListAppend"}, <<L("values")>>))
  BY SendsTable, ListCodes, HandlerTables DEF Params, Misfits
<1>4. SendsAsTold(Sends({"ListInsert"}, <<I("index"), L("values")>>))
  BY SendsTable, ListCodes, HandlerTables DEF Params, Misfits
<1> QED BY <1>1, <1>2, <1>3, <1>4, SendsJoin DEF ListCreation

LEMMA ListPopSends == SendsAsTold(ListPop)
<1>1. SendsAsTold(Sends({"ListPop", "ListPopRangeFrom"}, <<I("index")>>))
  BY SendsTable, ListCodes, HandlerTables DEF Params, Misfits
<1>2. SendsAsTold(Sends({"ListPopRange"}, <<I("index"), I("count")>>))
  BY SendsTable, ListCodes, HandlerTables DEF Params, Misfits
<1> QED BY <1>1, <1>2, SendsJoin DEF ListPop

LEMMA ListRemoveByValueSends == SendsAsTold(ListRemoveByValue)
<1>1. SendsAsTold(Sends({"ListRemoveByValueList"}, <<L("values")>>))
  BY SendsTable, ListCodes, HandlerTables DEF Params, Misfits
<1>2. SendsAsTold(SendsAs("ListRemoveByValueRange", "ListRemoveByValueList", {"begin", "end"}, <<V("begin"),
       V("end")>>))
  BY DEF SendsAsTold, SendsAs, Entry, Wrongly, Misfits
<1>3. SendsAsTold(Sends({"ListRemoveByValueRelativeRankRange"}, <<V("value"), I("rank")>>))
  BY SendsTable, ListCodes, HandlerTables DEF Params, Misfits
<1>4. SendsAsTold(Sends({"ListRemoveByValueRelativeRankRangeCount"}, <<V("value"), I("rank"), I("count")>>))
  BY SendsTable, ListCodes, HandlerTables DEF Params, Misfits
<1> QED BY <1>1, <1>2, <1>3, <1>4, SendsJoin DEF ListRemoveByValue

LEMMA ListChangeSends == SendsAsTold(ListChange)
<1>1. SendsAsTold(Sends({"ListRemoveRange", "ListTrim"}, <<I("index"), I("count")>>))
  BY SendsTable, ListCodes, HandlerTables DEF Params, Misfits
<1>2. SendsAsTold(Sends({"ListRemoveRangeFrom"}, <<I("index")>>))
  BY SendsTable, ListCodes, HandlerTables DEF Params, Misfits
<1>3. SendsAsTold(Sends({"ListSet", "ListIncrement"}, <<I("index"), V("value")>>))
  BY SendsTable, ListCodes, HandlerTables DEF Params, Misfits
<1>4. SendsAsTold(Sends({"ListClear"}, << >>))
  BY SendsTable, ListCodes, HandlerTables DEF Params, Misfits
<1> QED BY <1>1, <1>2, <1>3, <1>4, SendsJoin DEF ListChange

LEMMA ListSizeSortSends == SendsAsTold(ListSizeSort)
<1>1. SendsAsTold(Sends({"ListSize"}, << >>))
  BY SendsTable, ListCodes, HandlerTables DEF Params, Misfits
<1>2. SendsAsTold(Sends({"ListSort"}, <<I("sort_flags")>>))
  BY SendsTable, ListCodes, HandlerTables DEF Params, Misfits
<1> QED BY <1>1, <1>2, SendsJoin DEF ListSizeSort

LEMMA ListRemoveBySends == SendsAsTold(ListRemoveBy)
<1>1. SendsAsTold(Sends({"ListRemoveByIndex", "ListRemoveByIndexRange"}, <<I("index")>>))
  BY SendsTable, ListCodes, HandlerTables DEF Params, Misfits
<1>2. SendsAsTold(Sends({"ListRemoveByIndexRangeCount"}, <<I("index"), I("count")>>))
  BY SendsTable, ListCodes, HandlerTables DEF Params, Misfits
<1>3. SendsAsTold(Sends({"ListRemoveByRank", "ListRemoveByRankRange"}, <<I("rank")>>))
  BY SendsTable, ListCodes, HandlerTables DEF Params, Misfits
<1>4. SendsAsTold(Sends({"ListRemoveByRankRangeCount"}, <<I("rank"), I("count")>>))
  BY SendsTable, ListCodes, HandlerTables DEF Params, Misfits
<1> QED BY <1>1, <1>2, <1>3, <1>4, SendsJoin DEF ListRemoveBy

LEMMA ListGetByIndexSends == SendsAsTold(ListGetByIndex)
<1>1. SendsAsTold(Sends({"ListGetByValueList"}, <<L("values")>>))
  BY SendsTable, ListCodes, HandlerTables DEF Params, Misfits
<1>2. SendsAsTold(Sends({"ListGetByValueRange"}, <<V("begin"), V("end")>>))
  BY SendsTable, ListCodes, HandlerTables DEF Params, Misfits
<1>3. SendsAsTold(SendsAs("ListGetByValueRangeOpen", "ListGetByValueRange", {"begin"}, <<V("begin")>>))
  BY DEF SendsAsTold, SendsAs, Entry, Wrongly, Misfits
<1>4. SendsAsTold(Sends({"ListGetByIndex", "ListGetByIndexRange"}, <<I("index")>>))
  BY SendsTable, ListCodes, HandlerTables DEF Params, Misfits
<1>5. SendsAsTold(Sends({"ListGetByIndexRangeCount"}, <<I("index"), I("count")>>))
  BY SendsTable, ListCodes, HandlerTables DEF Params, Misfits
<1> QED BY <1>1, <1>2, <1>3, <1>4, <1>5, SendsJoin DEF ListGetByIndex

LEMMA ListGetByRankSends == SendsAsTold(ListGetByRank)
<1>1. SendsAsTold(Sends({"ListGetByRank", "ListGetByRankRange"}, <<I("rank")>>))
  BY SendsTable, ListCodes, HandlerTables DEF Params, Misfits
<1>2. SendsAsTold(Sends({"ListGetByRankRangeCount"}, <<I("rank"), I("count")>>))
  BY SendsTable, ListCodes, HandlerTables DEF Params, Misfits
<1>3. SendsAsTold(Sends({"ListGetByValueRelativeRankRange"}, <<V("value"), I("rank")>>))
  BY SendsTable, ListCodes, HandlerTables DEF Params, Misfits
<1>4. SendsAsTold(Sends({"ListGetByValueRelativeRankRangeCount"}, <<V("value"), I("rank"), I("count")>>))
  BY SendsTable, ListCodes, HandlerTables DEF Params, Misfits
<1> QED BY <1>1, <1>2, <1>3, <1>4, SendsJoin DEF ListGetByRank

LEMMA MapCreationSends == SendsAsTold(MapCreation)
<1>1. SendsAsTold(SendsAs("MapCreate", "MapCreate", {"order"}, << >>))
  BY DEF SendsAsTold, SendsAs, Entry, Wrongly, Misfits
<1>2. SendsAsTold(Sends({"MapSetPolicy"}, << >>))
  BY SendsTable, MapCodes, HandlerTables DEF Params, Misfits
<1>3. SendsAsTold(SendsAs("MapSize", "MapSetPolicy", {}, << >>))
  BY DEF SendsAsTold, SendsAs, Entry, Wrongly, Misfits
<1> QED BY <1>1, <1>2, <1>3, SendsJoin DEF MapCreation

LEMMA MapChangeSends == SendsAsTold(MapChange)
<1>1. SendsAsTold(Sends({"MapClear"}, << >>))
  BY SendsTable, MapCodes, HandlerTables DEF Params, Misfits
<1>2. SendsAsTold(Sends({"MapPutItems"}, <<V("map")>>))
  BY SendsTable, MapCodes, HandlerTables DEF Params, Misfits
<1>3. SendsAsTold(Sends({"MapIncrement"}, <<V("key"), V("incr")>>))
  BY SendsTable, MapCodes, HandlerTables DEF Params, Misfits
<1>4. SendsAsTold(Sends({"MapDecrement"}, <<V("key"), V("decr")>>))
  BY SendsTable, MapCodes, HandlerTables DEF Params, Misfits
<1> QED BY <1>1, <1>2, <1>3, <1>4, SendsJoin DEF MapChange

LEMMA MapRemoveByKeySends == SendsAsTold(MapRemoveByKey)
<1>1. SendsAsTold(Sends({"MapRemoveByKeyList"}, <<L("keys")>>))
  BY SendsTable, MapCodes, HandlerTables DEF Params, Misfits
<1>2. SendsAsTold(Sends({"MapRemoveByKeyRange"}, <<V("begin"), V("end")>>))
  BY SendsTable, MapCodes, HandlerTables DEF Params, Misfits
<1> QED BY <1>1, <1>2, SendsJoin DEF MapRemoveByKey

LEMMA MapRemoveByValueSends == SendsAsTold(MapRemoveByValue)
<1>1. SendsAsTold(Sends({"MapRemoveByValueList"}, <<L("values")>>))
  BY SendsTable, MapCodes, HandlerTables DEF Params, Misfits
<1>2. SendsAsTold(Sends({"MapRemoveByValueRange"}, <<V("begin"), V("end")>>))
  BY SendsTable, MapCodes, HandlerTables DEF Params, Misfits
<1>3. SendsAsTold(Sends({"MapRemoveByValueRelativeRankRange"}, <<V("value"), I("rank")>>))
  BY SendsTable, MapCodes, HandlerTables DEF Params, Misfits
<1>4. SendsAsTold(SendsAs("MapRemoveByValueRelativeRankRangeCount", "MapRemoveByValueRelativeRankRange",
       {"value", "rank", "count"}, <<V("value"), I("rank"), I("count")>>))
  BY DEF SendsAsTold, SendsAs, Entry, Wrongly, Misfits
<1> QED BY <1>1, <1>2, <1>3, <1>4, SendsJoin DEF MapRemoveByValue

LEMMA MapRemoveByIndexSends == SendsAsTold(MapRemoveByIndex)
<1>1. SendsAsTold(Sends({"MapRemoveByIndex", "MapRemoveByIndexRange"}, <<I("index")>>))
  BY SendsTable, MapCodes, HandlerTables DEF Params, Misfits
<1>2. SendsAsTold(Sends({"MapRemoveByIndexRangeCount"}, <<I("index"), I("count")>>))
  BY SendsTable, MapCodes, HandlerTables DEF Params, Misfits
<1>3. SendsAsTold(Sends({"MapRemoveByRank", "MapRemoveByRankRange"}, <<I("rank")>>))
  BY SendsTable, MapCodes, HandlerTables DEF Params, Misfits
<1>4. SendsAsTold(Sends({"MapRemoveByRankRangeCount"}, <<I("rank"), I("count")>>))
  BY SendsTable, MapCodes, HandlerTables DEF Params, Misfits
<1> QED BY <1>1, <1>2, <1>3, <1>4, SendsJoin DEF MapRemoveByIndex

LEMMA MapByKeySends == SendsAsTold(MapByKey)
<1>1. SendsAsTold(Sends({"MapRemoveByKeyRelativeIndexRange"}, <<V("key"), I("index")>>))
  BY SendsTable, MapCodes, HandlerTables DEF Params, Misfits
<1>2. SendsAsTold(Sends({"MapRemoveByKeyRelativeIndexRangeCount"}, <<V("key"), I("index"), I("count")>>))
  BY SendsTable, MapCodes, HandlerTables DEF Params, Misfits
<1>3. SendsAsTold(Sends({"MapGetByKeyList"}, <<L("keys")>>))
  BY SendsTable, MapCodes, HandlerTables DEF Params, Misfits
<1>4. SendsAsTold(Sends({"MapGetByKeyRange"}, <<V("begin"), V("end")>>))
  BY SendsTable, MapCodes, HandlerTables DEF Params, Misfits
<1> QED BY <1>1, <1>2, <1>3, <1>4, SendsJoin DEF MapByKey

LEMMA MapGetByKeySends == SendsAsTold(MapGetByKey)
<1>1. SendsAsTold(Sends({"MapGetByKeyRelativeIndexRange"}, <<V("key"), I("index")>>))
  BY SendsTable, MapCodes, HandlerTables DEF Params, Misfits
<1>2. SendsAsTold(Sends({"MapGetByKeyRelativeIndexRangeCount"}, <<V("key"), I("index"), I("count")>>))
  BY SendsTable, MapCodes, HandlerTables DEF Params, Misfits
<1>3. SendsAsTold(Sends({"MapGetByValueList"}, <<L("values")>>))
  BY SendsTable, MapCodes, HandlerTables DEF Params, Misfits
<1>4. SendsAsTold(Sends({"MapGetByValueRange"}, <<V("begin"), V("end")>>))
  BY SendsTable, MapCodes, HandlerTables DEF Params, Misfits
<1> QED BY <1>1, <1>2, <1>3, <1>4, SendsJoin DEF MapGetByKey

LEMMA MapGetByValueSends == SendsAsTold(MapGetByValue)
<1>1. SendsAsTold(Sends({"MapGetByValueRelativeRankRange"}, <<V("value"), I("rank")>>))
  BY SendsTable, MapCodes, HandlerTables DEF Params, Misfits
<1>2. SendsAsTold(Sends({"MapGetByValueRelativeRankRangeCount"}, <<V("value"), I("rank"), I("count")>>))
  BY SendsTable, MapCodes, HandlerTables DEF Params, Misfits
<1>3. SendsAsTold(Sends({"MapGetByIndex"}, <<I("index")>>))
  BY SendsTable, MapCodes, HandlerTables DEF Params, Misfits
<1> QED BY <1>1, <1>2, <1>3, SendsJoin DEF MapGetByValue

LEMMA MapGetRangeSends == SendsAsTold(MapGetRange)
<1>1. SendsAsTold(Sends({"MapGetByIndexRange", "MapGetByRankRange"}, <<V("begin"), V("end")>>))
  BY DEF SendsAsTold, Sends, Wrongly, Misfits, I, B, V
<1>2. SendsAsTold(Sends({"MapGetByIndexRangeCount"}, <<I("index"), I("rank"), I("count")>>))
  BY DEF SendsAsTold, Sends, Wrongly, Misfits, I, B, V
<1>3. SendsAsTold(Sends({"MapGetByRank"}, <<I("rank")>>))
  BY SendsTable, MapCodes, HandlerTables DEF Params, Misfits
<1>4. SendsAsTold(Sends({"MapGetByRankRangeCount"}, <<I("rank"), I("range"), I("count")>>))
  BY DEF SendsAsTold, Sends, Wrongly, Misfits, I, B, V
<1> QED BY <1>1, <1>2, <1>3, <1>4, SendsJoin DEF MapGetRange

LEMMA HllWritesSends == SendsAsTold(HllWrites)
<1>1. SendsAsTold(Sends({"HLLInit"}, <<I("index_bit_count"), I("min_hash_bit_count")>>))
  BY SendsTable, HllCodes, HandlerTables DEF Params, Misfits
<1>2. SendsAsTold(Sends({"HLLAdd"}, <<L("list"), I("index_bit_count"), I("min_hash_bit_count")>>))
  BY SendsTable, HllCodes, HandlerTables DEF Params, Misfits
<1>3. SendsAsTold(Sends({"HLLSetUnion"}, <<L("list")>>))
  BY SendsTable, HllCodes, HandlerTables DEF Params, Misfits
<1>4. SendsAsTold(Sends({"HLLRefreshCount"}, << >>))
  BY SendsTable, HllCodes, HandlerTables DEF Params, Misfits
<1>5. SendsAsTold(Sends({"HLLFold"}, <<I("index_bit_count")>>))
  BY SendsTable, HllCodes, HandlerTables DEF Params, Misfits
<1> QED BY <1>1, <1>2, <1>3, <1>4, <1>5, SendsJoin DEF HllWrites

LEMMA HllReadsSends == SendsAsTold(HllReads)
<1>1. SendsAsTold(Sends({"HLLGetCount", "HLLDescribe"}, << >>))
  BY SendsTable, HllCodes, HandlerTables DEF Params, Misfits
<1>2. SendsAsTold(Sends({"HLLGetUnion", "HLLGetUnionCount", "HLLGetIntersectCount", "HLLGetSimilarity"},
       <<L("list")>>))
  BY SendsTable, HllCodes, HandlerTables DEF Params, Misfits
<1> QED BY <1>1, <1>2, SendsJoin DEF HllReads

LEMMA BitBytesSends == SendsAsTold(BitBytes)
<1>1. SendsAsTold(Sends({"BitResize"}, <<I("byte_size"), I("resize_flags")>>))
  BY SendsTable, BitCodes, HandlerTables DEF Params, Misfits
<1>2. SendsAsTold(Sends({"BitInsert"}, <<I("byte_offset"), Blob("value")>>))
  BY SendsTable, BitCodes, HandlerTables DEF Params, Misfits
<1>3. SendsAsTold(Sends({"BitRemove"}, <<I("byte_offset"), I("byte_size")>>))
  BY SendsTable, BitCodes, HandlerTables DEF Params, Misfits
<1>4. SendsAsTold(Sends({"BitSet"}, <<I("bit_offset"), I("bit_size"), Blob("value")>>))
  BY SendsTable, BitCodes, HandlerTables DEF Params, Misfits
<1> QED BY <1>1, <1>2, <1>3, <1>4, SendsJoin DEF BitBytes

LEMMA BitLogicSends == SendsAsTold(BitLogic)
<1>1. SendsAsTold(Sends({"BitOr", "BitXor", "BitAnd"}, <<I("bit_offset"), I("bit_size"), Blob("value")>>))
  BY SendsTable, BitCodes, HandlerTables DEF Params, Misfits
<1>2. SendsAsTold(Sends({"BitNot"}, <<I("bit_offset"), I("bit_size")>>))
  BY SendsTable, BitCodes, HandlerTables DEF Params, Misfits
<1> QED BY <1>1, <1>2, SendsJoin DEF BitLogic

LEMMA BitArithmeticSends == SendsAsTold(BitArithmetic)
<1>1. SendsAsTold(Sends({"BitLShift", "BitRShift"}, <<I("bit_offset"), I("bit_size"), I("shift")>>))
  BY SendsTable, BitCodes, HandlerTables DEF Params, Misfits
<1>2. SendsAsTold(Sends({"BitAdd", "BitSubtract"}, <<I("bit_offset"), I("bit_size"), I("value"), B("signed"),
       I("action")>>))
  BY DEF SendsAsTold, Sends, Wrongly, Misfits, I, B, V
<1> QED BY <1>1, <1>2, SendsJoin DEF BitArithmetic

LEMMA BitSetIntSends == SendsAsTold(BitSetInt)
<1>1. SendsAsTold(Sends({"BitSetInt"}, <<I("bit_offset"), I("bit_size"), I("value")>>))
  BY SendsTable, BitCodes, HandlerTables DEF Params, Misfits
<1> QED BY <1>1 DEF BitSetInt

LEMMA BitReadsSends == SendsAsTold(BitReads)
<1>1. SendsAsTold(Sends({"BitGet", "BitCount"}, <<I("bit_offset"), I("bit_size")>>))
  BY SendsTable, BitCodes, HandlerTables DEF Params, Misfits
<1>2. SendsAsTold(Sends({"BitLScan", "BitRScan"}, <<I("bit_offset"), I("bit_size"), B("value")>>))
  BY SendsTable, BitCodes, HandlerTables DEF Params, Misfits
<1>3. SendsAsTold(Sends({"BitGetInt"}, <<I("bit_offset"), I("bit_size"), B("signed")>>))
  BY SendsTable, BitCodes, HandlerTables DEF Params, Misfits
<1> QED BY <1>1, <1>2, <1>3, SendsJoin DEF BitReads

LEMMA StdMethodsSends == SendsAsTold(StdMethods)
<1>1. SendsAsTold(Sends({"Get", "GetHeader", "Touch", "Delete"}, << >>))
  BY SendsTable, PlainCodes, HandlerTables DEF Params, Misfits
<1>2. SendsAsTold(Sends({"Put", "Append", "Prepend", "Add"}, <<V("bin_value")>>))
  BY SendsTable, PlainCodes, HandlerTables DEF Params, Misfits
<1> QED BY <1>1, <1>2, SendsJoin DEF StdMethods

\* Every method of lib.rs sends its own code and parameters, or is a misfit.
LEMMA ClientSends == SendsAsTold(Client)
  BY ListCreationSends, ListPopSends, ListRemoveByValueSends, ListChangeSends, ListSizeSortSends,
    ListRemoveBySends, ListGetByIndexSends, ListGetByRankSends, MapCreationSends, MapChangeSends,
    MapRemoveByKeySends, MapRemoveByValueSends, MapRemoveByIndexSends, MapByKeySends, MapGetByKeySends,
    MapGetByValueSends, MapGetRangeSends, HllWritesSends, HllReadsSends, BitBytesSends, BitLogicSends,
    BitArithmeticSends, BitSetIntSends, BitReadsSends, StdMethodsSends, SendsJoin DEF Client

\* The parameters are numbered from 1.
LEMMA ParamsAreSequences == ASSUME NEW c PROVE IsSequence(Params(c))
<1>1. IsSequence(<< >>)
  BY DEF IsSequence
<1>2. \A x : IsSequence(<<x>>)
  BY DEF IsSequence
<1>3. \A x, y : IsSequence(<<x, y>>)
  BY DEF IsSequence
<1>4. \A x, y, z : IsSequence(<<x, y, z>>)
  BY DEF IsSequence
<1> QED BY <1>1, <1>2, <1>3, <1>4 DEF Params

ListReturningNames ==
    {"ListRemoveByValueList", "ListRemoveByValueRange", "ListRemoveByValueRelativeRankRange",
     "ListRemoveByValueRelativeRankRangeCount", "ListRemoveByIndex", "ListRemoveByIndexRange",
     "ListRemoveByIndexRangeCount", "ListRemoveByRank", "ListRemoveByRankRange", "ListRemoveByRankRangeCount",
     "ListGetByValueList", "ListGetByValueRange", "ListGetByValueRangeOpen", "ListGetByIndex",
     "ListGetByIndexRange", "ListGetByIndexRangeCount", "ListGetByRank", "ListGetByRankRange",
     "ListGetByRankRangeCount", "ListGetByValueRelativeRankRange", "ListGetByValueRelativeRankRangeCount"}

\* The methods with a return type, by name.
LEMMA ListsReturn == ListReturning = ListReturningNames
<1>1. DOMAIN ListRemoveByValue = {"ListRemoveByValueList", "ListRemoveByValueRange",
       "ListRemoveByValueRelativeRankRange", "ListRemoveByValueRelativeRankRangeCount"}
  BY DEF ListRemoveByValue, Join, Sends, SendsAs, Entry
<1>2. DOMAIN ListRemoveBy = {"ListRemoveByIndex", "ListRemoveByIndexRange", "ListRemoveByIndexRangeCount",
       "ListRemoveByRank", "ListRemoveByRankRange", "ListRemoveByRankRangeCount"}
  BY DEF ListRemoveBy, Join, Sends
<1>3. DOMAIN ListGetByIndex = {"ListGetByValueList", "ListGetByValueRange", "ListGetByValueRangeOpen",
       "ListGetByIndex", "ListGetByIndexRange", "ListGetByIndexRangeCount"}
  BY DEF ListGetByIndex, Join, Sends, SendsAs, Entry
<1>4. DOMAIN ListGetByRank = {"ListGetByRank", "ListGetByRankRange", "ListGetByRankRangeCount",
       "ListGetByValueRelativeRankRange", "ListGetByValueRelativeRankRangeCount"}
  BY DEF ListGetByRank, Join, Sends
<1>5. ListReturning = DOMAIN ListRemoveByValue \cup DOMAIN ListRemoveBy \cup DOMAIN ListGetByIndex \cup
       DOMAIN ListGetByRank
  BY DEF ListReturning, Join
<1> QED BY <1>1, <1>2, <1>3, <1>4, <1>5 DEF ListReturningNames

MapReturningNames ==
    {"MapRemoveByKeyList", "MapRemoveByKeyRange", "MapRemoveByValueList", "MapRemoveByValueRange",
     "MapRemoveByValueRelativeRankRange", "MapRemoveByValueRelativeRankRangeCount", "MapRemoveByIndex",
     "MapRemoveByIndexRange", "MapRemoveByIndexRangeCount", "MapRemoveByRank", "MapRemoveByRankRange",
     "MapRemoveByRankRangeCount", "MapRemoveByKeyRelativeIndexRange", "MapRemoveByKeyRelativeIndexRangeCount",
     "MapGetByKeyList", "MapGetByKeyRange", "MapGetByKeyRelativeIndexRange",
     "MapGetByKeyRelativeIndexRangeCount", "MapGetByValueList", "MapGetByValueRange",
     "MapGetByValueRelativeRankRange", "MapGetByValueRelativeRankRangeCount", "MapGetByIndex",
     "MapGetByIndexRange", "MapGetByRankRange", "MapGetByIndexRangeCount", "MapGetByRank",
     "MapGetByRankRangeCount"}

LEMMA MapsReturn == MapReturning = MapReturningNames
<1>1. DOMAIN MapRemoveByKey = {"MapRemoveByKeyList", "MapRemoveByKeyRange"}
  BY DEF MapRemoveByKey, Join, Sends
<1>2. DOMAIN MapRemoveByValue = {"MapRemoveByValueList", "MapRemoveByValueRange",
       "MapRemoveByValueRelativeRankRange", "MapRemoveByValueRelativeRankRangeCount"}
  BY DEF MapRemoveByValue, Join, Sends, SendsAs, Entry
<1>3. DOMAIN MapRemoveByIndex = {"MapRemoveByIndex", "MapRemoveByIndexRange", "MapRemoveByIndexRangeCount",
       "MapRemoveByRank", "MapRemoveByRankRange", "MapRemoveByRankRangeCount"}
  BY DEF MapRemoveByIndex, Join, Sends
<1>4. DOMAIN MapByKey = {"MapRemoveByKeyRelativeIndexRange", "MapRemoveByKeyRelativeIndexRangeCount",
       "MapGetByKeyList", "MapGetByKeyRange"}
  BY DEF MapByKey, Join, Sends
<1>5. DOMAIN MapGetByKey = {"MapGetByKeyRelativeIndexRange", "MapGetByKeyRelativeIndexRangeCount",
       "MapGetByValueList", "MapGetByValueRange"}
  BY DEF MapGetByKey, Join, Sends
<1>6. DOMAIN MapGetByValue = {"MapGetByValueRelativeRankRange", "MapGetByValueRelativeRankRangeCount",
       "MapGetByIndex"}
  BY DEF MapGetByValue, Join, Sends
<1>7. DOMAIN MapGetRange = {"MapGetByIndexRange", "MapGetByRankRange", "MapGetByIndexRangeCount",
       "MapGetByRank", "MapGetByRankRangeCount"}
  BY DEF MapGetRange, Join, Sends
<1>8. MapReturning = DOMAIN MapRemoveByKey \cup DOMAIN MapRemoveByValue \cup DOMAIN MapRemoveByIndex \cup
       DOMAIN MapByKey \cup DOMAIN MapGetByKey \cup DOMAIN MapGetByValue \cup DOMAIN MapGetRange
  BY DEF MapReturning, Join
<1> QED BY <1>1, <1>2, <1>3, <1>4, <1>5, <1>6, <1>7, <1>8 DEF MapReturningNames

LEMMA ReturningApart == ListReturning \cap MapReturning = {}
  BY ListsReturn, MapsReturn DEF ListReturningNames, MapReturningNames

\* A method that is no misfit: every argument arrives in its own parameter.
LEMMA PlainArguments ==
    ASSUME NEW op, op.method \in DOMAIN Client, op.method \notin Misfits,
           op.arg = "one" => op.method \in DOMAIN ForOne
    PROVE  /\ Encode(op).op = op.method
           /\ ~Panics(Encode(op))
           /\ ToOp(Encode(op)).given = Asked(op).given
           /\ ToOp(Encode(op)).name = Asked(op).name
<1> DEFINE m == op.method
           args == Params(m)
           msg == Encode(op)
<1>1. /\ Client[m].op = m /\ Client[m].args = args /\ m \in DOMAIN Server
      /\ Client[m].takes = {args[k].param : k \in DOMAIN args}
  BY ClientSends DEF SendsAsTold, Plainly
<1>2. Server[m] = [k \in DOMAIN args |-> [at |-> k, arg |-> args[k]]]
  BY <1>1, ServerReads DEF ReadsExactly, Exact, Misfits
<1>3. msg.op = m /\ msg.args = args /\ msg.one = (op.arg = "one")
  BY <1>1 DEF Encode
<1>4. DOMAIN args = 1 .. Len(args) /\ Len(args) \in Nat
  BY ParamsAreSequences DEF IsSequence
<1> HIDE DEF m, args, msg
<1>5. ~Panics(msg)
  BY <1>1, <1>2, <1>3, <1>4 DEF Panics
<1>6. \A k \in DOMAIN args : Got(msg, Server[m][k]) = args[k].param
  BY <1>2, <1>3 DEF Got
<1>7. ToOp(msg).given = {<<args[k].param, args[k].param>> : k \in DOMAIN args}
  BY <1>2, <1>3, <1>6 DEF ToOp
<1>8. Asked(op).given = {<<p, p>> : p \in {args[k].param : k \in DOMAIN args}}
  BY <1>1 DEF Asked, m
<1>9. /\ ToOp(msg).name = IF msg.one /\ msg.op \in DOMAIN ForOne THEN ForOne[msg.op] ELSE msg.op
      /\ Asked(op).name = IF op.arg = "one" THEN ForOne[m] ELSE m
  BY DEF ToOp, Asked, m
<1>10. ToOp(msg).name = Asked(op).name
  BY <1>3, <1>9 DEF m
<1> QED BY <1>3, <1>5, <1>7, <1>8, <1>10 DEF m, msg

\* The return type that arrives is the chosen one, but for an inverted one of a map.
LEMMA ReturnTypes ==
    ASSUME NEW op, IsOp(op), Encode(op).op = op.method
    PROVE  ToOp(Encode(op)).returns = Asked(op).returns
             <=> ~(op.method \in MapReturning /\ op.returns \in {Inverted(r) : r \in MapReturnTypes \ {0}})
<1> DEFINE msg == Encode(op)
           sent == ReturnType(op)
<1>1. msg.op = op.method /\ msg.returnType = sent
  BY DEF Encode
<1>2. /\ ToOp(msg).returns = IF op.method \in ListReturning \cup MapReturning THEN ToReturnType(msg) ELSE Default
      /\ Asked(op).returns = IF op.method \in ListReturning \cup MapReturning THEN sent ELSE Default
  BY <1>1 DEF ToOp, Asked
<1>3. CASE op.method \notin MapReturning
  BY <1>1, <1>2, <1>3 DEF ToReturnType
<1>4. CASE op.method \in MapReturning
  <2>1. op.returns = Default \/ op.returns \in OrInverted(MapReturnTypes)
    BY <1>4, ReturningApart DEF IsOp
  <2>2. sent = IF op.returns # Default THEN op.returns ELSE 8
    BY <1>4, ReturningApart DEF ReturnType
  <2>3. ToOp(msg).returns = IF sent \in MapReturnTypes \cup {65536} THEN sent ELSE 0
    BY <1>1, <1>2, <1>4 DEF ToReturnType, Inverted
  <2>4. \A r \in MapReturnTypes : r \in 0 .. 17 /\ Inverted(r) = r + 65536
    BY DEF MapReturnTypes, Inverted
  <2>5. 8 \in MapReturnTypes /\ 0 \in MapReturnTypes /\ Default = 99
    BY DEF MapReturnTypes, Default
  <2>6. Asked(op).returns = sent
    BY <1>2, <1>4
  <2> HIDE DEF msg, sent
  <2>7. CASE op.returns = Default
    <3>1. \A r \in MapReturnTypes : Inverted(r) # 99
      BY <2>4
    <3> QED BY <2>2, <2>3, <2>5, <2>6, <2>7, <3>1 DEF msg
  <2>8. CASE op.returns # Default /\ op.returns \in MapReturnTypes
    <3>1. \A r \in MapReturnTypes : Inverted(r) # op.returns
      BY <2>4, <2>8
    <3> QED BY <2>2, <2>3, <2>6, <2>8, <3>1 DEF msg
  <2>9. CASE op.returns # Default /\ op.returns \notin MapReturnTypes
    <3>1. PICK r \in MapReturnTypes : op.returns = Inverted(r)
      BY <2>1, <2>9 DEF OrInverted
    <3>2. r \in 0 .. 17 /\ op.returns = r + 65536
      BY <2>4, <3>1
    <3>3. CASE r = 0
      <4>1. \A q \in MapReturnTypes \ {0} : Inverted(q) # op.returns
        BY <2>4, <3>2, <3>3
      <4> QED BY <2>2, <2>3, <2>6, <2>9, <3>2, <3>3, <4>1 DEF msg
    <3>4. CASE r # 0
      <4>1. ToOp(msg).returns = 0
        BY <2>2, <2>3, <2>9, <3>2, <3>4
      <4>2. Asked(op).returns = r + 65536
        BY <2>2, <2>6, <2>9, <3>2
      <4>3. ToOp(msg).returns # Asked(op).returns
        BY <3>2, <4>1, <4>2
      <4>4. op.returns \in {Inverted(q) : q \in MapReturnTypes \ {0}}
        BY <3>1, <3>4
      <4> QED BY <1>4, <4>3, <4>4 DEF msg
    <3> QED BY <3>3, <3>4
  <2> QED BY <2>7, <2>8, <2>9 DEF msg
<1> QED BY <1>3, <1>4

\* A place arrives as it was chosen: its type and the flags are apart in the id.
LEMMA PlaceArrives ==
    ASSUME NEW ctx, IsPlace(ctx)
    PROVE  ToCdtContext(ContextId(ctx)) = [type |-> ContextType[ctx.type], create |-> CreateBits[ctx.create]]
<1>1. ctx.type \in {"ListIndex", "ListRank", "ListValue", "MapIndex", "MapRank", "MapKey", "MapValue"}
  BY DEF IsPlace, ContextType
<1>2. ContextType[ctx.type] \in {16, 17, 19, 32, 33, 34, 35}
  BY <1>1 DEF ContextType
<1>3. CreateFlag(ctx) = CreateBits[ctx.create] /\ CreateFlag(ctx) \in {0, 64, 128, 192}
  <2>1. CASE ctx.create = "no"
    BY <2>1 DEF CreateFlag, CreateBits
  <2>2. CASE ctx.type = "ListIndex" /\ ctx.create \in {"unordered", "padded", "ordered", "ordered_padded"}
    BY <2>2 DEF CreateFlag, CreateBits, ListOrderFlag
  <2>3. CASE ctx.type = "MapKey" /\ ctx.create \in DOMAIN MapOrderFlag
    BY <2>3 DEF CreateFlag, CreateBits, MapOrderFlag
  <2> QED BY <2>1, <2>2, <2>3 DEF IsPlace
<1>4. \A t \in {16, 17, 19, 32, 33, 34, 35}, f \in {0, 64, 128, 192} : (t + f) % 64 = t /\ (t + f) - t = f
  OBVIOUS
<1> QED BY <1>2, <1>3, <1>4 DEF ToCdtContext, ContextId

LEMMA PlacesArrive ==
    ASSUME NEW op, IsOp(op)
    PROVE  ToOp(Encode(op)).ctx = Asked(op).ctx
<1>1. Encode(op).ctx = [k \in DOMAIN op.ctx |-> ContextId(op.ctx[k])]
  BY DEF Encode
<1>2. ToOp(Encode(op)).ctx = [k \in DOMAIN op.ctx |-> ToCdtContext(ContextId(op.ctx[k]))]
  BY <1>1 DEF ToOp
<1>3. \A k \in DOMAIN op.ctx :
         ToCdtContext(ContextId(op.ctx[k])) = [type |-> ContextType[op.ctx[k].type], create |-> CreateBits[op.ctx[k].create]]
  BY PlaceArrives DEF IsOp
<1>4. Asked(op).ctx = [k \in DOMAIN op.ctx |->
                         [type |-> ContextType[op.ctx[k].type], create |-> CreateBits[op.ctx[k].create]]]
  BY DEF Asked
<1> QED BY <1>2, <1>3, <1>4

\* Flags are refused exactly if they are those of HyperLogLog.
LEMMA FlagsOfHll ==
    ASSUME NEW op, IsOp(op)
    PROVE  FlagsRefused(op) <=> op.flags # {} /\ op.of = "hll"
<1>1. KindOf(op.method) \in {"list", "map", "hll", "bit"}
  BY DEF KindOf
<1>2. \A k \in {"list", "map", "hll", "bit"} : FlagClass[k] = IF k = "hll" THEN "list" ELSE k
  BY DEF FlagClass
<1> QED BY <1>1, <1>2 DEF FlagsRefused, IsOp

\* A misfit panics in the handler or arrives as another operation.
LEMMA MisfitsGoWrong ==
    ASSUME NEW op, op.method \in DOMAIN Client, op.method \in Misfits, op.arg # "one"
    PROVE  Panics(Encode(op)) \/ ToOp(Encode(op)) # Asked(op)
<1> DEFINE m == op.method
           e == Client[m]
           msg == Encode(op)
<1>1. Wrongly(m, e)
  BY ClientSends DEF SendsAsTold
<1>2. msg.op = e.op /\ msg.args = e.args /\ msg.one = FALSE
  BY DEF Encode
<1>3. ToOp(msg).name = msg.op /\ Asked(op).name = m /\ Asked(op).given = {<<p, p>> : p \in e.takes}
  BY <1>2 DEF ToOp, Asked
<1>4. m \in DOMAIN Server => Exact(m, Server[m])
  BY ServerReads DEF ReadsExactly
<1> HIDE DEF m, e, msg
<1>5. CASE e.op # m
  BY <1>2, <1>3, <1>5 DEF msg
<1>6. CASE m \notin DOMAIN Server /\ e.op = m
  BY <1>2, <1>6 DEF Panics, msg
<1>7. CASE m = "MapCreate" /\ e.args = << >> /\ e.op = m /\ m \in DOMAIN Server
  <2>1. Params(m) = <<I("order")>>
    BY <1>7 DEF Params
  <2>2. 1 \in DOMAIN Server[m] /\ Server[m][1].at = 1
    BY <1>4, <1>7, <2>1 DEF Exact
  <2>3. Len(msg.args) = 0
    BY <1>2, <1>7
  <2> QED BY <1>2, <1>7, <2>2, <2>3 DEF Panics, msg
<1>8. ASSUME NEW p \in e.takes, e.op = m, m \in DOMAIN Server, m \notin {"BitAdd", "BitSubtract"},
             \A k \in DOMAIN Params(m) : Params(m)[k].param # p
      PROVE  ToOp(msg).given # Asked(op).given
  <2>1. Server[m] = [k \in DOMAIN Params(m) |-> [at |-> k, arg |-> Params(m)[k]]]
    BY <1>4, <1>8 DEF Exact
  <2>2. ToOp(msg).given = {<<r.arg.param, Got(msg, r)>> : r \in {Server[m][k] : k \in DOMAIN Server[m]}}
    BY <1>2, <1>8 DEF ToOp
  <2>3. \A x \in ToOp(msg).given : x[1] # p
    BY <1>8, <2>1, <2>2
  <2>4. <<p, p>> \in Asked(op).given
    BY <1>3
  <2> QED BY <2>3, <2>4
<1>9. CASE m \in {"MapGetByIndexRange", "MapGetByRankRange"} /\ "begin" \in e.takes /\ e.op = m /\ m \in DOMAIN Server
  <2>1. \A k \in DOMAIN Params(m) : Params(m)[k].param # "begin"
    BY <1>9 DEF Params, I
  <2> QED BY <1>8, <1>9, <2>1 DEF msg
<1>10. CASE m = "MapGetByIndexRangeCount" /\ "rank" \in e.takes /\ e.op = m /\ m \in DOMAIN Server
  <2>1. \A k \in DOMAIN Params(m) : Params(m)[k].param # "rank"
    BY <1>10 DEF Params, I
  <2> QED BY <1>8, <1>10, <2>1 DEF msg
<1>11. CASE m = "MapGetByRankRangeCount" /\ "range" \in e.takes /\ e.op = m /\ m \in DOMAIN Server
  <2>1. \A k \in DOMAIN Params(m) : Params(m)[k].param # "range"
    BY <1>11 DEF Params, I
  <2> QED BY <1>8, <1>11, <2>1 DEF msg
<1>12. CASE /\ m \in {"BitAdd", "BitSubtract"} /\ e.op = m /\ m \in DOMAIN Server
            /\ e.args = <<I("bit_offset"), I("bit_size"), I("value"), B("signed"), I("action")>>
  <2>1. 5 \in DOMAIN Server[m] /\ Server[m][5] = [at |-> 4, arg |-> I("action")]
    BY <1>4, <1>12 DEF Exact
  <2>2. Got(msg, Server[m][5]) = "zero" /\ Server[m][5].arg.param = "action"
    BY <1>2, <1>12, <2>1 DEF Got, I, B
  <2>3. <<"action", "zero">> \in ToOp(msg).given
    BY <1>2, <1>12, <2>1, <2>2 DEF ToOp
  <2>4. <<"action", "zero">> \notin Asked(op).given
    BY <1>3
  <2> QED BY <2>3, <2>4 DEF msg
<1> QED BY <1>1, <1>5, <1>6, <1>7, <1>9, <1>10, <1>11, <1>12 DEF Wrongly

\* The conversion of one operation: it is refused or panics through a misfit only, and
\* otherwise arrives as it was asked exactly if it is none.
LEMMA OpFits ==
    ASSUME NEW op, IsOp(op)
    PROVE  /\ OpRefused(op) => MisfitOp(op)
           /\ Panics(Encode(op)) => MisfitOp(op)
           /\ ~OpRefused(op) /\ ~Panics(Encode(op)) => (ToOp(Encode(op)) = Asked(op) <=> ~MisfitOp(op))
<1>1. op.method \in DOMAIN Client
  BY DEF IsOp
<1>2. OpRefused(op) => MisfitOp(op)
  BY FlagsOfHll DEF MisfitOp, OpRefused, ArgRefused
<1>3. CASE op.method \in Misfits
  <2>1. op.arg # "one"
    BY <1>3 DEF IsOp, ForOne, Misfits
  <2> QED BY <1>1, <1>2, <1>3, <2>1, MisfitsGoWrong DEF MisfitOp
<1>4. CASE op.method \notin Misfits
  <2> DEFINE msg == Encode(op)
  <2>1. /\ msg.op = op.method /\ ~Panics(msg) /\ ToOp(msg).given = Asked(op).given
        /\ ToOp(msg).name = Asked(op).name
    <3>1. op.arg = "one" => op.method \in DOMAIN ForOne
      BY DEF IsOp
    <3> QED BY <1>1, <1>4, <3>1, PlainArguments
  <2>2. ToOp(msg).ctx = Asked(op).ctx
    BY PlacesArrive
  <2>3. ToOp(msg).flags = Asked(op).flags
    BY DEF ToOp, Encode, Asked
  <2>4. ToOp(msg).returns = Asked(op).returns
          <=> ~(op.method \in MapReturning /\ op.returns \in {Inverted(r) : r \in MapReturnTypes \ {0}})
    BY <2>1, ReturnTypes
  <2>5. /\ ToOp(msg) = [name |-> ToOp(msg).name, given |-> ToOp(msg).given, returns |-> ToOp(msg).returns,
                        ctx |-> ToOp(msg).ctx, flags |-> ToOp(msg).flags]
        /\ Asked(op) = [name |-> Asked(op).name, given |-> Asked(op).given, returns |-> Asked(op).returns,
                        ctx |-> Asked(op).ctx, flags |-> Asked(op).flags]
    BY DEF ToOp, Asked
  <2> HIDE DEF msg
  <2>6. ToOp(msg) = Asked(op) <=> ToOp(msg).returns = Asked(op).returns
    BY <2>1, <2>2, <2>3, <2>5
  <2>7. ~OpRefused(op) => ~(op.flags # {} /\ op.of = "hll") /\ op.arg # "unfit"
    BY FlagsOfHll DEF OpRefused, ArgRefused
  <2> QED BY <1>2, <1>4, <2>1, <2>4, <2>6, <2>7 DEF MisfitOp, msg
<1> QED BY <1>3, <1>4

(* ------------------------------ expressions -------------------------------- *)

\* The parameters a method of Expression fills.
ExpTaken(e) == ({e.val.param, e.bin, e.flags} \cup {e.exps[k] : k \in DOMAIN e.exps}) \ {Absent}

\* An expression arrives as the constructor of its method, with every argument in its
\* own parameter; a constant has no expression inside it.
ExpArrives(n, e) == ToExpression(e) = [name |-> n, given |-> {<<p, p>> : p \in ExpTaken(e)}]

ExpFits(n, e) ==
    /\ ~ExpPanics(e) /\ ExpArrives(n, e)
    /\ e.cmd = Absent => e.exps = << >> /\ e.bin = Absent

ArriveAsTold(f) ==
    \A n \in DOMAIN f : IF n \in ExpMisfits THEN ExpPanics(f[n]) \/ ~ExpArrives(n, f[n]) ELSE ExpFits(n, f[n])

LEMMA ExpJoin ==
    ASSUME NEW parts, \A i \in DOMAIN parts : ArriveAsTold(parts[i])
    PROVE  ArriveAsTold(Join(parts))
<1> SUFFICES ASSUME NEW n \in DOMAIN Join(parts)
             PROVE  IF n \in ExpMisfits THEN ExpPanics(Join(parts)[n]) \/ ~ExpArrives(n, Join(parts)[n])
                    ELSE ExpFits(n, Join(parts)[n])
  BY DEF ArriveAsTold
<1>1. PICK i \in DOMAIN parts : n \in DOMAIN parts[i] /\ Join(parts)[n] = parts[i][n]
  BY JoinEntries
<1> QED BY <1>1 DEF ArriveAsTold

\* The expressions that the constructors read.
ExpParams(c) ==
    IF c \in {"Eq", "NotEq", "Greater", "GreaterEq", "Less", "LessEq", "GeoCompare"}
    THEN <<"left", "right">>
    ELSE IF c \in {"Not", "IntNot", "IntCount"}
    THEN <<"exp">>
    ELSE IF c \in {"NumAbs", "NumCeil", "ToInt", "ToFloat"}
    THEN <<"num">>
    ELSE IF c \in {"And", "Or", "Cond", "Let", "Exclusive", "NumAdd", "NumSub", "NumMul", "NumDiv", "Min", "Max",
        "IntAnd", "IntOr", "IntXor"}
    THEN <<"exps">>
    ELSE IF c \in {"NumPow"}
    THEN <<"base", "exponent">>
    ELSE IF c \in {"NumLog"}
    THEN <<"num", "base">>
    ELSE IF c \in {"NumMod"}
    THEN <<"numerator", "denominator">>
    ELSE IF c \in {"IntLShift", "IntRShift", "IntARShift"}
    THEN <<"value", "shift">>
    ELSE <<"value", "search">>

ExpCodes ==
    {"Eq", "NotEq", "Greater", "GreaterEq", "Less", "LessEq", "GeoCompare", "Not", "IntNot", "IntCount",
     "NumAbs", "NumCeil", "ToInt", "ToFloat", "And", "Or", "Cond", "Let", "Exclusive", "NumAdd", "NumSub",
     "NumMul", "NumDiv", "Min", "Max", "IntAnd", "IntOr", "IntXor", "NumPow", "NumLog", "NumMod", "IntLShift",
     "IntRShift", "IntARShift", "IntLScan", "IntRScan"}

ReadsExps(f) == \A c \in DOMAIN f : f[c] = ExpParams(c)

LEMMA ReadsExpsJoin ==
    ASSUME NEW parts, \A i \in DOMAIN parts : ReadsExps(parts[i])
    PROVE  ReadsExps(Join(parts))
<1> SUFFICES ASSUME NEW c \in DOMAIN Join(parts) PROVE Join(parts)[c] = ExpParams(c)
  BY DEF ReadsExps
<1>1. PICK i \in DOMAIN parts : c \in DOMAIN parts[i] /\ Join(parts)[c] = parts[i][c]
  BY JoinEntries
<1> QED BY <1>1 DEF ReadsExps

LEMMA ByExpsReads == ReadsExps(ByExps) /\ DOMAIN ByExps = ExpCodes
<1>1. ReadsExps(Entries({"Eq", "NotEq", "Greater", "GreaterEq", "Less", "LessEq", "GeoCompare"}, <<"left",
       "right">>))
  BY DEF ReadsExps, ExpParams, Entries
<1>2. ReadsExps(Entries({"Not", "IntNot", "IntCount"}, <<"exp">>))
  BY DEF ReadsExps, ExpParams, Entries
<1>3. ReadsExps(Entries({"NumAbs", "NumCeil", "ToInt", "ToFloat"}, <<"num">>))
  BY DEF ReadsExps, ExpParams, Entries
<1>4. ReadsExps(Entries({"And", "Or", "Cond", "Let", "Exclusive", "NumAdd", "NumSub", "NumMul", "NumDiv",
       "Min", "Max", "IntAnd", "IntOr", "IntXor"}, <<"exps">>))
  BY DEF ReadsExps, ExpParams, Entries
<1>5. ReadsExps(Entry("NumPow", <<"base", "exponent">>))
  BY DEF ReadsExps, ExpParams, Entry
<1>6. ReadsExps(Entry("NumLog", <<"num", "base">>))
  BY DEF ReadsExps, ExpParams, Entry
<1>7. ReadsExps(Entry("NumMod", <<"numerator", "denominator">>))
  BY DEF ReadsExps, ExpParams, Entry
<1>8. ReadsExps(Entries({"IntLShift", "IntRShift", "IntARShift"}, <<"value", "shift">>))
  BY DEF ReadsExps, ExpParams, Entries
<1>9. ReadsExps(Entries({"IntLScan", "IntRScan"}, <<"value", "search">>))
  BY DEF ReadsExps, ExpParams, Entries
<1>10. DOMAIN ByExps = ExpCodes
  BY DEF ByExps, Join, Entry, Entries, ExpCodes
<1> QED BY <1>1, <1>2, <1>3, <1>4, <1>5, <1>6, <1>7, <1>8, <1>9, <1>10, ReadsExpsJoin DEF ByExps

LEMMA ByValReads ==
    /\ DOMAIN ByVal = {"Key", "DigestModulo", "BinType", "Var"}
    /\ ByVal["Key"] = ExpVal("I", "exp_type") /\ ByVal["DigestModulo"] = ExpVal("I", "modulo")
    /\ ByVal["BinType"] = ExpVal("S", "name") /\ ByVal["Var"] = ExpVal("S", "name")
<1>1. DOMAIN ByVal = {"Key", "DigestModulo", "BinType", "Var"}
  BY DEF ByVal, Join, Entry
<1> DEFINE parts == <<Entry("Key", ExpVal("I", "exp_type")), Entry("DigestModulo", ExpVal("I", "modulo")),
                      Entry("BinType", ExpVal("S", "name")), Entry("Var", ExpVal("S", "name"))>>
<1>2. \A n \in DOMAIN ByVal : \E i \in DOMAIN parts : n \in DOMAIN parts[i] /\ ByVal[n] = parts[i][n]
  <2>1. ByVal = Join(parts)
    BY DEF ByVal
  <2> HIDE DEF parts
  <2> QED BY <2>1, JoinEntries
<1>3. \A n \in DOMAIN ByVal : \E i \in 1 .. 4 : n \in DOMAIN parts[i] /\ ByVal[n] = parts[i][n]
  BY <1>2
<1>4. /\ DOMAIN parts[1] = {"Key"} /\ DOMAIN parts[2] = {"DigestModulo"}
      /\ DOMAIN parts[3] = {"BinType"} /\ DOMAIN parts[4] = {"Var"}
      /\ parts[1]["Key"] = ExpVal("I", "exp_type") /\ parts[2]["DigestModulo"] = ExpVal("I", "modulo")
      /\ parts[3]["BinType"] = ExpVal("S", "name") /\ parts[4]["Var"] = ExpVal("S", "name")
  BY DEF Entry
<1> HIDE DEF parts
<1> QED BY <1>1, <1>3, <1>4

LEMMA ExpParamsSound ==
    \A c : IsSequence(ExpParams(c)) /\ \A k \in DOMAIN ExpParams(c) : ExpParams(c)[k] # Absent
<1> DEFINE Sound(s) == IsSequence(s) /\ \A k \in DOMAIN s : s[k] # Absent
<1>1. \A x : x # Absent => Sound(<<x>>)
  BY DEF IsSequence
<1>2. \A x, y : x # Absent /\ y # Absent => Sound(<<x, y>>)
  BY DEF IsSequence
<1> HIDE DEF Sound
<1>3. \A c : Sound(ExpParams(c))
  BY <1>1, <1>2 DEF ExpParams, Absent
<1> QED BY <1>3 DEF Sound

\* The expressions by shape: with others inside, with a value, with nothing, constants.
LEMMA OverFits ==
    ASSUME NEW n \in ExpCodes, NEW exps, exps = ExpParams(n)
    PROVE  ExpFits(n, Over(n, exps))
<1> DEFINE e == Over(n, exps)
<1>1. /\ e.cmd = n /\ e.exps = exps /\ e.val = NoVal /\ e.bin = Absent /\ e.flags = Absent
  BY DEF Over, NewExp
<1>2. n \notin {Absent, "Bin", "Regex"} \cup DOMAIN ByVal
  BY ByValReads DEF ExpCodes, Absent
<1>3. n \in DOMAIN ByExps /\ ByExps[n] = exps
  BY ByExpsReads DEF ReadsExps
<1>4. IsSequence(exps) /\ \A k \in DOMAIN exps : exps[k] # Absent
  BY ExpParamsSound
<1>5. NoVal.param = Absent
  BY DEF NoVal
<1> HIDE DEF e
<1>6. ~ExpPanics(e)
  BY <1>1, <1>2, <1>3, <1>4 DEF ExpPanics, IsSequence
<1>7. ToExpression(e) = [name |-> n, given |-> {<<exps[k], exps[k]>> : k \in DOMAIN exps}]
  BY <1>1, <1>2, <1>3 DEF ToExpression
<1>8. ExpTaken(e) = {exps[k] : k \in DOMAIN exps}
  BY <1>1, <1>4, <1>5 DEF ExpTaken
<1>9. {<<p, p>> : p \in ExpTaken(e)} = {<<exps[k], exps[k]>> : k \in DOMAIN exps}
  BY <1>8
<1> QED BY <1>1, <1>2, <1>6, <1>7, <1>9 DEF ExpFits, ExpArrives, e

LEMMA ValuedFits ==
    ASSUME NEW n \in DOMAIN ByVal
    PROVE  ExpFits(n, Valued(n, ByVal[n]))
<1> DEFINE e == Valued(n, ByVal[n])
<1>1. /\ e.cmd = n /\ e.exps = << >> /\ e.val = ByVal[n] /\ e.bin = Absent /\ e.flags = Absent
  BY DEF Valued, NewExp
<1>2. n \notin {Absent, "Bin", "Regex"} \cup DOMAIN ByExps
  BY ByValReads, ByExpsReads DEF ExpCodes, Absent
<1>3. ByVal[n].param # Absent
  BY ByValReads DEF ExpVal, Absent
<1> HIDE DEF e
<1>4. ~ExpPanics(e)
  BY <1>1, <1>2 DEF ExpPanics
<1>5. ToExpression(e) = [name |-> n, given |-> {<<ByVal[n].param, ByVal[n].param>>}]
  BY <1>1, <1>2 DEF ToExpression
<1>6. ExpTaken(e) = {ByVal[n].param}
  BY <1>1, <1>3 DEF ExpTaken
<1> QED BY <1>1, <1>2, <1>4, <1>5, <1>6 DEF ExpFits, ExpArrives, e

LEMMA NothingFits ==
    ASSUME NEW n \in ByNothing
    PROVE  ExpFits(n, Valued(n, NoVal))
<1> DEFINE e == Valued(n, NoVal)
<1>1. /\ e.cmd = n /\ e.exps = << >> /\ e.val = NoVal /\ e.bin = Absent /\ e.flags = Absent
  BY DEF Valued, NewExp
<1>2. n \notin {Absent, "Bin", "Regex"} \cup DOMAIN ByExps \cup DOMAIN ByVal
  BY ByValReads, ByExpsReads DEF ExpCodes, Absent, ByNothing
<1> HIDE DEF e
<1>3. ~ExpPanics(e)
  BY <1>1, <1>2 DEF ExpPanics
<1>4. ToExpression(e) = [name |-> n, given |-> {}]
  BY <1>1, <1>2 DEF ToExpression
<1>5. ExpTaken(e) = {}
  BY <1>1 DEF ExpTaken, NoVal
<1> QED BY <1>1, <1>2, <1>3, <1>4, <1>5 DEF ExpFits, ExpArrives, e

LEMMA ConstantFits ==
    ASSUME NEW kind \in DOMAIN ByKind, NEW param, param # Absent
    PROVE  ExpFits(ByKind[kind], Valued(Absent, ExpVal(kind, param)))
<1> DEFINE e == Valued(Absent, ExpVal(kind, param))
<1>1. /\ e.cmd = Absent /\ e.exps = << >> /\ e.val.kind = kind /\ e.val.param = param
      /\ e.bin = Absent /\ e.flags = Absent
  BY DEF Valued, NewExp, ExpVal
<1>2. Absent \notin {"Bin"} \cup DOMAIN ByExps \cup DOMAIN ByVal
  BY ByValReads, ByExpsReads DEF ExpCodes, Absent
<1> HIDE DEF e
<1>3. ~ExpPanics(e)
  BY <1>1, <1>2 DEF ExpPanics
<1>4. ToExpression(e) = [name |-> ByKind[kind], given |-> {<<param, param>>}]
  BY <1>1 DEF ToExpression
<1>5. ExpTaken(e) = {param}
  BY <1>1 DEF ExpTaken
<1> QED BY <1>1, <1>3, <1>4, <1>5 DEF ExpFits, ExpArrives, e

\* Groups of expressions that are alike, and single ones.
LEMMA OverEachFits ==
    ASSUME NEW S, S \subseteq ExpCodes, NEW exps, \A n \in S : n \notin ExpMisfits /\ ExpParams(n) = exps
    PROVE  ArriveAsTold(OverEach(S, exps))
  BY OverFits DEF ArriveAsTold, OverEach

LEMMA EntryFits ==
    ASSUME NEW n, NEW e, n \notin ExpMisfits, ExpFits(n, e)
    PROVE  ArriveAsTold(Entry(n, e))
  BY DEF ArriveAsTold, Entry

LEMMA CommandsApart ==
    /\ {"Bin", "Regex", "NumFloor"} \cap ({Absent} \cup DOMAIN ByExps \cup DOMAIN ByVal \cup ByNothing) = {}
    /\ "IntXor" \notin {Absent, "Bin", "Regex"} \cup DOMAIN ByVal
  BY ByExpsReads, ByValReads DEF ExpCodes, Absent, ByNothing

LEMMA BinFits ==
    \A n \in {"IntBin", "StringBin", "BlobBin", "FloatBin", "GeoBin", "ListBin", "MapBin", "HLLBin"} :
        LET e == NewExp("Bin", ExpVal("S", "name"), Absent, Absent, ExpType[n], << >>)
        IN IF n = "HLLBin" THEN ExpPanics(e) ELSE ExpFits(n, e)
<1> SUFFICES ASSUME NEW n \in {"IntBin", "StringBin", "BlobBin", "FloatBin", "GeoBin", "ListBin", "MapBin", "HLLBin"},
                    NEW e, e = NewExp("Bin", ExpVal("S", "name"), Absent, Absent, ExpType[n], << >>)
             PROVE  IF n = "HLLBin" THEN ExpPanics(e) ELSE ExpFits(n, e)
  OBVIOUS
<1>1. /\ e.cmd = "Bin" /\ e.exps = << >> /\ e.val.param = "name" /\ e.module = ExpType[n]
      /\ e.bin = Absent /\ e.flags = Absent
  BY DEF NewExp, ExpVal
<1>2. IF n = "HLLBin" THEN ExpType[n] \notin DOMAIN BinModules
      ELSE ExpType[n] \in DOMAIN BinModules /\ BinModules[ExpType[n]] = n
  BY DEF ExpType, BinModules
<1>3. n = "HLLBin" => ExpPanics(e)
  BY <1>1, <1>2 DEF ExpPanics
<1>4. n # "HLLBin" => ~ExpPanics(e)
  BY <1>1, <1>2, CommandsApart DEF ExpPanics
<1>5. n # "HLLBin" => ToExpression(e) = [name |-> n, given |-> {<<"name", "name">>}]
  BY <1>1, <1>2, CommandsApart DEF ToExpression
<1>6. ExpTaken(e) = {"name"}
  BY <1>1 DEF ExpTaken, Absent
<1>7. e.cmd # Absent
  BY <1>1 DEF Absent
<1>8. n # "HLLBin" => ExpArrives(n, e)
  BY <1>5, <1>6 DEF ExpArrives
<1> QED BY <1>3, <1>4, <1>7, <1>8 DEF ExpFits

LEMMA RegexFits ==
    ExpFits("RegexCompare", NewExp("Regex", ExpVal("S", "regex"), "bin", "flags", Absent, << >>))
<1> DEFINE e == NewExp("Regex", ExpVal("S", "regex"), "bin", "flags", Absent, << >>)
<1>1. /\ e.cmd = "Regex" /\ e.exps = << >> /\ e.val.param = "regex" /\ e.bin = "bin" /\ e.flags = "flags"
  BY DEF NewExp, ExpVal
<1> HIDE DEF e
<1>2. ~ExpPanics(e)
  BY <1>1, CommandsApart DEF ExpPanics
<1>3. ToExpression(e) = [name |-> "RegexCompare", given |-> {<<"regex", "regex">>, <<"flags", "flags">>, <<"bin", "bin">>}]
  BY <1>1, CommandsApart DEF ToExpression
<1>4. ExpTaken(e) = {"regex", "flags", "bin"}
  BY <1>1 DEF ExpTaken, Absent
<1> QED BY <1>1, <1>2, <1>3, <1>4, CommandsApart DEF ExpFits, ExpArrives, e

LEMMA ConstantsFit ==
    \A n \in {"IntVal", "BoolVal", "StringVal", "FloatVal", "BlobVal", "GeoVal", "ListVal", "MapVal"} :
        ExpFits(n, Valued(Absent, ExpVal(ValKind[n], "val")))
<1>1. \A n \in {"IntVal", "BoolVal", "StringVal", "FloatVal", "BlobVal", "GeoVal", "ListVal", "MapVal"} :
         ValKind[n] \in DOMAIN ByKind /\ ByKind[ValKind[n]] = n
  BY DEF ValKind, ByKind
<1>2. "val" # Absent
  BY DEF Absent
<1> QED BY <1>1, <1>2, ConstantFits

LEMMA EmptyListGoesWrong == ExpPanics(Valued(Absent, ExpVal("L0", "val")))
  BY DEF ExpPanics, Valued, NewExp, ExpVal, ByKind

LEMMA NoMapGoesWrong == ~ExpArrives("NoMapVal", Valued(Absent, ExpVal("M", "val")))
  BY DEF ExpArrives, ToExpression, Valued, NewExp, ExpVal, ByKind

LEMMA ExclusiveGoesWrong == ~ExpArrives("Exclusive", Over("IntXor", <<"exps">>))
<1> DEFINE e == Over("IntXor", <<"exps">>)
<1>1. e.cmd = "IntXor"
  BY DEF Over, NewExp
<1> HIDE DEF e
<1>2. ToExpression(e).name = "IntXor"
  BY <1>1, CommandsApart DEF ToExpression
<1> QED BY <1>2 DEF ExpArrives, e

LEMMA NumbersFit ==
    \A n \in {"NumAbs", "NumFloor", "NumCeil", "ToInt", "ToFloat"} :
        IF n = "NumFloor" THEN ExpPanics(Over(n, <<"num">>)) ELSE ExpFits(n, Over(n, <<"num">>))
<1>1. Over("NumFloor", <<"num">>).cmd = "NumFloor"
  BY DEF Over, NewExp
<1>2. ExpPanics(Over("NumFloor", <<"num">>))
  BY <1>1, CommandsApart DEF ExpPanics
<1>3. \A n \in {"NumAbs", "NumCeil", "ToInt", "ToFloat"} : n \in ExpCodes /\ ExpParams(n) = <<"num">>
  BY DEF ExpCodes, ExpParams
<1> QED BY <1>2, <1>3, OverFits

LEMMA DefGoesWrong == ~ExpArrives("Def", NewExp(Absent, ExpVal("S", "name"), Absent, Absent, Absent, <<"value">>))
<1> DEFINE e == NewExp(Absent, ExpVal("S", "name"), Absent, Absent, Absent, <<"value">>)
<1>1. e.cmd = Absent /\ e.val.kind = "S"
  BY DEF NewExp, ExpVal
<1> HIDE DEF e
<1>2. ToExpression(e).name = "StringVal"
  BY <1>1 DEF ToExpression, ByKind
<1> QED BY <1>2 DEF ExpArrives, e

\* The methods of Expression, group by group.
LEMMA BinExpsArrive == ArriveAsTold(BinExps)
<1>1. ArriveAsTold(Entry("Key", Valued("Key", ExpVal("I", "exp_type"))))
  BY ValuedFits, ByValReads, EntryFits DEF ExpMisfits
<1>2. ArriveAsTold(Entry("KeyExists", Valued("KeyExists", NoVal)))
  BY NothingFits, EntryFits DEF ByNothing, ExpMisfits
<1>3. ArriveAsTold([n \in {"IntBin", "StringBin", "BlobBin", "FloatBin", "GeoBin", "ListBin", "MapBin",
       "HLLBin"} |-> NewExp("Bin", ExpVal("S", "name"), Absent, Absent, ExpType[n], << >>)])
  BY BinFits DEF ArriveAsTold, ExpMisfits
<1> QED BY <1>1, <1>2, <1>3, ExpJoin DEF BinExps

LEMMA RecordExpsArrive == ArriveAsTold(RecordExps)
<1>1. ArriveAsTold([n \in {"SetName", "DeviceSize", "MemorySize", "LastUpdate", "SinceUpdate", "VoidTime",
       "TTL", "IsTombstone"} |-> Valued(n, NoVal)])
  BY NothingFits DEF ArriveAsTold, ByNothing, ExpMisfits
<1>2. ArriveAsTold(Entry("BinType", Valued("BinType", ExpVal("S", "name"))))
  BY ValuedFits, ByValReads, EntryFits DEF ExpMisfits
<1>3. ArriveAsTold(Entry("DigestModulo", Valued("DigestModulo", ExpVal("I", "modulo"))))
  BY ValuedFits, ByValReads, EntryFits DEF ExpMisfits
<1>4. ArriveAsTold(Entry("RegexCompare", NewExp("Regex", ExpVal("S", "regex"), "bin", "flags", Absent, <<
       >>)))
  BY RegexFits, EntryFits DEF ExpMisfits
<1>5. ArriveAsTold(Entry("GeoCompare", Over("GeoCompare", <<"left", "right">>)))
  BY OverFits, EntryFits DEF ExpCodes, ExpMisfits, ExpParams
<1> QED BY <1>1, <1>2, <1>3, <1>4, <1>5, ExpJoin DEF RecordExps

LEMMA ValExpsArrive == ArriveAsTold(ValExps)
<1>1. ArriveAsTold(Entry("NilValue", Valued(Absent, ExpVal("Nil", "nil"))))
  BY ConstantFits, EntryFits DEF ByKind, ExpMisfits, Absent
<1>2. ArriveAsTold([n \in {"IntVal", "BoolVal", "StringVal", "FloatVal", "BlobVal", "GeoVal", "ListVal",
       "MapVal"} |-> Valued(Absent, ExpVal(ValKind[n], "val"))])
  BY ConstantsFit DEF ArriveAsTold, ExpMisfits
<1>3. ArriveAsTold(Entry("EmptyListVal", Valued(Absent, ExpVal("L0", "val"))))
  BY EmptyListGoesWrong DEF ArriveAsTold, Entry, ExpMisfits
<1>6. ArriveAsTold(Entry("NoMapVal", Valued(Absent, ExpVal("M", "val"))))
  BY NoMapGoesWrong DEF ArriveAsTold, Entry, ExpMisfits
<1>4. ArriveAsTold(Entry("InfinityValue", Valued(Absent, ExpVal("Infinity", "infinity"))))
  BY ConstantFits, EntryFits DEF ByKind, ExpMisfits, Absent
<1>5. ArriveAsTold(Entry("WildCardValue", Valued(Absent, ExpVal("Wildcard", "wildcard"))))
  BY ConstantFits, EntryFits DEF ByKind, ExpMisfits, Absent
<1> QED BY <1>1, <1>2, <1>3, <1>4, <1>5, <1>6, ExpJoin DEF ValExps

LEMMA CompareExpsArrive == ArriveAsTold(CompareExps)
<1>1. ArriveAsTold(OverEach({"Eq", "NotEq", "Greater", "GreaterEq", "Less", "LessEq"}, <<"left", "right">>))
  BY OverEachFits DEF ExpCodes, ExpMisfits, ExpParams
<1>2. ArriveAsTold(Entry("Not", Over("Not", <<"exp">>)))
  BY OverFits, EntryFits DEF ExpCodes, ExpMisfits, ExpParams
<1>3. ArriveAsTold(OverEach({"And", "Or"}, <<"exps">>))
  BY OverEachFits DEF ExpCodes, ExpMisfits, ExpParams
<1>4. ArriveAsTold(Entry("Exclusive", Over("IntXor", <<"exps">>)))
  BY ExclusiveGoesWrong DEF ArriveAsTold, Entry, ExpMisfits
<1> QED BY <1>1, <1>2, <1>3, <1>4, ExpJoin DEF CompareExps

LEMMA NumberExpsArrive == ArriveAsTold(NumberExps)
<1>1. ArriveAsTold(OverEach({"NumAdd", "NumSub", "NumMul", "NumDiv"}, <<"exps">>))
  BY OverEachFits DEF ExpCodes, ExpMisfits, ExpParams
<1>2. ArriveAsTold(OverEach({"NumAbs", "NumFloor", "NumCeil", "ToInt", "ToFloat"}, <<"num">>))
  BY NumbersFit DEF ArriveAsTold, OverEach, ExpMisfits
<1>3. ArriveAsTold(Entry("NumPow", Over("NumPow", <<"base", "exponent">>)))
  BY OverFits, EntryFits DEF ExpCodes, ExpMisfits, ExpParams
<1>4. ArriveAsTold(Entry("NumLog", Over("NumLog", <<"num", "base">>)))
  BY OverFits, EntryFits DEF ExpCodes, ExpMisfits, ExpParams
<1>5. ArriveAsTold(Entry("NumMod", Over("NumMod", <<"numerator", "denominator">>)))
  BY OverFits, EntryFits DEF ExpCodes, ExpMisfits, ExpParams
<1> QED BY <1>1, <1>2, <1>3, <1>4, <1>5, ExpJoin DEF NumberExps

LEMMA IntegerExpsArrive == ArriveAsTold(IntegerExps)
<1>1. ArriveAsTold(OverEach({"IntAnd", "IntOr", "IntXor"}, <<"exps">>))
  BY OverEachFits DEF ExpCodes, ExpMisfits, ExpParams
<1>2. ArriveAsTold(OverEach({"IntNot", "IntCount"}, <<"exp">>))
  BY OverEachFits DEF ExpCodes, ExpMisfits, ExpParams
<1>3. ArriveAsTold(OverEach({"IntLShift", "IntRShift", "IntARShift"}, <<"value", "shift">>))
  BY OverEachFits DEF ExpCodes, ExpMisfits, ExpParams
<1>4. ArriveAsTold(OverEach({"IntLScan", "IntRScan"}, <<"value", "search">>))
  BY OverEachFits DEF ExpCodes, ExpMisfits, ExpParams
<1> QED BY <1>1, <1>2, <1>3, <1>4, ExpJoin DEF IntegerExps

LEMMA ControlExpsArrive == ArriveAsTold(ControlExps)
<1>1. ArriveAsTold(OverEach({"Min", "Max", "Cond", "Let"}, <<"exps">>))
  BY OverEachFits DEF ExpCodes, ExpMisfits, ExpParams
<1>2. ArriveAsTold(Entry("Var", Valued("Var", ExpVal("S", "name"))))
  BY ValuedFits, ByValReads, EntryFits DEF ExpMisfits
<1>3. ArriveAsTold(Entry("Def", NewExp(Absent, ExpVal("S", "name"), Absent, Absent, Absent, <<"value">>)))
  BY DefGoesWrong DEF ArriveAsTold, Entry, ExpMisfits
<1>4. ArriveAsTold(Entry("Unknown", Valued("Unknown", NoVal)))
  BY NothingFits, EntryFits DEF ByNothing, ExpMisfits
<1> QED BY <1>1, <1>2, <1>3, <1>4, ExpJoin DEF ControlExps

\* Every method of Expression arrives as itself, or is a misfit.
LEMMA ExpressionsArrive == ArriveAsTold(Expressions)
  BY BinExpsArrive, RecordExpsArrive, ValExpsArrive, CompareExpsArrive, NumberExpsArrive, IntegerExpsArrive,
    ControlExpsArrive, ExpJoin DEF Expressions

(* ------------------------- the meaning of a command ------------------------ *)

\* The record made of a command is what the program asked for.
ArrivesAsAsked(cmd, i) ==
    LET r == BatchRecordIfc(Message(cmd, i)) IN
    /\ r.kind = cmd.kind /\ r.read = ReadAsked(cmd)
    /\ DOMAIN r.ops = DOMAIN cmd.ops
    /\ \A k \in DOMAIN cmd.ops : r.ops[k] = Asked(cmd.ops[k])
    /\ DOMAIN r.filter = DOMAIN cmd.filter
    /\ \A k \in DOMAIN cmd.filter : r.filter[k] = ExpAsked(cmd.filter[k])

Refused(cmd) == (\E k \in DOMAIN cmd.ops : OpRefused(cmd.ops[k])) \/ FilterRefused(cmd.filter)

\* A command alone goes wrong through misfits, and through each that it uses.
FitsAlone(cmd, i) ==
    /\ ~MessagePanics(Message(cmd, i)) /\ ~Refused(cmd) /\ cmd.kind # "invalid"
         => (ArrivesAsAsked(cmd, i) <=> ~MisfitCmd(cmd))
    /\ MessagePanics(Message(cmd, i)) => MisfitCmd(cmd) \/ cmd.key \notin {"int", "string", "blob"}
    /\ Refused(cmd) => MisfitCmd(cmd)

\* A command without its value, and that with which a program writes back what it read.
Bare(cmd) == [cmd EXCEPT !.value = Scalar("int")]
WritesBack(cmd) == [cmd EXCEPT !.ops = <<Op("Put"), Op("Get")>>]

\* What the tables of the codecs have to say of the commands, one by one.
CommandsFit ==
    \A b \in Batches : \A i \in DOMAIN b :
        FitsAlone(Bare(b[i]), i) /\ (GetsValue(b[i]) => FitsAlone(Bare(WritesBack(b[i])), i))

\* A filter breaks or loses its meaning through misfits, and through each of them.
LEMMA FilterFits ==
    ASSUME NEW f, IsFilter(f)
    PROVE  LET msg == EncodeFilter(f)
               Misfit == \E k \in DOMAIN f : f[k] \in ExpMisfits
           IN /\ FilterPanics(msg) => Misfit
              /\ ~FilterPanics(msg) =>
                   ((DOMAIN ToFilter(msg) = DOMAIN f /\ \A k \in DOMAIN f : ToFilter(msg)[k] = ExpAsked(f[k]))
                      <=> ~Misfit)
<1> DEFINE msg == EncodeFilter(f)
           Misfit == \E k \in DOMAIN f : f[k] \in ExpMisfits
           Right(k) == ToExpression(msg[k]) = ExpAsked(f[k])
<1>1. DOMAIN msg = DOMAIN f /\ \A k \in DOMAIN f : msg[k] = Expressions[f[k]]
  BY DEF EncodeFilter
<1>2. \A k \in DOMAIN f : f[k] \in DOMAIN Expressions
  BY DEF IsFilter
<1>3. \A k \in DOMAIN f : Right(k) <=> ExpArrives(f[k], msg[k])
  BY <1>1 DEF ExpArrives, ExpAsked, ExpTakes, ExpTaken
<1>4. \A k \in DOMAIN f : IF f[k] \in ExpMisfits THEN ExpPanics(msg[k]) \/ ~ExpArrives(f[k], msg[k])
                         ELSE ExpFits(f[k], msg[k])
  BY <1>1, <1>2, ExpressionsArrive DEF ArriveAsTold
<1>5. Reached(msg) \subseteq DOMAIN f
  BY <1>1 DEF Reached
<1>6. DOMAIN ToFilter(msg) = Reached(msg) /\ \A k \in Reached(msg) : ToFilter(msg)[k] = ToExpression(msg[k])
  BY DEF ToFilter
<1>7. ~Misfit => Reached(msg) = DOMAIN f
  <2> SUFFICES ASSUME ~Misfit, NEW k \in DOMAIN f, NEW j \in DOMAIN f, j < k PROVE msg[j].cmd # Absent
    BY <1>1, <1>5 DEF Reached
  <2>1. j < Len(f)
    BY DEF IsFilter
  <2>2. msg[j].exps # << >> \/ msg[j].bin # Absent
    BY <1>1, <2>1 DEF IsFilter
  <2>3. ExpFits(f[j], msg[j])
    BY <1>4
  <2> QED BY <2>2, <2>3 DEF ExpFits
<1> HIDE DEF msg
<1>8. FilterPanics(msg) => Misfit
  BY <1>4, <1>5 DEF FilterPanics, ExpFits
<1>9. ~Misfit => DOMAIN ToFilter(msg) = DOMAIN f /\ \A k \in DOMAIN f : ToFilter(msg)[k] = ExpAsked(f[k])
  BY <1>3, <1>4, <1>6, <1>7 DEF ExpFits
<1>10. ASSUME ~FilterPanics(msg), Misfit, DOMAIN ToFilter(msg) = DOMAIN f,
              \A k \in DOMAIN f : ToFilter(msg)[k] = ExpAsked(f[k])
       PROVE  FALSE
  <2>1. PICK k \in DOMAIN f : f[k] \in ExpMisfits
    BY <1>10
  <2>2. k \in Reached(msg) /\ Right(k)
    BY <1>6, <1>10, <2>1
  <2>3. ExpPanics(msg[k])
    BY <1>3, <1>4, <2>1, <2>2
  <2> QED BY <1>10, <2>2, <2>3 DEF FilterPanics
<1> QED BY <1>8, <1>9, <1>10 DEF msg

\* A command alone goes wrong through misfits, and through each that it uses: whatever
\* the tables of lib.rs send is what the tables of kvs.go expect.
LEMMA CommandFitsAlone ==
    ASSUME NEW cmd, IsMeant(cmd), NEW i
    PROVE  FitsAlone(cmd, i)
<1> DEFINE m == Message(cmd, i)
           r == BatchRecordIfc(m)
           MisOp == \E k \in DOMAIN cmd.ops : MisfitOp(cmd.ops[k])
           MisExp == \E k \in DOMAIN cmd.filter : cmd.filter[k] \in ExpMisfits
<1>1. /\ m.kind = cmd.kind /\ m.key_value = cmd.key /\ m.bin_names = cmd.bins.names
      /\ m.read_all_bins = (cmd.bins = Bins(<< >>))
      /\ m.ops = EncodeOps(cmd.ops) /\ m.filter_expression = EncodeFilter(cmd.filter)
  BY DEF Message
<1>2. /\ DOMAIN m.ops = DOMAIN cmd.ops /\ \A k \in DOMAIN cmd.ops : m.ops[k] = Encode(cmd.ops[k])
  BY <1>1 DEF EncodeOps
<1>3. \A k \in DOMAIN cmd.ops : IsOp(cmd.ops[k])
  BY DEF IsMeant
<1>4. cmd.bins.names # << >> => DOMAIN cmd.ops = {} /\ cmd.ops = << >>
  BY DEF IsMeant
<1>5. m.ops = << >> <=> cmd.ops = << >>
  <2>1. IsSequence(cmd.ops)
    BY DEF IsMeant, IsSequence
  <2>2. cmd.ops = << >> => m.ops = << >>
    BY <1>1 DEF EncodeOps
  <2>3. m.ops = << >> => DOMAIN m.ops = {}
    OBVIOUS
  <2> QED BY <1>2, <2>1, <2>2, <2>3 DEF IsSequence
<1>6. /\ r.kind = m.kind /\ r.filter = ToFilter(m.filter_expression)
      /\ r.ops = (IF m.bin_names # << >> THEN << >> ELSE [k \in DOMAIN m.ops |-> ToOp(m.ops[k])])
      /\ r.read = (IF m.kind # "read" THEN "no"
                   ELSE IF m.bin_names # << >> THEN "bins"
                   ELSE IF m.ops # << >> THEN "ops"
                   ELSE IF m.read_all_bins THEN "all" ELSE "header")
  BY DEF BatchRecordIfc
<1> HIDE DEF m, r
<1>7. r.read = ReadAsked(cmd)
  <2>1. CASE cmd.bins = NoBins
    <3>1. cmd.bins.names = << >> /\ cmd.bins # Bins(<< >>)
      BY <2>1 DEF NoBins, Bins
    <3> QED BY <1>1, <1>5, <1>6, <2>1, <3>1 DEF ReadAsked
  <2>2. CASE cmd.bins = Bins(cmd.bins.names)
    <3>1. \A n : Bins(n).given = TRUE /\ Bins(n).names = n /\ NoBins.given = FALSE
      BY DEF NoBins, Bins
    <3>2. cmd.bins # NoBins
      BY <2>2, <3>1
    <3>3. cmd.bins = Bins(<< >>) <=> cmd.bins.names = << >>
      BY <2>2, <3>1
    <3> QED BY <1>1, <1>4, <1>5, <1>6, <3>2, <3>3 DEF ReadAsked
  <2> QED BY <2>1, <2>2 DEF IsMeant
<1>8. DOMAIN r.ops = DOMAIN cmd.ops
  BY <1>1, <1>2, <1>4, <1>6
<1>9. \A k \in DOMAIN cmd.ops : r.ops[k] = ToOp(Encode(cmd.ops[k]))
  BY <1>1, <1>2, <1>4, <1>6
<1>10. IsFilter(cmd.filter)
  BY DEF IsMeant
<1>11. Refused(cmd) => MisOp \/ MisExp
  <2>1. FilterRefused(cmd.filter) => MisExp
    BY DEF FilterRefused, ExpMisfits
  <2> QED BY <1>3, <2>1, OpFits DEF Refused
<1>12. (\E k \in DOMAIN cmd.ops : Panics(Encode(cmd.ops[k]))) => MisOp
  BY <1>3, OpFits
<1>13. FilterPanics(m.filter_expression) => MisExp
  BY <1>1, <1>10, FilterFits
<1>14. MisfitCmd(cmd) <=> MisOp \/ MisExp
  BY DEF MisfitCmd
<1>15. MessagePanics(m) => MisfitCmd(cmd) \/ cmd.key \notin {"int", "string", "blob"}
  BY <1>1, <1>2, <1>12, <1>13, <1>14 DEF MessagePanics, KeyAccepted
<1>16. ASSUME ~MessagePanics(m), ~Refused(cmd)
       PROVE  ArrivesAsAsked(cmd, i) <=> ~MisfitCmd(cmd)
  <2>1. \A k \in DOMAIN cmd.ops : ~Panics(Encode(cmd.ops[k])) /\ ~OpRefused(cmd.ops[k])
    BY <1>1, <1>2, <1>4, <1>16 DEF MessagePanics, Refused
  <2>2. (\A k \in DOMAIN cmd.ops : r.ops[k] = Asked(cmd.ops[k])) <=> ~MisOp
    BY <1>3, <1>9, <2>1, OpFits
  <2>3. ~FilterPanics(m.filter_expression)
    BY <1>16 DEF MessagePanics
  <2>4. (DOMAIN r.filter = DOMAIN cmd.filter /\ \A k \in DOMAIN cmd.filter : r.filter[k] = ExpAsked(cmd.filter[k]))
          <=> ~MisExp
    BY <1>1, <1>6, <1>10, <2>3, FilterFits
  <2> HIDE DEF MisOp, MisExp
  <2> QED BY <1>1, <1>6, <1>7, <1>8, <1>14, <2>2, <2>4 DEF ArrivesAsAsked, m, r
<1> QED BY <1>11, <1>14, <1>15, <1>16 DEF FitsAlone, m

\* Every command of a batch fits, and so does the one that writes its value back.
LEMMA CommandsDoFit == CommandsFit
<1> SUFFICES ASSUME NEW b \in Batches, NEW i \in DOMAIN b
             PROVE  FitsAlone(Bare(b[i]), i) /\ (GetsValue(b[i]) => FitsAlone(Bare(WritesBack(b[i])), i))
  BY DEF CommandsFit
<1> DEFINE c == b[i]
<1>1. IsCommand(c) /\ IsMeant(c)
  BY BatchesAssumption, CommandsAssumption DEF IsBatch
<1>2. ASSUME NEW d, IsCommand(d), IsMeant(d) PROVE IsMeant(Bare(d))
  <2>1. Bare(d).bins = d.bins /\ Bare(d).ops = d.ops /\ Bare(d).filter = d.filter
    BY <1>2 DEF IsCommand, Bare
  <2> HIDE DEF Bare
  <2> QED BY <1>2, <2>1 DEF IsMeant
<1>3. IsOp(Op("Put")) /\ IsOp(Op("Get"))
  <2>1. {"Put", "Get"} \subseteq DOMAIN StdMethods
    BY DEF StdMethods, Join, Sends
  <2>2. DOMAIN StdMethods \subseteq DOMAIN Client
    BY DEF Client, Join
  <2>3. ASSUME NEW m \in {"Put", "Get"} PROVE IsOp(Op(m))
    <3>1. Op(m).method = m /\ Op(m).returns = Default /\ Op(m).ctx = << >> /\ Op(m).flags = {}
          /\ Op(m).arg = "fit"
      BY DEF Op
    <3> QED BY <2>1, <2>2, <3>1 DEF IsOp
  <2> QED BY <2>3
<1>4. ASSUME GetsValue(c) PROVE IsCommand(WritesBack(c)) /\ IsMeant(WritesBack(c))
  <2> DEFINE w == WritesBack(c)
             ops == <<Op("Put"), Op("Get")>>
  <2>1. /\ w = [kind |-> c.kind, bins |-> c.bins, ops |-> ops, key |-> c.key, filter |-> c.filter,
                value |-> c.value, holds |-> c.holds]
        /\ c.kind \in Kinds
    BY <1>1 DEF IsCommand, WritesBack
  <2> HIDE DEF w, ops
  <2>2. w.kind = c.kind /\ w.bins = c.bins /\ w.ops = ops /\ w.key = c.key /\ w.filter = c.filter
        /\ w.value = c.value /\ w.holds = c.holds
    BY <2>1
  <2>3. IsCommand(w)
    BY <2>1, <2>2 DEF IsCommand
  <2>4. c.ops # << >> /\ c.bins.names = << >>
    BY <1>1, <1>4 DEF GetsValue, IsMeant
  <2>5. IsSequence(ops) /\ \A k \in DOMAIN ops : IsOp(ops[k])
    BY <1>3 DEF ops, IsSequence
  <2>6. IsMeant(w)
    BY <1>1, <2>2, <2>4, <2>5 DEF IsMeant, IsSequence
  <2> QED BY <2>3, <2>6 DEF w
<1> QED BY <1>1, <1>2, <1>4, CommandFitsAlone

\* Messages and records are made of their own commands.
FromBatches == round = 1 => asked \in Batches

AllFit == \A i \in DOMAIN asked : FitsAlone(Bare(asked[i]), i)

MessagesAreBuilt ==
    \A k \in DOMAIN msgs : LET i == msgs[k].key IN
        i \in DOMAIN asked /\ asked[i].kind # "invalid" /\ msgs[k] = Message(asked[i], i) /\ ~Refused(asked[i])

RecordsAreConverted ==
    pc \in {"go", "reply", "error"} =>
        \A k \in DOMAIN msgs : recs[k] = BatchRecordIfc(msgs[k]) /\ ~MessagePanics(msgs[k])

\* What the constructors refuse, and what ends the process.
RefusedForAReason ==
    /\ pc = "called" => \A i \in DOMAIN asked : ~Refused(asked[i])
    /\ pc = "refused" => \E i \in DOMAIN asked : MisfitCmd(asked[i]) \/ asked[i].value = Scalar("object")
    /\ pc = "aborted" => \E i \in DOMAIN asked : asked[i].value.t = "array"
                            /\ Scalar("object") \in {e[2] : e \in asked[i].value.entries}

MeaningInv ==
    /\ FromBatches
    /\ AllFit
    /\ MessagesAreBuilt
    /\ RecordsAreConverted
    /\ RefusedForAReason

\* What becomes of a command does not depend on its value.
LEMMA ValueDoesNotMatter ==
    ASSUME NEW cmd, IsCommand(cmd), NEW i
    PROVE  /\ MessagePanics(Message(Bare(cmd), i)) <=> MessagePanics(Message(cmd, i))
           /\ ArrivesAsAsked(Bare(cmd), i) <=> ArrivesAsAsked(cmd, i)
           /\ Refused(Bare(cmd)) <=> Refused(cmd)
           /\ MisfitCmd(Bare(cmd)) <=> MisfitCmd(cmd)
           /\ Bare(cmd).kind = cmd.kind /\ Bare(cmd).key = cmd.key
<1> DEFINE b == Bare(cmd)
           m == Message(b, i)
           n == Message(cmd, i)
           r == BatchRecordIfc(m)
           s == BatchRecordIfc(n)
<1>1. /\ b.kind = cmd.kind /\ b.bins = cmd.bins /\ b.ops = cmd.ops
      /\ b.key = cmd.key /\ b.filter = cmd.filter
  BY DEF IsCommand, Bare
<1> HIDE DEF b
<1>2. /\ m.kind = cmd.kind /\ m.key_value = cmd.key /\ m.filter_expression = EncodeFilter(cmd.filter)
      /\ m.bin_names = cmd.bins.names /\ m.read_all_bins = (cmd.bins = Bins(<< >>)) /\ m.ops = EncodeOps(cmd.ops)
  BY <1>1 DEF Message
<1>3. /\ n.kind = cmd.kind /\ n.key_value = cmd.key /\ n.filter_expression = EncodeFilter(cmd.filter)
      /\ n.bin_names = cmd.bins.names /\ n.read_all_bins = (cmd.bins = Bins(<< >>)) /\ n.ops = EncodeOps(cmd.ops)
  BY DEF Message
<1> HIDE DEF m, n
<1>4. MessagePanics(m) <=> MessagePanics(n)
  BY <1>2, <1>3 DEF MessagePanics
<1>5. r.kind = s.kind /\ r.filter = s.filter /\ r.ops = s.ops /\ r.read = s.read
  BY <1>2, <1>3 DEF BatchRecordIfc
<1>6. ReadAsked(b) = ReadAsked(cmd)
  BY <1>1 DEF ReadAsked
<1> HIDE DEF r, s
<1>7. ArrivesAsAsked(b, i) <=> ArrivesAsAsked(cmd, i)
  <2>1. /\ r = BatchRecordIfc(Message(b, i)) /\ s = BatchRecordIfc(Message(cmd, i))
    BY DEF r, s, m, n
  <2> QED BY <1>1, <1>5, <1>6, <2>1 DEF ArrivesAsAsked
<1>8. (Refused(b) <=> Refused(cmd)) /\ (MisfitCmd(b) <=> MisfitCmd(cmd))
  BY <1>1 DEF Refused, MisfitCmd
<1> QED BY <1>1, <1>4, <1>7, <1>8 DEF b, m, n

LEMMA CommandFits ==
    ASSUME IsBatch(asked), AllFit, NEW i \in DOMAIN asked
    PROVE  FitsAlone(asked[i], i)
<1>1. IsCommand(asked[i]) /\ FitsAlone(Bare(asked[i]), i)
  BY DEF IsBatch, AllFit
<1> QED BY <1>1, ValueDoesNotMatter DEF FitsAlone

LEMMA InitMeaningInv == CommandsFit /\ Init => MeaningInv
<1> SUFFICES ASSUME CommandsFit, Init PROVE MeaningInv
  OBVIOUS
<1>1. asked \in Batches /\ pc = "new" /\ msgs = << >>
  BY DEF Init
<1>2. AllFit
  BY <1>1 DEF CommandsFit, AllFit
<1>3. DOMAIN msgs = {}
  BY <1>1
<1> QED BY <1>1, <1>2, <1>3 DEF MeaningInv, FromBatches, MessagesAreBuilt, RecordsAreConverted, RefusedForAReason

\* A step that leaves commands, messages and records alone.
LEMMA StageMeaning ==
    ASSUME MeaningInv, UNCHANGED <<asked, round, msgs, recs>>, RefusedForAReason',
           pc' \in {"go", "reply", "error"} => pc \in {"go", "reply", "error"}
    PROVE  MeaningInv'
<1>1. FromBatches' /\ AllFit'
  BY DEF MeaningInv, FromBatches, AllFit
<1>2. MessagesAreBuilt'
  BY DEF MeaningInv, MessagesAreBuilt
<1>3. RecordsAreConverted'
  BY DEF MeaningInv, RecordsAreConverted
<1> QED BY <1>1, <1>2, <1>3 DEF MeaningInv

LEMMA ConstructMeaning == BatchInv /\ MeaningInv /\ Construct => MeaningInv'
<1> SUFFICES ASSUME BatchInv, MeaningInv, Construct PROVE MeaningInv'
  OBVIOUS
<1> DEFINE Values == {asked[i].value : i \in {j \in DOMAIN asked : PutsValue(asked[j])}}
           Ops == UNION {{asked[i].ops[k] : k \in DOMAIN asked[i].ops} : i \in DOMAIN asked}
<1>1. /\ pc' \in {"aborted", "refused", "called"}
      /\ UNCHANGED <<asked, round, bin, was, msgs, recs, net, done, answer, thrown, seen>>
  BY DEF Construct
<1>2. /\ pc' = "aborted" => \E v \in Values : Aborts(v)
      /\ pc' = "refused" => \/ \E v \in Values : Throws(v)
                            \/ \E op \in Ops : OpRefused(op)
                            \/ \E i \in DOMAIN asked : FilterRefused(asked[i].filter)
      /\ pc' = "called" => /\ ~ \E op \in Ops : OpRefused(op)
                           /\ ~ \E i \in DOMAIN asked : FilterRefused(asked[i].filter)
  BY DEF Construct
<1>3. IsBatch(asked) /\ AllFit
  BY DEF BatchInv, TypeOK, MeaningInv
<1>4. ASSUME pc' = "aborted"
      PROVE  \E i \in DOMAIN asked : /\ asked[i].value.t = "array"
                                     /\ Scalar("object") \in {e[2] : e \in asked[i].value.entries}
  <2>1. PICK i \in DOMAIN asked : Aborts(asked[i].value)
    BY <1>2, <1>4
  <2>2. asked[i].value.t = "array" /\ \E e \in Taken(asked[i].value.entries) : e[2] = Scalar("object")
    BY <2>1 DEF Aborts, Foreign
  <2>3. PICK e \in asked[i].value.entries : e[2] = Scalar("object")
    BY <2>2 DEF Taken
  <2> QED BY <2>2, <2>3
<1>5. ASSUME pc' = "refused" PROVE \E i \in DOMAIN asked : MisfitCmd(asked[i]) \/ asked[i].value = Scalar("object")
  <2>1. CASE \E v \in Values : Throws(v)
    BY <2>1 DEF Throws, Foreign
  <2>2. CASE (\E op \in Ops : OpRefused(op)) \/ \E i \in DOMAIN asked : FilterRefused(asked[i].filter)
    <3>1. PICK i \in DOMAIN asked : Refused(asked[i])
      BY <2>2 DEF Refused
    <3>2. MisfitCmd(asked[i])
      BY <1>3, <3>1, CommandFits DEF FitsAlone
    <3> QED BY <3>2
  <2> QED BY <1>2, <1>5, <2>1, <2>2
<1>6. ASSUME pc' = "called", NEW i \in DOMAIN asked PROVE ~Refused(asked[i])
  BY <1>2, <1>6 DEF Refused
<1>7. RefusedForAReason'
  BY <1>1, <1>4, <1>5, <1>6 DEF RefusedForAReason
<1> QED BY <1>1, <1>7, StageMeaning

LEMMA BuildMeaning == BatchInv /\ MeaningInv /\ Build => MeaningInv'
<1> SUFFICES ASSUME BatchInv, MeaningInv, Build PROVE MeaningInv'
  OBVIOUS
<1> DEFINE c == Cardinality(Recognised)
<1>1. /\ pc = "called" /\ pc' = "rpc"
      /\ UNCHANGED <<asked, round, bin, was, recs, net, done, answer, seen>>
      /\ msgs' = [k \in 1 .. c |-> Message(asked[Nth(k)], Nth(k))]
  BY DEF Build
<1>2. IsBatch(asked)
  BY DEF BatchInv, TypeOK
<1>3. ASSUME NEW k \in DOMAIN msgs'
      PROVE  /\ msgs'[k].key = Nth(k) /\ msgs'[k] = Message(asked[Nth(k)], Nth(k))
             /\ Nth(k) \in DOMAIN asked /\ asked[Nth(k)].kind # "invalid" /\ ~Refused(asked[Nth(k)])
  <2>1. k \in 1 .. c /\ msgs'[k] = Message(asked[Nth(k)], Nth(k))
    BY <1>1
  <2>2. Nth(k) \in Recognised /\ Nth(k) \in DOMAIN asked
    BY <1>2, <2>1, NthIsCommand
  <2>3. asked[Nth(k)].kind # "invalid"
    BY <2>2 DEF Recognised
  <2>4. msgs'[k].key = Nth(k)
    BY <2>1 DEF Message
  <2>5. ~Refused(asked[Nth(k)])
    BY <1>1, <2>2 DEF MeaningInv, RefusedForAReason
  <2> QED BY <2>1, <2>2, <2>3, <2>4, <2>5
<1>4. MessagesAreBuilt'
  BY <1>1, <1>3 DEF MessagesAreBuilt
<1>5. FromBatches' /\ AllFit'
  BY <1>1 DEF MeaningInv, FromBatches, AllFit
<1>6. RecordsAreConverted' /\ RefusedForAReason'
  BY <1>1 DEF RecordsAreConverted, RefusedForAReason
<1> QED BY <1>4, <1>5, <1>6 DEF MeaningInv

LEMMA HandleMeaning == MeaningInv /\ Handle => MeaningInv'
<1> SUFFICES ASSUME MeaningInv, Handle PROVE MeaningInv'
  OBVIOUS
<1>1. pc = "rpc" /\ UNCHANGED <<asked, round, bin, was, msgs, done, answer, thrown, seen>> /\ pc' \in {"broken", "go"}
  BY DEF Handle
<1>2. FromBatches' /\ AllFit'
  BY <1>1 DEF MeaningInv, FromBatches, AllFit
<1>3. MessagesAreBuilt' /\ RefusedForAReason'
  BY <1>1 DEF MeaningInv, MessagesAreBuilt, RefusedForAReason
<1>4. RecordsAreConverted'
  <2>1. ASSUME pc' = "go" PROVE \A k \in DOMAIN msgs : recs'[k] = BatchRecordIfc(msgs[k]) /\ ~MessagePanics(msgs[k])
    BY <2>1 DEF Handle
  <2> QED BY <1>1, <2>1 DEF RecordsAreConverted
<1> QED BY <1>2, <1>3, <1>4 DEF MeaningInv

LEMMA LaterMeaning ==
    ASSUME MeaningInv, UNCHANGED <<asked, round, msgs, recs>>,
           \/ pc' = pc
           \/ pc' \in {"broken", "returned"}
           \/ pc = "go" /\ pc' \in {"reply", "error"}
    PROVE  MeaningInv'
<1>1. RefusedForAReason'
  BY DEF MeaningInv, RefusedForAReason
<1> QED BY <1>1, StageMeaning

\* The second batch has the commands of the first that read values, with other operations.
LEMMA WriteBackMeaning == CommandsFit /\ BatchInv /\ MeaningInv /\ WriteBack => MeaningInv'
<1> SUFFICES ASSUME CommandsFit, BatchInv, MeaningInv, WriteBack PROVE MeaningInv'
  OBVIOUS
<1>1. /\ round = 1 /\ round' = 2 /\ pc' = "new" /\ msgs' = << >>
      /\ \A i \in DOMAIN asked : GetsValue(asked[i])
      /\ asked' = [i \in DOMAIN asked |->
                    [asked[i] EXCEPT !.value = seen.records[i].value, !.ops = <<Op("Put"), Op("Get")>>]]
  BY DEF WriteBack
<1>2. asked \in Batches
  BY <1>1 DEF MeaningInv, FromBatches
<1>3. ASSUME NEW i \in DOMAIN asked PROVE Bare(asked'[i]) = Bare(WritesBack(asked[i]))
  <2>1. asked[i] = [kind |-> asked[i].kind, bins |-> asked[i].bins, ops |-> asked[i].ops, key |-> asked[i].key,
                    filter |-> asked[i].filter, value |-> asked[i].value, holds |-> asked[i].holds]
    BY DEF BatchInv, TypeOK, IsBatch, IsCommand
  <2>2. asked'[i] = [asked[i] EXCEPT !.value = seen.records[i].value, !.ops = <<Op("Put"), Op("Get")>>]
    BY <1>1
  <2> QED BY <2>1, <2>2 DEF Bare, WritesBack
<1>4. AllFit'
  <2>1. \A i \in DOMAIN asked : FitsAlone(Bare(WritesBack(asked[i])), i)
    BY <1>1, <1>2 DEF CommandsFit
  <2>2. DOMAIN asked' = DOMAIN asked
    BY <1>1
  <2> QED BY <1>3, <2>1, <2>2, Zenon DEF AllFit
<1>5. DOMAIN msgs' = {}
  <2>1. msgs' = << >>
    BY DEF WriteBack
  <2> QED BY <2>1
<1>6. FromBatches'
  <2>1. round' = 2
    BY DEF WriteBack
  <2> QED BY <2>1 DEF FromBatches
<1>7. MessagesAreBuilt'
  BY <1>5 DEF MessagesAreBuilt
<1>8. RecordsAreConverted' /\ RefusedForAReason'
  BY <1>1 DEF RecordsAreConverted, RefusedForAReason
<1> QED BY <1>4, <1>6, <1>7, <1>8 DEF MeaningInv

LEMMA NextMeaningInv == CommandsFit /\ BatchInv /\ MeaningInv /\ [Next]_vars => MeaningInv'
<1> SUFFICES ASSUME CommandsFit, BatchInv, MeaningInv, [Next]_vars PROVE MeaningInv'
  OBVIOUS
<1>1. CASE Construct
  BY <1>1, ConstructMeaning
<1>2. CASE Build
  BY <1>2, BuildMeaning
<1>3. CASE Handle
  BY <1>3, HandleMeaning
<1>4. CASE GoReturns
  <2>1. UNCHANGED <<asked, round, msgs, recs>> /\ pc = "go" /\ pc' \in {"reply", "error"}
    BY <1>4 DEF GoReturns
  <2> QED BY <2>1, LaterMeaning
<1>5. CASE AcmCrash
  <2>1. UNCHANGED <<asked, round, msgs, recs>> /\ pc' = "broken"
    BY <1>5 DEF AcmCrash
  <2> QED BY <2>1, LaterMeaning
<1>6. CASE Return
  <2>1. UNCHANGED <<asked, round, msgs, recs>> /\ pc' = "returned"
    BY <1>6 DEF Return
  <2> QED BY <2>1, LaterMeaning
<1>7. CASE WriteBack
  BY <1>7, WriteBackMeaning
<1>8. CASE \E k \in net : Execute(k) \/ Lose(k)
  <2>1. UNCHANGED <<asked, round, msgs, recs, pc>>
    BY <1>8 DEF Execute, Lose
  <2> QED BY <2>1, LaterMeaning
<1>9. CASE Ended \/ UNCHANGED vars
  BY <1>9, LaterMeaning DEF Ended, vars
<1> QED BY <1>1, <1>2, <1>3, <1>4, <1>5, <1>6, <1>7, <1>8, <1>9 DEF Next

LEMMA InvariantMeaning == BatchInv /\ MeaningInv => OnlyMisfitsGoWrong
<1> SUFFICES ASSUME BatchInv, MeaningInv PROVE OnlyMisfitsGoWrong
  OBVIOUS
<1> DEFINE UsesMisfit == \E k \in DOMAIN msgs : MisfitCmd(asked[msgs[k].key])
<1>1. IsBatch(asked) /\ AllFit
  BY DEF BatchInv, TypeOK, MeaningInv
<1>2. ASSUME NEW k \in DOMAIN msgs
      PROVE  /\ msgs[k].key \in DOMAIN asked /\ msgs[k] = Message(asked[msgs[k].key], msgs[k].key)
             /\ asked[msgs[k].key].kind # "invalid" /\ ~Refused(asked[msgs[k].key])
             /\ FitsAlone(asked[msgs[k].key], msgs[k].key)
  <2>1. /\ msgs[k].key \in DOMAIN asked /\ msgs[k] = Message(asked[msgs[k].key], msgs[k].key)
        /\ asked[msgs[k].key].kind # "invalid" /\ ~Refused(asked[msgs[k].key])
    BY DEF MeaningInv, MessagesAreBuilt
  <2> QED BY <1>1, <2>1, CommandFits
<1>3. ASSUME pc \in {"go", "reply", "error"} PROVE Delivered <=> ~UsesMisfit
  <2>1. DOMAIN recs = DOMAIN msgs
    BY <1>3 DEF BatchInv, OneRecordEach
  <2>2. ASSUME NEW k \in DOMAIN msgs
        PROVE  /\ recs[k].key = msgs[k].key
               /\ recs[k] = BatchRecordIfc(Message(asked[msgs[k].key], msgs[k].key))
               /\ ArrivesAsAsked(asked[msgs[k].key], msgs[k].key) <=> ~MisfitCmd(asked[msgs[k].key])
    <3> DEFINE i == msgs[k].key
    <3>1. recs[k] = BatchRecordIfc(msgs[k]) /\ ~MessagePanics(msgs[k])
      BY <1>3 DEF MeaningInv, RecordsAreConverted
    <3>2. recs[k].key = i
      BY <1>3 DEF BatchInv, OneRecordEach
    <3>3. msgs[k] = Message(asked[i], i)
      BY <1>2
    <3>4. recs[k] = BatchRecordIfc(Message(asked[i], i)) /\ ~MessagePanics(Message(asked[i], i))
      BY <3>1, <3>3, Zenon
    <3>5. asked[i].kind # "invalid" /\ ~Refused(asked[i]) /\ FitsAlone(asked[i], i)
      BY <1>2
    <3> HIDE DEF i
    <3>6. ArrivesAsAsked(asked[i], i) <=> ~MisfitCmd(asked[i])
      BY <3>4, <3>5 DEF FitsAlone
    <3> QED BY <3>2, <3>4, <3>6 DEF i
  <2>3. Delivered <=> \A k \in DOMAIN msgs : ArrivesAsAsked(asked[msgs[k].key], msgs[k].key)
    <3>1. ASSUME NEW k \in DOMAIN msgs
          PROVE  ArrivesAsAsked(asked[msgs[k].key], msgs[k].key) <=>
                   LET cmd == asked[recs[k].key] IN
                     /\ recs[k].kind = cmd.kind /\ recs[k].read = ReadAsked(cmd)
                     /\ DOMAIN recs[k].ops = DOMAIN cmd.ops
                     /\ \A l \in DOMAIN cmd.ops : recs[k].ops[l] = Asked(cmd.ops[l])
                     /\ DOMAIN recs[k].filter = DOMAIN cmd.filter
                     /\ \A l \in DOMAIN cmd.filter : recs[k].filter[l] = ExpAsked(cmd.filter[l])
      <4>1. /\ recs[k].key = msgs[k].key
            /\ recs[k] = BatchRecordIfc(Message(asked[msgs[k].key], msgs[k].key))
        BY <2>2
      <4> QED BY <4>1, Zenon DEF ArrivesAsAsked
    <3> QED BY <2>1, <3>1, Zenon DEF Delivered
  <2>4. (\A k \in DOMAIN msgs : ArrivesAsAsked(asked[msgs[k].key], msgs[k].key)) <=> ~UsesMisfit
    BY <2>2, Zenon
  <2> QED BY <2>3, <2>4, Zenon
<1>4. ASSUME NEW k \in DOMAIN msgs, MessagePanics(msgs[k])
      PROVE  UsesMisfit \/ \E i \in DOMAIN asked : asked[i].key \notin {"int", "string", "blob"}
  <2> DEFINE i == msgs[k].key
  <2>1. i \in DOMAIN asked /\ msgs[k] = Message(asked[i], i) /\ FitsAlone(asked[i], i)
    BY <1>2
  <2>2. MessagePanics(Message(asked[i], i))
    BY <1>4, <2>1, Zenon
  <2>3. MisfitCmd(asked[i]) \/ asked[i].key \notin {"int", "string", "blob"}
    BY <2>1, <2>2, Zenon DEF FitsAlone
  <2> QED BY <2>1, <2>3, Zenon
<1>5. /\ pc = "refused" => \E i \in DOMAIN asked : MisfitCmd(asked[i]) \/ asked[i].value = Scalar("object")
      /\ pc = "aborted" => \E i \in DOMAIN asked : asked[i].value.t = "array"
                              /\ Scalar("object") \in {e[2] : e \in asked[i].value.entries}
  BY DEF MeaningInv, RefusedForAReason
<1> QED BY <1>3, <1>4, <1>5, Zenon DEF OnlyMisfitsGoWrong

\* The meaning of a batch is that of its commands: a command arrives as it was asked
\* exactly if it uses none of the misfits of lib.rs and kvs.go, in every batch, of any
\* length and next to any other commands, also in the batch that writes values back; and
\* what the constructors refuse, and what ends the process, is due to a misfit or to a
\* foreign object.
THEOREM BatchesMeanTheirCommands == Spec => []OnlyMisfitsGoWrong
<1>1. Init => BatchInv /\ MeaningInv
  BY InitBatchInv, InitMeaningInv, CommandsDoFit
<1>2. BatchInv /\ MeaningInv /\ [Next]_vars => (BatchInv /\ MeaningInv)'
  BY NextBatchInv, NextMeaningInv, CommandsDoFit
<1>3. BatchInv /\ MeaningInv => OnlyMisfitsGoWrong
  BY InvariantMeaning
<1> QED BY <1>1, <1>2, <1>3, PTL DEF Spec
=================================================================================
