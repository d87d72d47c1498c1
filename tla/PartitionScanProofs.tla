-------------------------- MODULE PartitionScanProofs --------------------------
(* Proofs about PartitionScan for any number of partitions, any stored        *)
(* records, any number of recordsets sharing a filter and any bounds: stored  *)
(* positions lose nothing, a stream is in order, the end of a page means what *)
(* it says, and one recordset at a time delivers every record once.           *)
EXTENDS PartitionScan, TLAPS

(* ------------------------------- arithmetic ------------------------------- *)

\* Key.partition_id stays inside the vector of statuses.
LEMMA PartitionIdType == \A d \in Nat : PartitionId(d) \in Pids
  BY PartitionsAssumption, SMT DEF PartitionId, Pids

\* A record is a position, and its digest is not the empty one.
LEMMA RecordType == \A x \in Records : x \in Positions /\ x.digest # NoDigest
  BY RecordsAssumption DEF Positions, NoDigest

\* Two records that precede each other are the same record.
LEMMA LeqAntisymmetric ==
    ASSUME NEW x \in Records, NEW y \in Records, Leq(x, y), Leq(y, x)
    PROVE  x = y
<1>1. BvalOr0(x.bval) \in Int /\ BvalOr0(y.bval) \in Int
  BY RecordsAssumption DEF BvalOr0
<1>2. x.digest \in Nat /\ y.digest \in Nat
  BY RecordsAssumption
<1>3. x.digest = y.digest
  BY <1>1, <1>2 DEF Leq
<1> QED
  BY <1>3, RecordsAssumption

\* toPartitionStatus keeps the meaning of a position.
LEMMA RequestKeepsPosition ==
    ASSUME NEW x, NEW b \in Int \cup {NoBval}, NEW d
    PROVE  Covered(x, [bval |-> BvalOr0(b), digest |-> d])
           <=> Covered(x, [bval |-> b, digest |-> d])
  BY NoBvalAssumption DEF Covered, Leq, BvalOr0

(* ----------------------------- type invariant ----------------------------- *)

\* What a handler puts in a stream is a message.
LEMMA MessageTypes ==
    /\ ErrMsg \in Messages /\ FailMsg \in Messages /\ EndMsg \in Messages
    /\ \A x \in Records : RecMsg(x) \in Messages
  BY DEF Messages, RecMsg

\* Only a record message carries a record.
LEMMA HeadIsMessage ==
    ASSUME NEW q \in Seq(Messages), q # <<>>, Head(q).kind = "rec"
    PROVE  Head(q).rec \in Records
<1>1. Head(q) \in Messages
  OBVIOUS
<1> QED
  BY <1>1 DEF Messages, ErrMsg, FailMsg, EndMsg

\* The start of a partition is a position.
LEMMA StartType == Start \in Positions
  BY DEF Start, Positions, NoDigest

\* A request of Client.scan names partitions, each with a position.
LEMMA RequestTypes ==
    ASSUME TypeOK
    PROVE  /\ RequestedIds \subseteq Pids
           /\ \A p \in Pids : RequestedPosition(p) \in Positions
<1>1. RequestedIds \subseteq Pids
  <2>1. CASE inited
    BY <2>1 DEF RequestedIds, TypeOK
  <2>2. CASE ~inited
    <3>1. filter.begin .. filter.begin + filter.count - 1 \subseteq Pids
      <4>1. /\ filter.begin \in Pids /\ filter.count \in 1 .. PARTITIONS
            /\ filter.begin + filter.count <= PARTITIONS
        BY FiltersAssumption DEF TypeOK
      <4> QED
        BY <4>1, PartitionsAssumption DEF Pids
    <3> QED BY <3>1, <2>2 DEF RequestedIds
  <2> QED BY <2>1, <2>2
<1>2. ASSUME NEW p \in Pids PROVE RequestedPosition(p) \in Positions
  <2>1. CASE inited /\ \E i \in Pids : status[i].id = p
    <3> DEFINE i == CHOOSE j \in Pids : status[j].id = p
    <3>1. i \in Pids
      BY <2>1
    <3>2. status[i].bval \in Int \cup {NoBval} /\ status[i].digest \in Nat
      BY <3>1 DEF TypeOK, Statuses
    <3>3. BvalOr0(status[i].bval) \in Int
      BY <3>2 DEF BvalOr0
    <3> QED
      BY <2>1, <3>2, <3>3 DEF RequestedPosition, Positions
  <2>2. CASE ~(inited /\ \E i \in Pids : status[i].id = p)
    BY <2>2, StartType DEF RequestedPosition
  <2> QED BY <2>1, <2>2
<1> QED BY <1>1, <1>2

\* Assigning to fields of one recordset keeps the types of all.
LEMMA RecordsetUpdates ==
    ASSUME NEW f \in [Recordsets -> RecordsetStates], NEW r \in Recordsets
    PROVE  /\ [f EXCEPT ![r].got = @ + 1] \in [Recordsets -> RecordsetStates]
           /\ [f EXCEPT ![r].erred = TRUE] \in [Recordsets -> RecordsetStates]
           /\ [f EXCEPT ![r].open = FALSE] \in [Recordsets -> RecordsetStates]
           /\ [f EXCEPT ![r].open = FALSE, ![r].ended = TRUE]
                 \in [Recordsets -> RecordsetStates]
<1>1. [f EXCEPT ![r].got = @ + 1] \in [Recordsets -> RecordsetStates]
  BY DEF RecordsetStates
<1>2. [f EXCEPT ![r].erred = TRUE] \in [Recordsets -> RecordsetStates]
  BY DEF RecordsetStates
<1>3. [f EXCEPT ![r].open = FALSE] \in [Recordsets -> RecordsetStates]
  BY DEF RecordsetStates
<1>4. [f EXCEPT ![r].open = FALSE, ![r].ended = TRUE]
        \in [Recordsets -> RecordsetStates]
  BY DEF RecordsetStates
<1> QED BY <1>1, <1>2, <1>3, <1>4

\* Assigning to fields of one handler keeps the types of all.
LEMMA HandlerUpdates ==
    ASSUME NEW f \in [Recordsets -> HandlerStates], NEW r \in Recordsets
    PROVE  /\ [f EXCEPT ![r].phase = "running"] \in [Recordsets -> HandlerStates]
           /\ [f EXCEPT ![r].phase = "stopped"] \in [Recordsets -> HandlerStates]
           /\ [f EXCEPT ![r].failed = TRUE] \in [Recordsets -> HandlerStates]
           /\ \A p \in Pids, x \in Positions :
                 [f EXCEPT ![r].cur[p] = x, ![r].sent = @ + 1]
                    \in [Recordsets -> HandlerStates]
<1>1. [f EXCEPT ![r].phase = "running"] \in [Recordsets -> HandlerStates]
  BY DEF HandlerStates
<1>2. [f EXCEPT ![r].phase = "stopped"] \in [Recordsets -> HandlerStates]
  BY DEF HandlerStates
<1>3. [f EXCEPT ![r].failed = TRUE] \in [Recordsets -> HandlerStates]
  BY DEF HandlerStates
<1>4. ASSUME NEW p \in Pids, NEW x \in Positions
      PROVE  [f EXCEPT ![r].cur[p] = x, ![r].sent = @ + 1]
                \in [Recordsets -> HandlerStates]
  <2>1. [f[r].cur EXCEPT ![p] = x] \in [Pids -> Positions]
    BY DEF HandlerStates
  <2>2. f[r].sent + 1 \in Nat
    BY DEF HandlerStates
  <2>3. [f[r] EXCEPT !.cur = [f[r].cur EXCEPT ![p] = x], !.sent = f[r].sent + 1]
          \in HandlerStates
    BY <2>1, <2>2 DEF HandlerStates
  <2> QED
    BY <2>3
<1> QED BY <1>1, <1>2, <1>3, <1>4

\* Every step keeps the types: the vector of statuses keeps one status per
\* partition, and streams carry only records, errors and their end.
LEMMA TypeStep == TypeOK /\ [Next]_vars => TypeOK'
<1> SUFFICES ASSUME TypeOK, [Next]_vars PROVE TypeOK'
  OBVIOUS
<1>1. ASSUME NEW r \in Recordsets, NEW max \in MaxRecords, Scan(r, max)
      PROVE  TypeOK'
  <2>1. max \in Nat
    BY BoundsAssumption
  <2>2. srv' \in [Recordsets -> HandlerStates]
    BY <1>1, <2>1, RequestTypes DEF Scan, HandlerStates, TypeOK
  <2>3. status' \in [Pids -> Statuses] /\ \A i \in Pids : status'[i].id = i
    BY <1>1 DEF Scan, InitPartitionStatus, NewStatus, NoDigest, Statuses, TypeOK
  <2>4. rs' \in [Recordsets -> RecordsetStates]
    BY <1>1, <2>1 DEF Scan, RecordsetStates, TypeOK
  <2> QED
    BY <1>1, <2>2, <2>3, <2>4 DEF Scan, InitPartitionStatus, TypeOK
<1>2. ASSUME NEW r \in Recordsets, HandlerStarts(r) PROVE TypeOK'
  <2>1. srv' \in [Recordsets -> HandlerStates]
    BY <1>2, HandlerUpdates DEF HandlerStarts, TypeOK
  <2> QED
    BY <1>2, <2>1 DEF HandlerStarts, TypeOK
<1>3. ASSUME NEW r \in Recordsets, HandlerStartError(r) PROVE TypeOK'
  <2>1. srv' \in [Recordsets -> HandlerStates]
    BY <1>3, HandlerUpdates DEF HandlerStartError, TypeOK
  <2>2. stream' \in [Recordsets -> Seq(Messages)]
    BY <1>3, MessageTypes DEF HandlerStartError, TypeOK
  <2> QED
    BY <1>3, <2>1, <2>2, BoundsAssumption DEF HandlerStartError, Fault, TypeOK
<1>4. ASSUME NEW r \in Recordsets, NEW p \in Pids, HandlerSendsRecord(r, p)
      PROVE  TypeOK'
  <2>1. PICK x \in Remaining(r, p) :
          /\ stream' = [stream EXCEPT ![r] = Append(@, RecMsg(x))]
          /\ srv' = [srv EXCEPT ![r].cur[p] = x, ![r].sent = @ + 1]
    BY <1>4 DEF HandlerSendsRecord, TypeOK
  <2>2. x \in Records /\ x \in Positions
    BY RecordType DEF Remaining, InPartition
  <2>3. stream' \in [Recordsets -> Seq(Messages)]
    BY <2>1, <2>2, MessageTypes DEF TypeOK
  <2>4. srv' \in [Recordsets -> HandlerStates]
    BY <2>1, <2>2, HandlerUpdates DEF TypeOK
  <2> QED
    BY <1>4, <2>3, <2>4 DEF HandlerSendsRecord, TypeOK
<1>5. ASSUME NEW r \in Recordsets, HandlerSendsError(r) PROVE TypeOK'
  <2>1. srv' \in [Recordsets -> HandlerStates]
    BY <1>5, HandlerUpdates DEF HandlerSendsError, TypeOK
  <2>2. stream' \in [Recordsets -> Seq(Messages)]
    BY <1>5, MessageTypes DEF HandlerSendsError, TypeOK
  <2> QED
    BY <1>5, <2>1, <2>2, BoundsAssumption DEF HandlerSendsError, Fault, TypeOK
<1>6. ASSUME NEW r \in Recordsets, HandlerReturns(r) PROVE TypeOK'
  <2>1. srv' \in [Recordsets -> HandlerStates]
    BY <1>6, HandlerUpdates DEF HandlerReturns, TypeOK
  <2>2. stream' \in [Recordsets -> Seq(Messages)]
    BY <1>6, MessageTypes DEF HandlerReturns, TypeOK
  <2> QED
    BY <1>6, <2>1, <2>2 DEF HandlerReturns, TypeOK
<1>7. ASSUME NEW r \in Recordsets, StreamFails(r) PROVE TypeOK'
  <2>1. PICK k \in 0 .. Len(stream[r]) :
          stream' = [stream EXCEPT ![r] = Append(SubSeq(@, 1, k), FailMsg)]
    BY <1>7 DEF StreamFails, TypeOK
  <2>2. SubSeq(stream[r], 1, k) \in Seq(Messages)
    BY DEF TypeOK
  <2>3. stream' \in [Recordsets -> Seq(Messages)]
    BY <2>1, <2>2, MessageTypes DEF TypeOK
  <2>4. srv' \in [Recordsets -> HandlerStates]
    BY <1>7, HandlerUpdates DEF StreamFails, TypeOK
  <2> QED
    BY <1>7, <2>3, <2>4, BoundsAssumption DEF StreamFails, Fault, TypeOK
<1>8. ASSUME NEW r \in Recordsets, NextRecord(r) PROVE TypeOK'
  <2> DEFINE x == Head(stream[r]).rec
  <2>1. x \in Records
    BY <1>8, HeadIsMessage DEF NextRecord, Yields, TypeOK
  <2>2. x.bval \in Int \cup {NoBval} /\ x.digest \in Nat
    BY <2>1, RecordsAssumption
  <2>3. status' \in [Pids -> Statuses] /\ \A i \in Pids : status'[i].id = i
    BY <1>8, <2>2 DEF NextRecord, Statuses, TypeOK
  <2>4. times' = [times EXCEPT ![x] = Seen(@)] /\ Seen(times[x]) \in 0 .. 2
    BY <1>8 DEF NextRecord, Seen, TypeOK
  <2>5. times' \in [Records -> 0 .. 2]
    BY <2>4 DEF TypeOK
  <2>6. stream' \in [Recordsets -> Seq(Messages)]
    BY <1>8 DEF NextRecord, Yields, TypeOK
  <2>7. rs' \in [Recordsets -> RecordsetStates]
    BY <1>8, RecordsetUpdates DEF NextRecord, TypeOK
  <2> QED
    BY <1>8, <2>3, <2>5, <2>6, <2>7 DEF NextRecord, TypeOK
<1>9. ASSUME NEW r \in Recordsets, NextPanics(r) PROVE TypeOK'
  BY <1>9 DEF NextPanics, TypeOK
<1>10. ASSUME NEW r \in Recordsets, NextError(r) PROVE TypeOK'
  <2>1. rs' \in [Recordsets -> RecordsetStates]
    BY <1>10, RecordsetUpdates DEF NextError, TypeOK
  <2>2. stream' \in [Recordsets -> Seq(Messages)]
    BY <1>10, MessageTypes DEF NextError, Yields, TypeOK
  <2> QED
    BY <1>10, <2>1, <2>2 DEF NextError, TypeOK
<1>11. ASSUME NEW r \in Recordsets, NextFailure(r) PROVE TypeOK'
  <2>1. rs' \in [Recordsets -> RecordsetStates]
    BY <1>11, RecordsetUpdates DEF NextFailure, TypeOK
  <2>2. stream' \in [Recordsets -> Seq(Messages)]
    BY <1>11, MessageTypes DEF NextFailure, Yields, TypeOK
  <2> QED
    BY <1>11, <2>1, <2>2 DEF NextFailure, TypeOK
<1>12. ASSUME NEW r \in Recordsets, NextEnd(r) PROVE TypeOK'
  <2>1. rs' \in [Recordsets -> RecordsetStates]
    BY <1>12, RecordsetUpdates DEF NextEnd, TypeOK
  <2>2. stream' \in [Recordsets -> Seq(Messages)]
    BY <1>12, MessageTypes DEF NextEnd, Yields, TypeOK
  <2> QED
    BY <1>12, <2>1, <2>2 DEF NextEnd, TypeOK
<1>13. ASSUME NEW r \in Recordsets, Close(r) PROVE TypeOK'
  <2>1. rs' \in [Recordsets -> RecordsetStates]
    BY <1>13, RecordsetUpdates DEF Close, TypeOK
  <2> QED
    BY <1>13, <2>1, BoundsAssumption DEF Close, Fault, TypeOK
<1>14. CASE UNCHANGED vars
  BY <1>14 DEF vars, TypeOK
<1> QED
  BY <1>1, <1>2, <1>3, <1>4, <1>5, <1>6, <1>7, <1>8, <1>9, <1>10, <1>11, <1>12,
     <1>13, <1>14 DEF Next, Handler, NextCall, Trouble

\* The first states have their types.
LEMMA InitType == Init => TypeOK
<1>1. ASSUME Init PROVE TypeOK
  <2>1. status \in [Pids -> Statuses] /\ \A i \in Pids : status[i].id = i
    BY <1>1 DEF Init, NewStatus, NoDigest, Statuses
  <2>2. IdleHandler \in HandlerStates
    BY StartType DEF IdleHandler, HandlerStates
  <2>3. ClosedRecordset \in RecordsetStates
    BY DEF ClosedRecordset, RecordsetStates
  <2>4. rs \in [Recordsets -> RecordsetStates] /\ srv \in [Recordsets -> HandlerStates]
    BY <1>1, <2>2, <2>3 DEF Init
  <2>5. times \in [Records -> 0 .. 2] /\ stream \in [Recordsets -> Seq(Messages)]
    BY <1>1 DEF Init
  <2>6. faults \in 0 .. MaxFaults
    BY <1>1, BoundsAssumption DEF Init
  <2>7. filter \in Filters /\ inited \in BOOLEAN /\ alive \in BOOLEAN
    BY <1>1 DEF Init
  <2> QED
    BY <2>1, <2>4, <2>5, <2>6, <2>7 DEF TypeOK
<1> QED BY <1>1

\* The types hold in every state of every behaviour.
THEOREM TypeCorrect == Spec => []TypeOK
  BY InitType, TypeStep, PTL DEF Spec

(* --------------------------- streams and deliveries ----------------------- *)

\* A stream stays accounted for when more records have been delivered.
LEMMA AccountedGrows ==
    ASSUME NEW q, NEW D, NEW E, Accounted(q, D), D \subseteq E
    PROVE  Accounted(q, E)
  BY DEF Accounted

\* Sending an error or the end of the stream needs no account.
LEMMA AccountedAppend ==
    ASSUME NEW q \in Seq(Messages), NEW m \in Messages, NEW D,
           m.kind # "rec", Accounted(q, D)
    PROVE  Accounted(Append(q, m), D)
  BY DEF Accounted

\* A handler may send a record whose predecessors are delivered or in the stream.
LEMMA AccountedAppendRecord ==
    ASSUME NEW q \in Seq(Messages), NEW y \in Records, NEW D,
           Accounted(q, D),
           \A x \in InPartition(PartitionId(y.digest)) :
               Leq(x, y) => x \in D \/ Carries(q, x) \/ x = y
    PROVE  Accounted(Append(q, RecMsg(y)), D)
<1> DEFINE t == Append(q, RecMsg(y))
<1>0. RecMsg(y).kind = "rec" /\ RecMsg(y).rec = y /\ RecMsg(y) \in Messages
  BY MessageTypes DEF RecMsg
<1>1. Len(t) = Len(q) + 1 /\ t[Len(q) + 1] = RecMsg(y)
      /\ \A i \in 1 .. Len(q) : t[i] = q[i]
  BY <1>0
<1> HIDE DEF t
<1> SUFFICES ASSUME NEW i \in 1 .. Len(t), t[i].kind = "rec",
                    NEW x \in InPartition(PartitionId(t[i].rec.digest)),
                    Leq(x, t[i].rec)
             PROVE  x \in D \/ \E j \in 1 .. i : t[j] = RecMsg(x)
  BY DEF Accounted, t
<1>2. CASE i \in 1 .. Len(q)
  <2>1. x \in D \/ \E j \in 1 .. i : q[j] = RecMsg(x)
    BY <1>1, <1>2 DEF Accounted
  <2> QED
    BY <2>1, <1>1, <1>2
<1>3. CASE i = Len(q) + 1
  <2>1. x \in D \/ Carries(q, x) \/ x = y
    BY <1>0, <1>1, <1>3
  <2> QED
    BY <2>1, <1>1, <1>3 DEF Carries
<1> QED
  BY <1>1, <1>2, <1>3

\* What the client has received of a lost stream is accounted for (StreamFails).
LEMMA AccountedPrefix ==
    ASSUME NEW q \in Seq(Messages), NEW k \in 0 .. Len(q), NEW D, Accounted(q, D)
    PROVE  Accounted(SubSeq(q, 1, k), D)
<1>1. /\ Len(SubSeq(q, 1, k)) = k
      /\ \A i \in 1 .. k : SubSeq(q, 1, k)[i] = q[i]
  OBVIOUS
<1> QED
  BY <1>1 DEF Accounted

\* Reading the head of a stream adds it to what is delivered.
LEMMA AccountedTail ==
    ASSUME NEW q \in Seq(Messages), q # <<>>, NEW D, NEW E, Accounted(q, D),
           D \subseteq E,
           \A x \in Records : Head(q) = RecMsg(x) => x \in E
    PROVE  Accounted(Tail(q), E)
<1> DEFINE t == Tail(q)
<1>1. /\ Len(q) \in Nat \ {0} /\ Len(t) = Len(q) - 1 /\ Head(q) = q[1]
      /\ \A i \in 1 .. Len(t) : t[i] = q[i + 1]
  OBVIOUS
<1> HIDE DEF t
<1> SUFFICES ASSUME NEW i \in 1 .. Len(t), t[i].kind = "rec",
                    NEW x \in InPartition(PartitionId(t[i].rec.digest)),
                    Leq(x, t[i].rec)
             PROVE  x \in E \/ \E j \in 1 .. i : t[j] = RecMsg(x)
  BY DEF Accounted, t
<1>2. x \in D \/ \E j \in 1 .. i + 1 : q[j] = RecMsg(x)
  BY <1>1 DEF Accounted
<1>3. CASE x \in D
  BY <1>3
<1>4. ASSUME NEW j \in 1 .. i + 1, q[j] = RecMsg(x)
      PROVE  x \in E \/ \E k \in 1 .. i : t[k] = RecMsg(x)
  <2>1. CASE j = 1
    BY <2>1, <1>1, <1>4 DEF InPartition
  <2>2. CASE j # 1
    <3>1. j - 1 \in 1 .. i /\ t[j - 1] = RecMsg(x)
      BY <2>2, <1>1, <1>4
    <3> QED BY <3>1
  <2> QED BY <2>1, <2>2
<1> QED
  BY <1>2, <1>3, <1>4

\* A stream carries what it carried before, and the message sent last.
LEMMA CarriesAppend ==
    ASSUME NEW q \in Seq(Messages), NEW m \in Messages, NEW x
    PROVE  Carries(Append(q, m), x) <=> Carries(q, x) \/ m = RecMsg(x)
<1>1. /\ Len(Append(q, m)) = Len(q) + 1 /\ Append(q, m)[Len(q) + 1] = m
      /\ \A i \in 1 .. Len(q) : Append(q, m)[i] = q[i]
  OBVIOUS
<1>2. Len(q) \in Nat
  OBVIOUS
<1> QED
  BY <1>1, <1>2 DEF Carries

\* A record that leaves a stream is the one at its head.
LEMMA CarriesTail ==
    ASSUME NEW q \in Seq(Messages), q # <<>>, NEW x, Carries(q, x)
    PROVE  Head(q) = RecMsg(x) \/ Carries(Tail(q), x)
<1>1. PICK j \in 1 .. Len(q) : q[j] = RecMsg(x)
  BY DEF Carries
<1>2. /\ Len(q) \in Nat \ {0} /\ Len(Tail(q)) = Len(q) - 1 /\ Head(q) = q[1]
      /\ \A i \in 1 .. Len(q) - 1 : Tail(q)[i] = q[i + 1]
  OBVIOUS
<1>3. CASE j = 1
  BY <1>1, <1>2, <1>3
<1>4. CASE j # 1
  <2>1. j - 1 \in 1 .. Len(Tail(q)) /\ Tail(q)[j - 1] = RecMsg(x)
    BY <1>1, <1>2, <1>4
  <2> QED BY <2>1 DEF Carries
<1> QED BY <1>3, <1>4

(* ---------------------- the cursor never passes a record ------------------ *)

\* Delivered records stay delivered.
LEMMA DeliveredGrows ==
    ASSUME TypeOK, [Next]_vars
    PROVE  Delivered \subseteq Delivered'
<1>1. times' = times \/ \E y : times' = [times EXCEPT ![y] = Seen(@)]
  BY DEF Next, Handler, NextCall, Trouble, vars, Scan, HandlerStarts,
     HandlerSendsRecord, HandlerReturns, HandlerStartError, HandlerSendsError,
     StreamFails, Close, NextRecord, NextPanics, NextError, NextFailure, NextEnd
<1>2. \A n \in Nat : Seen(n) > 0
  BY DEF Seen
<1> QED
  BY <1>1, <1>2 DEF Delivered, TypeOK

\* Steps that leave the statuses and the deliveries alone keep PositionsSound.
LEMMA PositionsStutter ==
    ASSUME PositionsSound, UNCHANGED <<status, times>>
    PROVE  PositionsSound'
  BY DEF PositionsSound, Delivered

\* The position a request asks for is the stored one.
LEMMA RequestedIsStored ==
    ASSUME TypeOK, PositionsSound, NEW p \in Pids, NEW x \in InPartition(p),
           Covered(x, RequestedPosition(p))
    PROVE  x \in Delivered
<1>1. CASE inited
  <2>1. \A i \in Pids : status[i].id = p <=> i = p
    BY DEF TypeOK
  <2>2. (CHOOSE i \in Pids : status[i].id = p) = p
    BY <2>1
  <2>3. RequestedPosition(p) =
          [bval |-> BvalOr0(status[p].bval), digest |-> status[p].digest]
    BY <1>1, <2>1, <2>2 DEF RequestedPosition
  <2>4. status[p].bval \in Int \cup {NoBval}
    BY DEF TypeOK, Statuses
  <2>5. Covered(x, [bval |-> status[p].bval, digest |-> status[p].digest])
    BY <2>3, <2>4, RequestKeepsPosition
  <2>6. Covered(x, status[p])
    BY <2>5 DEF Covered, Leq
  <2> QED
    BY <2>1, <2>6 DEF PositionsSound
<1>2. CASE ~inited
  BY <1>2 DEF RequestedPosition, Start, Covered
<1> QED BY <1>1, <1>2

\* The first record past a handler's position has only covered records before it.
LEMMA LeastRemaining ==
    ASSUME NEW r, NEW p, NEW y \in Remaining(r, p),
           \A z \in Remaining(r, p) : Leq(y, z),
           NEW x \in InPartition(p), Leq(x, y)
    PROVE  Covered(x, srv[r].cur[p]) \/ x = y
<1>1. CASE x \in Remaining(r, p)
  BY <1>1, LeqAntisymmetric DEF Remaining, InPartition
<1>2. CASE x \notin Remaining(r, p)
  BY <1>2 DEF Remaining
<1> QED BY <1>1, <1>2

\* A step on behalf of recordset r has to be checked for r only.
LEMMA OthersKeepAccounts ==
    ASSUME ScanInv, NEW r \in Recordsets, Delivered \subseteq Delivered',
           \A s \in Recordsets \ {r} :
               rs'[s] = rs[s] /\ srv'[s] = srv[s] /\ stream'[s] = stream[s],
           Accounted(stream'[r], Delivered'),
           rs'[r].open /\ srv'[r].phase # "stopped" =>
               \A p \in Pids : \A x \in InPartition(p) :
                   Covered(x, srv'[r].cur[p])
                   => x \in Delivered' \/ Carries(stream'[r], x),
           \A i \in 1 .. Len(stream'[r]) :
               stream'[r][i].kind = "fail" => srv'[r].phase = "stopped"
    PROVE  StreamAccounts' /\ HandlerAccounts' /\ FailureStopsHandler'
<1>1. StreamAccounts'
  <2> SUFFICES ASSUME NEW s \in Recordsets
               PROVE  Accounted(stream'[s], Delivered')
    BY DEF StreamAccounts, Accounted, InPartition, RecMsg, Leq, BvalOr0
  <2>1. CASE s = r
    BY <2>1
  <2>2. CASE s # r
    BY <2>2, AccountedGrows DEF ScanInv, StreamAccounts
  <2> QED BY <2>1, <2>2
<1>2. HandlerAccounts'
  <2> SUFFICES ASSUME NEW s \in Recordsets, rs'[s].open, srv'[s].phase # "stopped",
                      NEW p \in Pids, NEW x \in InPartition(p),
                      Covered(x, srv'[s].cur[p])
               PROVE  x \in Delivered' \/ Carries(stream'[s], x)
    BY DEF HandlerAccounts
  <2>1. CASE s = r
    BY <2>1
  <2>2. CASE s # r
    BY <2>2 DEF ScanInv, HandlerAccounts
  <2> QED BY <2>1, <2>2
<1>3. FailureStopsHandler'
  BY DEF ScanInv, FailureStopsHandler
<1> QED BY <1>1, <1>2, <1>3

\* Every step keeps the invariant of a filter built by all() or range(0, n).
LEMMA ScanStep == filter.begin = 0 /\ ScanInv /\ [Next]_vars => ScanInv'
<1> SUFFICES ASSUME filter.begin = 0, ScanInv, [Next]_vars PROVE ScanInv'
  OBVIOUS
<1>a. TypeOK'
  BY TypeStep DEF ScanInv
<1>b. Delivered \subseteq Delivered'
  BY DeliveredGrows DEF ScanInv
<1>t. stream \in [Recordsets -> Seq(Messages)] /\ srv \in [Recordsets -> HandlerStates]
      /\ rs \in [Recordsets -> RecordsetStates]
  BY DEF ScanInv, TypeOK
<1>m. \A r \in Recordsets : Accounted(stream[r], Delivered')
  BY <1>b, AccountedGrows DEF ScanInv, StreamAccounts
<1>1. ASSUME NEW r \in Recordsets, NEW max \in MaxRecords, Scan(r, max)
      PROVE  ScanInv'
  <2>1. PositionsSound'
    BY <1>1 DEF Scan, InitPartitionStatus, NewStatus, PositionsSound, Delivered,
       Covered, ScanInv
  <2>2. stream'[r] = <<>> /\ \A p \in Pids : srv'[r].cur[p] = RequestedPosition(p)
    BY <1>1, <1>t DEF Scan
  <2>3. Accounted(stream'[r], Delivered')
    BY <2>2 DEF Accounted
  <2>4. \A p \in Pids : \A x \in InPartition(p) :
          Covered(x, srv'[r].cur[p]) => x \in Delivered'
    BY <2>2, <1>b, RequestedIsStored DEF ScanInv
  <2>5. \A s \in Recordsets \ {r} :
          rs'[s] = rs[s] /\ srv'[s] = srv[s] /\ stream'[s] = stream[s]
    BY <1>1, <1>t DEF Scan
  <2>6. StreamAccounts' /\ HandlerAccounts' /\ FailureStopsHandler'
    BY <2>2, <2>3, <2>4, <2>5, <1>b, OthersKeepAccounts
  <2> QED
    BY <1>a, <2>1, <2>6 DEF ScanInv
<1>2. ASSUME NEW r \in Recordsets, HandlerStarts(r) PROVE ScanInv'
  <2>f. \A s \in Recordsets \ {r} :
          rs'[s] = rs[s] /\ srv'[s] = srv[s] /\ stream'[s] = stream[s]
    BY <1>2, <1>t DEF HandlerStarts
  <2>c. PositionsSound'
    BY <1>2, PositionsStutter DEF HandlerStarts, ScanInv
  <2>0. /\ stream'[r] = stream[r] /\ rs'[r] = rs[r] /\ srv'[r].cur = srv[r].cur
        /\ srv[r].phase # "stopped"
    BY <1>2, <1>t DEF HandlerStarts
  <2>1. Accounted(stream'[r], Delivered')
    BY <2>0, <1>m
  <2>2. rs'[r].open /\ srv'[r].phase # "stopped" =>
          \A p \in Pids : \A x \in InPartition(p) :
              Covered(x, srv'[r].cur[p]) => x \in Delivered' \/ Carries(stream'[r], x)
    BY <2>0, <1>b DEF ScanInv, HandlerAccounts
  <2>3. \A i \in 1 .. Len(stream'[r]) :
          stream'[r][i].kind = "fail" => srv'[r].phase = "stopped"
    BY <2>0 DEF ScanInv, FailureStopsHandler
  <2>z. StreamAccounts' /\ HandlerAccounts' /\ FailureStopsHandler'
    BY <2>f, <2>1, <2>2, <2>3, <1>b, OthersKeepAccounts
  <2> QED
    BY <1>a, <2>c, <2>z DEF ScanInv
<1>3. ASSUME NEW r \in Recordsets, HandlerStartError(r) PROVE ScanInv'
  <2>f. \A s \in Recordsets \ {r} :
          rs'[s] = rs[s] /\ srv'[s] = srv[s] /\ stream'[s] = stream[s]
    BY <1>3, <1>t DEF HandlerStartError
  <2>c. PositionsSound'
    BY <1>3, PositionsStutter DEF HandlerStartError, ScanInv
  <2>0. srv'[r].phase = "stopped"
    BY <1>3, <1>t DEF HandlerStartError, HandlerStates
  <2>s. stream'[r] = Append(Append(stream[r], ErrMsg), FailMsg)
    BY <1>3, <1>t DEF HandlerStartError
  <2>1. Accounted(stream'[r], Delivered')
    <3>1. ErrMsg.kind # "rec" /\ FailMsg.kind # "rec"
      BY DEF ErrMsg, FailMsg
    <3>2. Append(stream[r], ErrMsg) \in Seq(Messages)
      BY <1>t, MessageTypes
    <3>3. Accounted(Append(stream[r], ErrMsg), Delivered')
      BY <3>1, <1>t, <1>m, MessageTypes, AccountedAppend
    <3> QED
      BY <2>s, <3>1, <3>2, <3>3, MessageTypes, AccountedAppend
  <2>2. rs'[r].open /\ srv'[r].phase # "stopped" =>
          \A p \in Pids : \A x \in InPartition(p) :
              Covered(x, srv'[r].cur[p]) => x \in Delivered' \/ Carries(stream'[r], x)
    BY <2>0
  <2>3. \A i \in 1 .. Len(stream'[r]) :
          stream'[r][i].kind = "fail" => srv'[r].phase = "stopped"
    BY <2>0
  <2>z. StreamAccounts' /\ HandlerAccounts' /\ FailureStopsHandler'
    BY <2>f, <2>1, <2>2, <2>3, <1>b, OthersKeepAccounts
  <2> QED
    BY <1>a, <2>c, <2>z DEF ScanInv
<1>4. ASSUME NEW r \in Recordsets, NEW p \in Pids, HandlerSendsRecord(r, p)
      PROVE  ScanInv'
  <2>f. \A s \in Recordsets \ {r} :
          rs'[s] = rs[s] /\ srv'[s] = srv[s] /\ stream'[s] = stream[s]
    BY <1>4, <1>t DEF HandlerSendsRecord
  <2>c. PositionsSound'
    BY <1>4, PositionsStutter DEF HandlerSendsRecord, ScanInv
  <2>p. PICK y \in Remaining(r, p) :
          /\ \A z \in Remaining(r, p) : Leq(y, z)
          /\ stream' = [stream EXCEPT ![r] = Append(@, RecMsg(y))]
          /\ srv' = [srv EXCEPT ![r].cur[p] = y, ![r].sent = @ + 1]
    BY <1>4 DEF HandlerSendsRecord
  <2>y. y \in Records /\ PartitionId(y.digest) = p
    BY DEF Remaining, InPartition
  <2>s. /\ stream'[r] = Append(stream[r], RecMsg(y))
        /\ RecMsg(y) \in Messages /\ RecMsg(y).kind # "fail"
    BY <2>p, <2>y, <1>t, MessageTypes DEF RecMsg
  <2>g. srv[r].cur \in [Pids -> Positions] /\ srv[r] \in HandlerStates
    BY <1>t DEF HandlerStates
  <2>k. srv'[r] = [srv[r] EXCEPT !.cur = [srv[r].cur EXCEPT ![p] = y],
                                 !.sent = srv[r].sent + 1]
    BY <2>p, <1>t
  <2>h. /\ srv'[r].cur = [srv[r].cur EXCEPT ![p] = y]
        /\ srv[r].cur \in [Pids -> Positions]
        /\ srv[r].phase = "running" /\ rs[r].open /\ srv'[r].phase = srv[r].phase
    BY <1>4, <2>g, <2>k DEF HandlerSendsRecord, Room, HandlerStates
  <2>o. \A x \in InPartition(p) :
          Leq(x, y) => x \in Delivered' \/ Carries(stream[r], x) \/ x = y
    BY <2>p, <2>h, <1>b, LeastRemaining DEF ScanInv, HandlerAccounts
  <2>1. Accounted(stream'[r], Delivered')
    BY <2>s, <2>y, <2>o, <1>m, <1>t, AccountedAppendRecord
  <2>2. rs'[r].open /\ srv'[r].phase # "stopped" =>
          \A o \in Pids : \A x \in InPartition(o) :
              Covered(x, srv'[r].cur[o]) => x \in Delivered' \/ Carries(stream'[r], x)
    <3> SUFFICES ASSUME NEW o \in Pids, NEW x \in InPartition(o),
                        Covered(x, srv'[r].cur[o])
                 PROVE  x \in Delivered' \/ Carries(stream'[r], x)
      OBVIOUS
    <3>1. Carries(stream[r], x) \/ x = y => Carries(stream'[r], x)
      BY <2>s, <1>t, CarriesAppend
    <3>2. CASE o = p
      BY <3>1, <3>2, <2>h, <2>o DEF Covered
    <3>3. CASE o # p
      BY <3>1, <3>3, <2>h, <1>b DEF ScanInv, HandlerAccounts
    <3> QED BY <3>2, <3>3
  <2>3. \A i \in 1 .. Len(stream'[r]) :
          stream'[r][i].kind = "fail" => srv'[r].phase = "stopped"
    BY <2>s, <2>h, <1>t DEF ScanInv, FailureStopsHandler
  <2>z. StreamAccounts' /\ HandlerAccounts' /\ FailureStopsHandler'
    BY <2>f, <2>1, <2>2, <2>3, <1>b, OthersKeepAccounts
  <2> QED
    BY <1>a, <2>c, <2>z DEF ScanInv
<1>5. ASSUME NEW r \in Recordsets, HandlerSendsError(r) PROVE ScanInv'
  <2>f. \A s \in Recordsets \ {r} :
          rs'[s] = rs[s] /\ srv'[s] = srv[s] /\ stream'[s] = stream[s]
    BY <1>5, <1>t DEF HandlerSendsError
  <2>c. PositionsSound'
    BY <1>5, PositionsStutter DEF HandlerSendsError, ScanInv
  <2>s. /\ stream'[r] = Append(stream[r], ErrMsg) /\ ErrMsg \in Messages
        /\ ErrMsg.kind = "err"
    BY <1>5, <1>t, MessageTypes DEF HandlerSendsError, ErrMsg
  <2>h. /\ srv'[r].cur = srv[r].cur /\ srv'[r].phase = srv[r].phase
        /\ rs'[r].open = rs[r].open
    BY <1>5, <1>t DEF HandlerSendsError, HandlerStates
  <2>1. Accounted(stream'[r], Delivered')
    BY <2>s, <1>t, <1>m, AccountedAppend
  <2>2. rs'[r].open /\ srv'[r].phase # "stopped" =>
          \A p \in Pids : \A x \in InPartition(p) :
              Covered(x, srv'[r].cur[p]) => x \in Delivered' \/ Carries(stream'[r], x)
    <3> SUFFICES ASSUME rs[r].open, srv[r].phase # "stopped", NEW p \in Pids,
                        NEW x \in InPartition(p), Covered(x, srv[r].cur[p])
                 PROVE  x \in Delivered' \/ Carries(stream'[r], x)
      BY <2>h
    <3>1. x \in Delivered \/ Carries(stream[r], x)
      BY DEF ScanInv, HandlerAccounts
    <3> QED
      BY <3>1, <2>s, <1>t, <1>b, CarriesAppend
  <2>3. \A i \in 1 .. Len(stream'[r]) :
          stream'[r][i].kind = "fail" => srv'[r].phase = "stopped"
    BY <2>s, <2>h, <1>t DEF ScanInv, FailureStopsHandler
  <2>z. StreamAccounts' /\ HandlerAccounts' /\ FailureStopsHandler'
    BY <2>f, <2>1, <2>2, <2>3, <1>b, OthersKeepAccounts
  <2> QED
    BY <1>a, <2>c, <2>z DEF ScanInv
<1>6. ASSUME NEW r \in Recordsets, HandlerReturns(r) PROVE ScanInv'
  <2>f. \A s \in Recordsets \ {r} :
          rs'[s] = rs[s] /\ srv'[s] = srv[s] /\ stream'[s] = stream[s]
    BY <1>6, <1>t DEF HandlerReturns
  <2>c. PositionsSound'
    BY <1>6, PositionsStutter DEF HandlerReturns, ScanInv
  <2>0. srv'[r].phase = "stopped"
    BY <1>6, <1>t DEF HandlerReturns, HandlerStates
  <2>s. /\ stream'[r] = Append(stream[r], EndMsg) /\ EndMsg \in Messages
        /\ EndMsg.kind = "end"
    BY <1>6, <1>t, MessageTypes DEF HandlerReturns, EndMsg
  <2>1. Accounted(stream'[r], Delivered')
    BY <2>s, <1>t, <1>m, AccountedAppend
  <2>2. rs'[r].open /\ srv'[r].phase # "stopped" =>
          \A p \in Pids : \A x \in InPartition(p) :
              Covered(x, srv'[r].cur[p]) => x \in Delivered' \/ Carries(stream'[r], x)
    BY <2>0
  <2>3. \A i \in 1 .. Len(stream'[r]) :
          stream'[r][i].kind = "fail" => srv'[r].phase = "stopped"
    BY <2>0
  <2>z. StreamAccounts' /\ HandlerAccounts' /\ FailureStopsHandler'
    BY <2>f, <2>1, <2>2, <2>3, <1>b, OthersKeepAccounts
  <2> QED
    BY <1>a, <2>c, <2>z DEF ScanInv
<1>7. ASSUME NEW r \in Recordsets, StreamFails(r) PROVE ScanInv'
  <2>f. \A s \in Recordsets \ {r} :
          rs'[s] = rs[s] /\ srv'[s] = srv[s] /\ stream'[s] = stream[s]
    BY <1>7, <1>t DEF StreamFails
  <2>c. PositionsSound'
    BY <1>7, PositionsStutter DEF StreamFails, ScanInv
  <2>0. srv'[r].phase = "stopped"
    BY <1>7, <1>t DEF StreamFails, HandlerStates
  <2>s. PICK k \in 0 .. Len(stream[r]) :
          stream'[r] = Append(SubSeq(stream[r], 1, k), FailMsg)
    BY <1>7, <1>t DEF StreamFails
  <2>1. Accounted(stream'[r], Delivered')
    <3>1. SubSeq(stream[r], 1, k) \in Seq(Messages)
      BY <1>t
    <3>2. Accounted(SubSeq(stream[r], 1, k), Delivered')
      BY <1>t, <1>m, AccountedPrefix
    <3>3. FailMsg.kind # "rec" /\ FailMsg \in Messages
      BY MessageTypes DEF FailMsg
    <3> QED
      BY <2>s, <3>1, <3>2, <3>3, AccountedAppend
  <2>2. rs'[r].open /\ srv'[r].phase # "stopped" =>
          \A p \in Pids : \A x \in InPartition(p) :
              Covered(x, srv'[r].cur[p]) => x \in Delivered' \/ Carries(stream'[r], x)
    BY <2>0
  <2>3. \A i \in 1 .. Len(stream'[r]) :
          stream'[r][i].kind = "fail" => srv'[r].phase = "stopped"
    BY <2>0
  <2>z. StreamAccounts' /\ HandlerAccounts' /\ FailureStopsHandler'
    BY <2>f, <2>1, <2>2, <2>3, <1>b, OthersKeepAccounts
  <2> QED
    BY <1>a, <2>c, <2>z DEF ScanInv
<1>8. ASSUME NEW r \in Recordsets, NextRecord(r) PROVE ScanInv'
  <2> DEFINE y == Head(stream[r]).rec
  <2>f. \A s \in Recordsets \ {r} :
          rs'[s] = rs[s] /\ srv'[s] = srv[s] /\ stream'[s] = stream[s]
    BY <1>8, <1>t DEF NextRecord
  <2>s. /\ stream[r] # <<>> /\ stream'[r] = Tail(stream[r])
        /\ Head(stream[r]).kind = "rec" /\ rs[r].open
        /\ srv' = srv
    BY <1>8, <1>t DEF NextRecord, Yields
  <2>y. y \in Records /\ Head(stream[r]) = RecMsg(y)
    <3>1. Head(stream[r]) \in Messages
      BY <2>s, <1>t
    <3> QED
      BY <3>1, <2>s DEF Messages, ErrMsg, FailMsg, EndMsg, RecMsg
  <2>d. y \in Delivered'
    BY <1>8, <2>y DEF NextRecord, Delivered, Seen, ScanInv, TypeOK
  <2>i. \A x \in Records : RecMsg(x) = RecMsg(y) => x = y
    BY DEF RecMsg
  <2>1. Accounted(stream'[r], Delivered')
    BY <2>s, <2>y, <2>d, <2>i, <1>t, <1>b, AccountedTail DEF ScanInv, StreamAccounts
  <2>2. rs'[r].open /\ srv'[r].phase # "stopped" =>
          \A p \in Pids : \A x \in InPartition(p) :
              Covered(x, srv'[r].cur[p]) => x \in Delivered' \/ Carries(stream'[r], x)
    <3> SUFFICES ASSUME srv[r].phase # "stopped", NEW p \in Pids,
                        NEW x \in InPartition(p), Covered(x, srv[r].cur[p])
                 PROVE  x \in Delivered' \/ Carries(stream'[r], x)
      BY <2>s
    <3>1. x \in Delivered \/ Carries(stream[r], x)
      BY <2>s DEF ScanInv, HandlerAccounts
    <3>2. Carries(stream[r], x) => Head(stream[r]) = RecMsg(x) \/ Carries(stream'[r], x)
      BY <2>s, <1>t, CarriesTail
    <3> QED
      BY <3>1, <3>2, <2>y, <2>d, <2>i, <1>b DEF InPartition
  <2>3. \A i \in 1 .. Len(stream'[r]) :
          stream'[r][i].kind = "fail" => srv'[r].phase = "stopped"
    BY <2>s, <1>t DEF ScanInv, FailureStopsHandler
  <2>c. PositionsSound'
    <3> DEFINE o == PartitionId(y.digest)
    <3>1. y.digest \in Nat /\ o \in Pids
      BY <2>y, RecordsAssumption, PartitionIdType
    <3>2. StatusIndex(y) = o
      BY <3>1 DEF StatusIndex, ScanInv, TypeOK, Pids
    <3>3. \A x \in InPartition(o) : Leq(x, y) => x \in Delivered'
      <4>1. 1 \in 1 .. Len(stream[r]) /\ stream[r][1] = RecMsg(y)
        BY <2>s, <2>y, <1>t
      <4>2. RecMsg(y).kind = "rec" /\ RecMsg(y).rec = y
        BY DEF RecMsg
      <4> QED
        BY <4>1, <4>2, <2>i, <2>d, <1>b
        DEF ScanInv, StreamAccounts, Accounted, InPartition
    <3>4. /\ \A i \in Pids \ {o} : status'[i] = status[i]
          /\ status'[o] = [id |-> status[o].id, bval |-> y.bval, digest |-> y.digest]
          /\ \A i \in Pids : status'[i].id = i
      BY <1>8, <1>a, <3>1, <3>2 DEF NextRecord, ScanInv, TypeOK
    <3> SUFFICES ASSUME NEW i \in Pids, NEW x \in InPartition(i),
                        Covered(x, status'[i])
                 PROVE  x \in Delivered'
      BY <3>4 DEF PositionsSound
    <3>5. CASE i = o
      <4>1. Leq(x, y)
        BY <3>4, <3>5 DEF Covered, Leq
      <4> QED BY <3>3, <3>5, <4>1
    <3>6. CASE i # o
      BY <3>4, <3>6, <1>b DEF ScanInv, PositionsSound
    <3> QED BY <3>5, <3>6
  <2>z. StreamAccounts' /\ HandlerAccounts' /\ FailureStopsHandler'
    BY <2>f, <2>1, <2>2, <2>3, <1>b, OthersKeepAccounts
  <2> QED
    BY <1>a, <2>c, <2>z DEF ScanInv
<1>9. ASSUME NEW r \in Recordsets, NextPanics(r) PROVE ScanInv'
  BY <1>9, <1>a DEF NextPanics, ScanInv, PositionsSound, HandlerAccounts, StreamAccounts,
     FailureStopsHandler, Delivered
<1>10. ASSUME NEW r \in Recordsets, NextError(r) PROVE ScanInv'
  <2>f. \A s \in Recordsets \ {r} :
          rs'[s] = rs[s] /\ srv'[s] = srv[s] /\ stream'[s] = stream[s]
    BY <1>10, <1>t DEF NextError
  <2>c. PositionsSound'
    BY <1>10, PositionsStutter DEF NextError, ScanInv
  <2>s. /\ stream[r] # <<>> /\ stream'[r] = Tail(stream[r])
        /\ Head(stream[r]).kind = "err" /\ rs'[r].open = rs[r].open /\ srv' = srv
    BY <1>10, <1>t DEF NextError, Yields, RecordsetStates
  <2>h. \A x : Head(stream[r]) # RecMsg(x)
    BY <2>s DEF RecMsg
  <2>1. Accounted(stream'[r], Delivered')
    BY <2>s, <2>h, <1>t, <1>b, AccountedTail DEF ScanInv, StreamAccounts
  <2>2. rs'[r].open /\ srv'[r].phase # "stopped" =>
          \A p \in Pids : \A x \in InPartition(p) :
              Covered(x, srv'[r].cur[p]) => x \in Delivered' \/ Carries(stream'[r], x)
    BY <2>s, <2>h, <1>t, <1>b, CarriesTail DEF ScanInv, HandlerAccounts
  <2>3. \A i \in 1 .. Len(stream'[r]) :
          stream'[r][i].kind = "fail" => srv'[r].phase = "stopped"
    BY <2>s, <1>t DEF ScanInv, FailureStopsHandler
  <2>z. StreamAccounts' /\ HandlerAccounts' /\ FailureStopsHandler'
    BY <2>f, <2>1, <2>2, <2>3, <1>b, OthersKeepAccounts
  <2> QED
    BY <1>a, <2>c, <2>z DEF ScanInv
<1>11. ASSUME NEW r \in Recordsets, NextFailure(r) PROVE ScanInv'
  <2>f. \A s \in Recordsets \ {r} :
          rs'[s] = rs[s] /\ srv'[s] = srv[s] /\ stream'[s] = stream[s]
    BY <1>11, <1>t DEF NextFailure
  <2>c. PositionsSound'
    BY <1>11, PositionsStutter DEF NextFailure, ScanInv
  <2>s. /\ stream'[r] = <<EndMsg>> /\ srv[r].phase = "stopped" /\ srv' = srv
    BY <1>11, <1>t DEF NextFailure, Yields, ScanInv, FailureStopsHandler
  <2>1. Accounted(stream'[r], Delivered')
    BY <2>s DEF Accounted, EndMsg
  <2>2. rs'[r].open /\ srv'[r].phase # "stopped" =>
          \A p \in Pids : \A x \in InPartition(p) :
              Covered(x, srv'[r].cur[p]) => x \in Delivered' \/ Carries(stream'[r], x)
    BY <2>s
  <2>3. \A i \in 1 .. Len(stream'[r]) :
          stream'[r][i].kind = "fail" => srv'[r].phase = "stopped"
    BY <2>s
  <2>z. StreamAccounts' /\ HandlerAccounts' /\ FailureStopsHandler'
    BY <2>f, <2>1, <2>2, <2>3, <1>b, OthersKeepAccounts
  <2> QED
    BY <1>a, <2>c, <2>z DEF ScanInv
<1>12. ASSUME NEW r \in Recordsets, NextEnd(r) PROVE ScanInv'
  <2>f. \A s \in Recordsets \ {r} :
          rs'[s] = rs[s] /\ srv'[s] = srv[s] /\ stream'[s] = stream[s]
    BY <1>12, <1>t DEF NextEnd
  <2>c. PositionsSound'
    BY <1>12, PositionsStutter DEF NextEnd, ScanInv
  <2>s. stream'[r] = <<>> /\ ~rs'[r].open
    BY <1>12, <1>t DEF NextEnd, RecordsetStates
  <2>1. Accounted(stream'[r], Delivered')
    BY <2>s DEF Accounted
  <2>2. rs'[r].open /\ srv'[r].phase # "stopped" =>
          \A p \in Pids : \A x \in InPartition(p) :
              Covered(x, srv'[r].cur[p]) => x \in Delivered' \/ Carries(stream'[r], x)
    BY <2>s
  <2>3. \A i \in 1 .. Len(stream'[r]) :
          stream'[r][i].kind = "fail" => srv'[r].phase = "stopped"
    BY <2>s
  <2>z. StreamAccounts' /\ HandlerAccounts' /\ FailureStopsHandler'
    BY <2>f, <2>1, <2>2, <2>3, <1>b, OthersKeepAccounts
  <2> QED
    BY <1>a, <2>c, <2>z DEF ScanInv
<1>13. ASSUME NEW r \in Recordsets, Close(r) PROVE ScanInv'
  <2>f. \A s \in Recordsets \ {r} :
          rs'[s] = rs[s] /\ srv'[s] = srv[s] /\ stream'[s] = stream[s]
    BY <1>13, <1>t DEF Close
  <2>c. PositionsSound'
    BY <1>13, PositionsStutter DEF Close, ScanInv
  <2>s. stream'[r] = <<>> /\ ~rs'[r].open
    BY <1>13, <1>t DEF Close, RecordsetStates
  <2>1. Accounted(stream'[r], Delivered')
    BY <2>s DEF Accounted
  <2>2. rs'[r].open /\ srv'[r].phase # "stopped" =>
          \A p \in Pids : \A x \in InPartition(p) :
              Covered(x, srv'[r].cur[p]) => x \in Delivered' \/ Carries(stream'[r], x)
    BY <2>s
  <2>3. \A i \in 1 .. Len(stream'[r]) :
          stream'[r][i].kind = "fail" => srv'[r].phase = "stopped"
    BY <2>s
  <2>z. StreamAccounts' /\ HandlerAccounts' /\ FailureStopsHandler'
    BY <2>f, <2>1, <2>2, <2>3, <1>b, OthersKeepAccounts
  <2> QED
    BY <1>a, <2>c, <2>z DEF ScanInv
<1>14. CASE UNCHANGED vars
  BY <1>14, <1>a DEF vars, ScanInv, PositionsSound, HandlerAccounts, StreamAccounts,
     FailureStopsHandler, Delivered
<1> QED
  BY <1>1, <1>2, <1>3, <1>4, <1>5, <1>6, <1>7, <1>8, <1>9, <1>10, <1>11, <1>12,
     <1>13, <1>14 DEF Next, Handler, NextCall, Trouble

\* No step replaces the program's filter.
LEMMA FilterFixed == [Next]_vars => filter' = filter
  BY DEF Next, vars, Scan, Handler, NextCall, Trouble, HandlerStarts, HandlerStartError,
     HandlerSendsRecord, HandlerSendsError, HandlerReturns, StreamFails, NextRecord, NextPanics,
     NextError, NextFailure, NextEnd, Close

\* Before the first request there is nothing to account for.
LEMMA InitScanInv == Init => ScanInv
<1> SUFFICES ASSUME Init PROVE ScanInv
  OBVIOUS
<1>1. TypeOK
  BY InitType
<1>2. PositionsSound
  BY DEF Init, PositionsSound, Covered, NewStatus
<1>3. HandlerAccounts
  BY DEF Init, HandlerAccounts, IdleHandler
<1>4. StreamAccounts /\ FailureStopsHandler
  BY DEF Init, StreamAccounts, Accounted, FailureStopsHandler
<1> QED BY <1>1, <1>2, <1>3, <1>4 DEF ScanInv

\* Resuming a scan never passes over a record: with a filter that starts at
\* partition 0, whatever lies at or before a stored position has been delivered
\* (Recordset.next, Client.scan, the Scan and Query handlers).
THEOREM NoRecordLost == Spec => []CursorSound
<1> DEFINE SoundFromZero == filter.begin = 0 => ScanInv
<1>1. Init => SoundFromZero
  BY InitScanInv
<1>2. SoundFromZero => CursorSound
  BY DEF ScanInv, CursorSound
<1>3. SoundFromZero /\ [Next]_vars => SoundFromZero'
  <2> SUFFICES ASSUME SoundFromZero, [Next]_vars, filter'.begin = 0 PROVE ScanInv'
    OBVIOUS
  <2>1. filter.begin = 0
    BY FilterFixed
  <2> QED
    BY <2>1, ScanStep
<1> QED
  BY <1>1, <1>2, <1>3, PTL DEF Spec

(* -------------------- what streams and pages deliver --------------------- *)

(* --------------------------- inductive invariants ------------------------- *)

\* The records of one partition are in order in the stream q.
InOrder(q) ==
    \A i, j \in 1 .. Len(q) :
        /\ i < j
        /\ q[i].kind = "rec" /\ q[j].kind = "rec"
        /\ PartitionId(q[i].rec.digest) = PartitionId(q[j].rec.digest)
        => ~Leq(q[j].rec, q[i].rec)

\* A running handler has passed the records it has sent.
Passed(q, cur) ==
    \A i \in 1 .. Len(q) :
        q[i].kind = "rec" => Covered(q[i].rec, cur[PartitionId(q[i].rec.digest)])

HandlerAhead ==
    \A r \in Recordsets :
        rs[r].open /\ srv[r].phase # "stopped" => Passed(stream[r], srv[r].cur)

OrderInv == TypeOK /\ StreamInOrder /\ HandlerAhead

\* The stream carries no error and no failure.
Clean(q) == \A i \in 1 .. Len(q) : q[i].kind \notin {"err", "fail"}

\* The end comes last, after the handler has stopped.
EndIsLast ==
    \A r \in Recordsets : \A i \in 1 .. Len(stream[r]) :
        stream[r][i].kind = "end" => i = Len(stream[r]) /\ srv[r].phase = "stopped"

Range == filter.begin .. filter.begin + filter.count - 1

\* An open recordset was asked for the partitions of the filter, and knows its limit.
Asked(r) ==
    rs[r].open => ~rs[r].ended /\ srv[r].max = rs[r].max /\ Range \subseteq srv[r].todo

\* A stream without errors counts every record, and its end means that the page
\* is limited and not empty, or that all records are delivered or in the stream.
Counted(r) ==
    rs[r].open /\ ~rs[r].erred /\ Clean(stream[r]) =>
        /\ ~srv[r].failed
        /\ srv[r].phase # "stopped" => srv[r].sent = rs[r].got + Len(stream[r])
        /\ srv[r].phase = "stopped" =>
              /\ srv[r].sent + 1 = rs[r].got + Len(stream[r])
              /\ \/ ShareUsed(r)
                 \/ \A p \in srv[r].todo : \A x \in InPartition(p) :
                       x \in Delivered \/ Carries(stream[r], x)

\* A page without a limit, or without a record, was the last one.
Completed(r) ==
    rs[r].ended /\ ~rs[r].erred /\ (rs[r].max = 0 \/ rs[r].got = 0)
    => \A p \in Range : InPartition(p) \subseteq Delivered

PageInv ==
    /\ ScanInv /\ EndIsLast
    /\ \A r \in Recordsets : Asked(r) /\ Counted(r) /\ Completed(r)

\* Before the first scan no position is stored.
FreshUntilAsked ==
    /\ (\E r \in Recordsets : rs[r].open) => inited
    /\ ~inited => \A i \in Pids : status[i].digest = NoDigest

\* The stream q carries nothing that the stored positions cover.
Unread(q, st) ==
    \A i \in 1 .. Len(q) :
        q[i].kind = "rec" => ~Covered(q[i].rec, st[PartitionId(q[i].rec.digest)])

StreamAhead == \A r \in Recordsets : Unread(stream[r], status)

\* A running handler is at or past the stored positions.
CursorBehind ==
    \A r \in Recordsets : rs[r].open /\ srv[r].phase # "stopped" =>
        \A p \in Pids : status[p].digest # NoDigest => Covered(status[p], srv[r].cur[p])

\* The stored positions cover what was delivered.
DeliveredBehind == \A x \in Delivered : Covered(x, status[PartitionId(x.digest)])

PagingInv ==
    /\ ScanInv /\ OrderInv /\ StatusHoldsOwnDigest
    /\ FreshUntilAsked /\ StreamAhead /\ CursorBehind /\ DeliveredBehind

(* -------------------------------- the order ------------------------------- *)

IsPosition(c) == c.bval \in Int \cup {NoBval} /\ c.digest \in Nat

\* Records, stored statuses and positions of handlers can all be compared.
LEMMA PositionTypes ==
    /\ \A x \in Records : IsPosition(x) /\ PartitionId(x.digest) \in Pids
    /\ \A c \in Positions : IsPosition(c)
    /\ \A s \in Statuses : IsPosition(s)
<1>1. \A x \in Records : IsPosition(x)
  BY RecordsAssumption DEF IsPosition
<1>2. \A x \in Records : PartitionId(x.digest) \in Pids
  BY <1>1, PartitionIdType DEF IsPosition
<1> QED BY <1>1, <1>2 DEF IsPosition, Positions, Statuses

LEMMA LeqTotal ==
    ASSUME NEW x, NEW y, IsPosition(x), IsPosition(y)
    PROVE  Leq(x, x) /\ (Leq(x, y) \/ Leq(y, x))
<1>1. BvalOr0(x.bval) \in Int /\ BvalOr0(y.bval) \in Int
  BY DEF BvalOr0, IsPosition
<1>2. x.digest \in Nat /\ y.digest \in Nat
  BY DEF IsPosition
<1> QED BY <1>1, <1>2 DEF Leq

LEMMA LeqTransitive ==
    ASSUME NEW x, NEW y, NEW z, IsPosition(x), IsPosition(y), IsPosition(z), Leq(x, y), Leq(y, z)
    PROVE  Leq(x, z)
<1>1. BvalOr0(x.bval) \in Int /\ BvalOr0(y.bval) \in Int /\ BvalOr0(z.bval) \in Int
  BY DEF BvalOr0, IsPosition
<1>2. x.digest \in Nat /\ y.digest \in Nat /\ z.digest \in Nat
  BY DEF IsPosition
<1> QED BY <1>1, <1>2 DEF Leq

(* ------------------------- what a step does to a recordset ----------------- *)

\* The step is on behalf of recordset r.
Frame(r) ==
    \A s \in Recordsets \ {r} : rs'[s] = rs[s] /\ srv'[s] = srv[s] /\ stream'[s] = stream[s]

\* Client.scan and Client.query start a page.
LEMMA ScanEffect ==
    ASSUME TypeOK, NEW r \in Recordsets, NEW max, Scan(r, max)
    PROVE  /\ Frame(r) /\ stream'[r] = <<>> /\ ~rs[r].open
           /\ rs'[r].open = TRUE /\ rs'[r].ended = FALSE /\ rs'[r].erred = FALSE
           /\ rs'[r].got = 0 /\ rs'[r].max = max
           /\ srv'[r].phase = "starting" /\ srv'[r].todo = RequestedIds
           /\ \A p \in Pids : srv'[r].cur[p] = RequestedPosition(p)
           /\ srv'[r].sent = 0 /\ srv'[r].max = max /\ srv'[r].failed = FALSE
           /\ inited' = TRUE /\ status' = IF inited THEN status ELSE [i \in Pids |-> NewStatus(i)]
           /\ UNCHANGED <<filter, times>>
<1>1. /\ rs' = [rs EXCEPT ![r] = [open |-> TRUE, ended |-> FALSE, erred |-> FALSE, got |-> 0, max |-> max]]
      /\ srv' = [srv EXCEPT ![r] =
                   [phase |-> "starting", todo |-> RequestedIds,
                    cur |-> [p \in Pids |-> RequestedPosition(p)],
                    sent |-> 0, max |-> max, failed |-> FALSE]]
      /\ stream' = [stream EXCEPT ![r] = <<>>]
  BY DEF Scan
<1>2. Frame(r) /\ stream'[r] = <<>>
  BY <1>1 DEF Frame, TypeOK
<1>3. rs'[r] = [open |-> TRUE, ended |-> FALSE, erred |-> FALSE, got |-> 0, max |-> max]
  BY <1>1 DEF TypeOK
<1>4. srv'[r] = [phase |-> "starting", todo |-> RequestedIds,
                 cur |-> [p \in Pids |-> RequestedPosition(p)],
                 sent |-> 0, max |-> max, failed |-> FALSE]
  BY <1>1 DEF TypeOK
<1>5. /\ inited' = TRUE /\ status' = IF inited THEN status ELSE [i \in Pids |-> NewStatus(i)]
      /\ UNCHANGED <<filter, times>> /\ ~rs[r].open
  BY DEF Scan, InitPartitionStatus
<1> QED BY <1>2, <1>3, <1>4, <1>5

\* The handler keeps its request and its position and has not been asked anything new.
SameRequest(r) ==
    /\ srv'[r].todo = srv[r].todo /\ srv'[r].max = srv[r].max
    /\ UNCHANGED <<filter, inited>>

\* Nothing reaches the program.
NothingRead(r) == UNCHANGED <<status, times>> /\ rs'[r] = rs[r]

LEMMA StartsEffect ==
    ASSUME TypeOK, NEW r \in Recordsets, HandlerStarts(r)
    PROVE  /\ Frame(r) /\ SameRequest(r) /\ NothingRead(r) /\ stream'[r] = stream[r]
           /\ srv[r].phase = "starting" /\ srv'[r].phase = "running" /\ srv'[r].cur = srv[r].cur
           /\ srv'[r].sent = srv[r].sent /\ srv'[r].failed = srv[r].failed
<1>1. /\ srv' = [srv EXCEPT ![r].phase = "running"] /\ srv[r].phase = "starting"
      /\ UNCHANGED <<filter, inited, status, rs, stream, times>>
  BY DEF HandlerStarts
<1>2. srv'[r] = [srv[r] EXCEPT !.phase = "running"] /\ srv[r] \in HandlerStates
  BY <1>1 DEF TypeOK
<1> QED BY <1>1, <1>2 DEF Frame, SameRequest, NothingRead, HandlerStates, TypeOK

LEMMA StartErrorEffect ==
    ASSUME TypeOK, NEW r \in Recordsets, HandlerStartError(r)
    PROVE  /\ Frame(r) /\ SameRequest(r) /\ NothingRead(r)
           /\ stream'[r] = Append(Append(stream[r], ErrMsg), FailMsg)
           /\ srv[r].phase = "starting" /\ srv'[r].phase = "stopped"
<1>1. /\ srv' = [srv EXCEPT ![r].phase = "stopped"] /\ srv[r].phase = "starting"
      /\ stream' = [stream EXCEPT ![r] = Append(Append(@, ErrMsg), FailMsg)]
      /\ UNCHANGED <<filter, inited, status, rs, times>>
  BY DEF HandlerStartError
<1>2. srv'[r] = [srv[r] EXCEPT !.phase = "stopped"] /\ srv[r] \in HandlerStates
  BY <1>1 DEF TypeOK
<1> QED BY <1>1, <1>2 DEF Frame, SameRequest, NothingRead, HandlerStates, TypeOK

LEMMA SendsRecordEffect ==
    ASSUME TypeOK, NEW r \in Recordsets, NEW p \in Pids, HandlerSendsRecord(r, p)
    PROVE  /\ Frame(r) /\ SameRequest(r) /\ NothingRead(r)
           /\ rs[r].open /\ srv[r].phase = "running" /\ srv'[r].phase = "running"
           /\ srv'[r].sent = srv[r].sent + 1 /\ srv'[r].failed = srv[r].failed
           /\ \E x \in Remaining(r, p) :
                 /\ \A y \in Remaining(r, p) : Leq(x, y)
                 /\ stream'[r] = Append(stream[r], RecMsg(x))
                 /\ srv'[r].cur[p] = x
                 /\ \A o \in Pids \ {p} : srv'[r].cur[o] = srv[r].cur[o]
<1>1. PICK x \in Remaining(r, p) :
         /\ \A y \in Remaining(r, p) : Leq(x, y)
         /\ stream' = [stream EXCEPT ![r] = Append(@, RecMsg(x))]
         /\ srv' = [srv EXCEPT ![r].cur[p] = x, ![r].sent = @ + 1]
  BY DEF HandlerSendsRecord
<1>2. /\ UNCHANGED <<filter, inited, status, rs, times>>
      /\ srv[r].phase = "running" /\ rs[r].open
  BY DEF HandlerSendsRecord, Room
<1>3. srv[r] \in HandlerStates /\ srv[r].cur \in [Pids -> Positions]
  BY DEF TypeOK, HandlerStates
<1>4. srv'[r] = [srv[r] EXCEPT !.cur = [srv[r].cur EXCEPT ![p] = x], !.sent = srv[r].sent + 1]
  BY <1>1 DEF TypeOK
<1>5. /\ srv'[r].cur = [srv[r].cur EXCEPT ![p] = x] /\ srv'[r].phase = srv[r].phase
      /\ srv'[r].todo = srv[r].todo /\ srv'[r].max = srv[r].max
      /\ srv'[r].sent = srv[r].sent + 1 /\ srv'[r].failed = srv[r].failed
  BY <1>3, <1>4 DEF HandlerStates
<1>6. stream'[r] = Append(stream[r], RecMsg(x))
  BY <1>1 DEF TypeOK
<1>7. Frame(r)
  BY <1>1, <1>2 DEF Frame, TypeOK
<1>8. srv'[r].cur[p] = x /\ \A o \in Pids \ {p} : srv'[r].cur[o] = srv[r].cur[o]
  BY <1>3, <1>5
<1> QED BY <1>1, <1>2, <1>5, <1>6, <1>7, <1>8 DEF SameRequest, NothingRead

LEMMA SendsErrorEffect ==
    ASSUME TypeOK, NEW r \in Recordsets, HandlerSendsError(r)
    PROVE  /\ Frame(r) /\ SameRequest(r) /\ NothingRead(r)
           /\ stream'[r] = Append(stream[r], ErrMsg)
           /\ srv[r].phase = "running" /\ srv'[r].phase = "running" /\ srv'[r].cur = srv[r].cur
<1>1. /\ srv' = [srv EXCEPT ![r].failed = TRUE] /\ srv[r].phase = "running"
      /\ stream' = [stream EXCEPT ![r] = Append(@, ErrMsg)]
      /\ UNCHANGED <<filter, inited, status, rs, times>>
  BY DEF HandlerSendsError
<1>2. srv'[r] = [srv[r] EXCEPT !.failed = TRUE] /\ srv[r] \in HandlerStates
  BY <1>1 DEF TypeOK
<1> QED BY <1>1, <1>2 DEF Frame, SameRequest, NothingRead, HandlerStates, TypeOK

LEMMA ReturnsEffect ==
    ASSUME TypeOK, NEW r \in Recordsets, HandlerReturns(r)
    PROVE  /\ Frame(r) /\ SameRequest(r) /\ NothingRead(r)
           /\ rs[r].open
           /\ stream'[r] = Append(stream[r], EndMsg)
           /\ srv[r].phase = "running" /\ srv'[r].phase = "stopped"
           /\ srv'[r].sent = srv[r].sent /\ srv'[r].failed = srv[r].failed
           /\ srv[r].failed \/ ShareUsed(r) \/ \A p \in srv[r].todo : Remaining(r, p) = {}
<1>1. /\ srv' = [srv EXCEPT ![r].phase = "stopped"] /\ srv[r].phase = "running"
      /\ stream' = [stream EXCEPT ![r] = Append(@, EndMsg)]
      /\ UNCHANGED <<filter, inited, status, rs, times>> /\ rs[r].open
      /\ srv[r].failed \/ ShareUsed(r) \/ \A p \in srv[r].todo : Remaining(r, p) = {}
  BY DEF HandlerReturns
<1>2. srv'[r] = [srv[r] EXCEPT !.phase = "stopped"] /\ srv[r] \in HandlerStates
  BY <1>1 DEF TypeOK
<1> QED BY <1>1, <1>2 DEF Frame, SameRequest, NothingRead, HandlerStates, TypeOK

LEMMA FailsEffect ==
    ASSUME TypeOK, NEW r \in Recordsets, StreamFails(r)
    PROVE  /\ Frame(r) /\ SameRequest(r) /\ NothingRead(r)
           /\ srv[r].phase # "stopped" /\ srv'[r].phase = "stopped"
           /\ \E k \in 0 .. Len(stream[r]) : stream'[r] = Append(SubSeq(stream[r], 1, k), FailMsg)
<1>1. /\ srv' = [srv EXCEPT ![r].phase = "stopped"] /\ srv[r].phase # "stopped"
      /\ UNCHANGED <<filter, inited, status, rs, times>>
  BY DEF StreamFails
<1>2. PICK k \in 0 .. Len(stream[r]) : stream' = [stream EXCEPT ![r] = Append(SubSeq(@, 1, k), FailMsg)]
  BY DEF StreamFails
<1>3. srv'[r] = [srv[r] EXCEPT !.phase = "stopped"] /\ srv[r] \in HandlerStates
  BY <1>1 DEF TypeOK
<1> QED BY <1>1, <1>2, <1>3 DEF Frame, SameRequest, NothingRead, HandlerStates, TypeOK

\* The head of the stream is read.
LEMMA ReadEffect ==
    ASSUME TypeOK, NEW r \in Recordsets, NextRecord(r)
    PROVE  /\ Frame(r) /\ SameRequest(r) /\ srv' = srv
           /\ rs[r].open /\ rs'[r].open = rs[r].open /\ rs'[r].ended = rs[r].ended
           /\ rs'[r].erred = rs[r].erred /\ rs'[r].got = rs[r].got + 1 /\ rs'[r].max = rs[r].max
           /\ stream[r] # <<>> /\ stream'[r] = Tail(stream[r])
           /\ \E x \in Records :
                 /\ Head(stream[r]) = RecMsg(x) /\ StatusIndex(x) \in Pids
                 /\ status' = [status EXCEPT ![StatusIndex(x)] =
                                 [id |-> @.id, bval |-> x.bval, digest |-> x.digest]]
                 /\ times' = [times EXCEPT ![x] = Seen(@)]
<1>1. /\ rs' = [rs EXCEPT ![r].got = @ + 1] /\ stream' = [stream EXCEPT ![r] = Tail(@)]
      /\ stream[r] # <<>> /\ Head(stream[r]).kind = "rec" /\ rs[r].open
      /\ UNCHANGED <<filter, inited, srv>>
  BY DEF NextRecord, Yields
<1>2. PICK x : x = Head(stream[r]).rec
  OBVIOUS
<1>3. /\ StatusIndex(x) \in Pids
      /\ status' = [status EXCEPT ![StatusIndex(x)] = [id |-> @.id, bval |-> x.bval, digest |-> x.digest]]
      /\ times' = [times EXCEPT ![x] = Seen(@)]
  BY <1>2 DEF NextRecord
<1>4. x \in Records /\ Head(stream[r]) = RecMsg(x)
  <2>1. Head(stream[r]) \in Messages
    BY <1>1 DEF TypeOK
  <2> QED BY <1>1, <1>2, <2>1 DEF Messages, ErrMsg, FailMsg, EndMsg, RecMsg
<1>5. rs'[r] = [rs[r] EXCEPT !.got = rs[r].got + 1] /\ rs[r] \in RecordsetStates
  BY <1>1 DEF TypeOK
<1>6. /\ rs'[r].open = rs[r].open /\ rs'[r].ended = rs[r].ended
      /\ rs'[r].erred = rs[r].erred /\ rs'[r].got = rs[r].got + 1 /\ rs'[r].max = rs[r].max
  BY <1>5 DEF RecordsetStates
<1>7. Frame(r) /\ SameRequest(r) /\ stream'[r] = Tail(stream[r])
  BY <1>1 DEF Frame, SameRequest, TypeOK
<1> QED BY <1>1, <1>3, <1>4, <1>6, <1>7

\* A step of Recordset.next or close that hands out no record.
LEMMA NoReadEffect ==
    ASSUME TypeOK, NEW r \in Recordsets,
           NextError(r) \/ NextFailure(r) \/ NextEnd(r) \/ Close(r)
    PROVE  /\ Frame(r) /\ SameRequest(r) /\ srv' = srv /\ UNCHANGED <<status, times>>
           /\ rs[r].open /\ rs'[r].got = rs[r].got /\ rs'[r].max = rs[r].max
           /\ \/ /\ rs'[r].open /\ rs'[r].erred /\ rs'[r].ended = rs[r].ended
                 /\ stream[r] # <<>>
                 /\ \/ Head(stream[r]).kind = "err" /\ stream'[r] = Tail(stream[r])
                    \/ Head(stream[r]).kind = "fail" /\ stream'[r] = <<EndMsg>>
              \/ /\ ~rs'[r].open /\ rs'[r].erred = rs[r].erred /\ stream'[r] = <<>>
                 /\ \/ rs'[r].ended = rs[r].ended
                    \/ rs'[r].ended /\ stream[r] # <<>> /\ Head(stream[r]).kind = "end"
<1>0. rs[r] \in RecordsetStates
  BY DEF TypeOK
<1>1. CASE NextError(r)
  <2>1. /\ rs' = [rs EXCEPT ![r].erred = TRUE] /\ stream' = [stream EXCEPT ![r] = Tail(@)]
        /\ stream[r] # <<>> /\ Head(stream[r]).kind = "err" /\ rs[r].open
        /\ UNCHANGED <<filter, inited, status, srv, times>>
    BY <1>1 DEF NextError, Yields
  <2>2. rs'[r] = [rs[r] EXCEPT !.erred = TRUE] /\ stream'[r] = Tail(stream[r])
    BY <2>1 DEF TypeOK
  <2>3. /\ rs'[r].open = rs[r].open /\ rs'[r].erred = TRUE /\ rs'[r].ended = rs[r].ended
        /\ rs'[r].got = rs[r].got /\ rs'[r].max = rs[r].max
    BY <1>0, <2>2 DEF RecordsetStates
  <2>4. Frame(r) /\ SameRequest(r)
    BY <2>1 DEF Frame, SameRequest, TypeOK
  <2> QED BY <2>1, <2>2, <2>3, <2>4
<1>2. CASE NextFailure(r)
  <2>1. /\ rs' = [rs EXCEPT ![r].erred = TRUE] /\ stream' = [stream EXCEPT ![r] = <<EndMsg>>]
        /\ stream[r] # <<>> /\ Head(stream[r]).kind = "fail" /\ rs[r].open
        /\ UNCHANGED <<filter, inited, status, srv, times>>
    BY <1>2 DEF NextFailure, Yields
  <2>2. rs'[r] = [rs[r] EXCEPT !.erred = TRUE] /\ stream'[r] = <<EndMsg>>
    BY <2>1 DEF TypeOK
  <2>3. /\ rs'[r].open = rs[r].open /\ rs'[r].erred = TRUE /\ rs'[r].ended = rs[r].ended
        /\ rs'[r].got = rs[r].got /\ rs'[r].max = rs[r].max
    BY <1>0, <2>2 DEF RecordsetStates
  <2>4. Frame(r) /\ SameRequest(r)
    BY <2>1 DEF Frame, SameRequest, TypeOK
  <2> QED BY <2>1, <2>2, <2>3, <2>4
<1>3. CASE NextEnd(r)
  <2>1. /\ rs' = [rs EXCEPT ![r].open = FALSE, ![r].ended = TRUE] /\ stream' = [stream EXCEPT ![r] = <<>>]
        /\ stream[r] # <<>> /\ Head(stream[r]).kind = "end" /\ rs[r].open
        /\ UNCHANGED <<filter, inited, status, srv, times>>
    BY <1>3 DEF NextEnd, Yields
  <2>2. rs'[r] = [rs[r] EXCEPT !.open = FALSE, !.ended = TRUE] /\ stream'[r] = <<>>
    BY <2>1 DEF TypeOK
  <2>3. /\ rs'[r].open = FALSE /\ rs'[r].erred = rs[r].erred /\ rs'[r].ended = TRUE
        /\ rs'[r].got = rs[r].got /\ rs'[r].max = rs[r].max
    BY <1>0, <2>2 DEF RecordsetStates
  <2>4. Frame(r) /\ SameRequest(r)
    BY <2>1 DEF Frame, SameRequest, TypeOK
  <2> QED BY <2>1, <2>2, <2>3, <2>4
<1>4. CASE Close(r)
  <2>1. /\ rs' = [rs EXCEPT ![r].open = FALSE] /\ stream' = [stream EXCEPT ![r] = <<>>] /\ rs[r].open
        /\ UNCHANGED <<filter, inited, status, srv, times>>
    BY <1>4 DEF Close
  <2>2. rs'[r] = [rs[r] EXCEPT !.open = FALSE] /\ stream'[r] = <<>>
    BY <2>1 DEF TypeOK
  <2>3. /\ rs'[r].open = FALSE /\ rs'[r].erred = rs[r].erred /\ rs'[r].ended = rs[r].ended
        /\ rs'[r].got = rs[r].got /\ rs'[r].max = rs[r].max
    BY <1>0, <2>2 DEF RecordsetStates
  <2>4. Frame(r) /\ SameRequest(r)
    BY <2>1 DEF Frame, SameRequest, TypeOK
  <2> QED BY <2>1, <2>2, <2>3, <2>4
<1> QED BY <1>1, <1>2, <1>3, <1>4

(* ------------------------------ order of a stream -------------------------- *)

\* Sending what is no record keeps a stream in order.
LEMMA OrderAppend ==
    ASSUME NEW q \in Seq(Messages), NEW m \in Messages, m.kind # "rec"
    PROVE  /\ InOrder(q) => InOrder(Append(q, m))
           /\ \A cur : Passed(q, cur) => Passed(Append(q, m), cur)
<1>1. /\ Len(Append(q, m)) = Len(q) + 1 /\ Append(q, m)[Len(q) + 1] = m /\ Len(q) \in Nat
      /\ \A i \in 1 .. Len(q) : Append(q, m)[i] = q[i]
  OBVIOUS
<1> DEFINE t == Append(q, m)
<1> HIDE DEF t
<1>3. \A i \in 1 .. Len(t) : t[i].kind = "rec" => i \in 1 .. Len(q) /\ t[i] = q[i]
  BY <1>1 DEF t
<1>4. InOrder(q) => InOrder(t)
  BY <1>3 DEF InOrder
<1>5. \A cur : Passed(q, cur) => Passed(t, cur)
  BY <1>3 DEF Passed
<1>6. InOrder(q) => InOrder(Append(q, m))
  BY <1>4 DEF t
<1>7. \A cur : Passed(q, cur) => Passed(Append(q, m), cur)
  BY <1>5 DEF t
<1> QED BY <1>6, <1>7

\* So does losing its end.
LEMMA OrderPrefix ==
    ASSUME NEW q \in Seq(Messages), NEW k \in 0 .. Len(q), InOrder(q)
    PROVE  InOrder(SubSeq(q, 1, k))
<1> DEFINE t == SubSeq(q, 1, k)
<1>1. Len(t) = k /\ (\A i \in 1 .. k : t[i] = q[i]) /\ Len(q) \in Nat
  OBVIOUS
<1> HIDE DEF t
<1>2. \A i \in 1 .. Len(t) : i \in 1 .. Len(q) /\ t[i] = q[i]
  BY <1>1
<1>3. InOrder(t)
  BY <1>2 DEF InOrder
<1> QED BY <1>3 DEF t

\* So does reading its head.
LEMMA OrderTail ==
    ASSUME NEW q \in Seq(Messages), q # <<>>
    PROVE  /\ InOrder(q) => InOrder(Tail(q))
           /\ \A cur : Passed(q, cur) => Passed(Tail(q), cur)
<1>1. /\ Len(q) \in Nat \ {0} /\ Len(Tail(q)) = Len(q) - 1
      /\ \A i \in 1 .. Len(q) - 1 : Tail(q)[i] = q[i + 1] /\ i + 1 \in 1 .. Len(q)
  OBVIOUS
<1>2. \A i, j \in 1 .. Len(q) - 1 : i < j => i + 1 < j + 1
  OBVIOUS
<1>3. InOrder(q) => InOrder(Tail(q))
  BY <1>1, <1>2 DEF InOrder
<1>4. \A cur : Passed(q, cur) => Passed(Tail(q), cur)
  BY <1>1 DEF Passed
<1> QED BY <1>3, <1>4

\* A record past the position of its handler comes after all that was sent.
LEMMA OrderExtended ==
    ASSUME NEW q \in Seq(Messages), NEW cur \in [Pids -> Positions], NEW new \in [Pids -> Positions],
           NEW x \in Records, NEW p \in Pids, p = PartitionId(x.digest),
           InOrder(q), Passed(q, cur), ~Covered(x, cur[p]),
           new[p] = x, \A o \in Pids \ {p} : new[o] = cur[o]
    PROVE  InOrder(Append(q, RecMsg(x))) /\ Passed(Append(q, RecMsg(x)), new)
<1> DEFINE t == Append(q, RecMsg(x))
<1>0. RecMsg(x).kind = "rec" /\ RecMsg(x).rec = x /\ RecMsg(x) \in Messages
  BY MessageTypes DEF RecMsg
<1>1. /\ Len(t) = Len(q) + 1 /\ t[Len(q) + 1] = RecMsg(x) /\ Len(q) \in Nat
      /\ \A i \in 1 .. Len(q) : t[i] = q[i]
  BY <1>0
<1> HIDE DEF t
<1>2. ASSUME NEW i \in 1 .. Len(q), q[i].kind = "rec"
      PROVE  /\ q[i].rec \in Records /\ PartitionId(q[i].rec.digest) \in Pids
             /\ Covered(q[i].rec, cur[PartitionId(q[i].rec.digest)])
  <2>1. q[i] \in Messages
    OBVIOUS
  <2>2. q[i].rec \in Records
    BY <1>2, <2>1 DEF Messages, ErrMsg, FailMsg, EndMsg
  <2> QED BY <1>2, <2>2, PositionTypes DEF Passed
<1>3. ASSUME NEW i \in 1 .. Len(q), q[i].kind = "rec", PartitionId(q[i].rec.digest) = p
      PROVE  ~Leq(x, q[i].rec) /\ Covered(q[i].rec, x)
  <2>1. PICK y \in Records : y = q[i].rec
    BY <1>2, <1>3
  <2>2. Covered(y, cur[p]) /\ cur[p] \in Positions
    BY <1>2, <1>3, <2>1
  <2>3. IsPosition(x) /\ IsPosition(y) /\ IsPosition(cur[p]) /\ x.digest # NoDigest
    BY <2>2, PositionTypes, RecordType
  <2>4. cur[p].digest # NoDigest /\ Leq(y, cur[p]) /\ ~Leq(x, cur[p])
    BY <2>2 DEF Covered
  <2>5. ~Leq(x, y)
    BY <2>3, <2>4, LeqTransitive
  <2>6. Leq(y, x)
    BY <2>3, <2>5, LeqTotal
  <2> QED BY <2>1, <2>3, <2>5, <2>6 DEF Covered
<1>4. InOrder(t)
  <2> SUFFICES ASSUME NEW i \in 1 .. Len(t), NEW j \in 1 .. Len(t), i < j,
                      t[i].kind = "rec", t[j].kind = "rec",
                      PartitionId(t[i].rec.digest) = PartitionId(t[j].rec.digest)
               PROVE  ~Leq(t[j].rec, t[i].rec)
    BY DEF InOrder
  <2>1. i \in 1 .. Len(q) /\ t[i] = q[i]
    BY <1>1
  <2>2. CASE j \in 1 .. Len(q)
    BY <1>1, <2>1, <2>2 DEF InOrder
  <2>3. CASE j = Len(q) + 1
    BY <1>0, <1>1, <1>3, <2>1, <2>3
  <2> QED BY <1>1, <2>2, <2>3
<1>5. Covered(x, x)
  BY PositionTypes, RecordType, LeqTotal DEF Covered
<1>6. Passed(t, new)
  <2> SUFFICES ASSUME NEW i \in 1 .. Len(t), t[i].kind = "rec"
               PROVE  Covered(t[i].rec, new[PartitionId(t[i].rec.digest)])
    BY DEF Passed
  <2>1. CASE i = Len(q) + 1
    BY <1>0, <1>1, <1>5, <2>1
  <2>2. CASE i \in 1 .. Len(q) /\ PartitionId(t[i].rec.digest) = p
    BY <1>1, <1>3, <2>2
  <2>3. CASE i \in 1 .. Len(q) /\ PartitionId(t[i].rec.digest) # p
    BY <1>1, <1>2, <2>3
  <2> QED BY <1>1, <2>1, <2>2, <2>3
<1> QED BY <1>4, <1>6 DEF t

\* A step on behalf of r has to be checked for r only.
LEMMA OthersInOrder ==
    ASSUME OrderInv, TypeOK', NEW r \in Recordsets, Frame(r), InOrder(stream'[r]),
           rs'[r].open /\ srv'[r].phase # "stopped" => Passed(stream'[r], srv'[r].cur)
    PROVE  OrderInv'
<1>1. \A s \in Recordsets : InOrder(stream'[s])
  <2> SUFFICES ASSUME NEW s \in Recordsets, s # r PROVE InOrder(stream'[s])
    OBVIOUS
  <2>1. stream'[s] = stream[s]
    BY DEF Frame
  <2>2. InOrder(stream[s])
    BY DEF OrderInv, StreamInOrder, InOrder
  <2> QED BY <2>1, <2>2
<1>2. StreamInOrder'
  BY <1>1 DEF StreamInOrder, InOrder
<1>3. HandlerAhead'
  BY DEF HandlerAhead, OrderInv, Frame
<1> QED BY <1>2, <1>3 DEF OrderInv

\* Every step keeps the streams in order, whatever the filter.
LEMMA OrderStep == OrderInv /\ [Next]_vars => OrderInv'
<1> SUFFICES ASSUME OrderInv, [Next]_vars PROVE OrderInv'
  OBVIOUS
<1>t. TypeOK /\ TypeOK'
  BY TypeStep DEF OrderInv
<1>q. \A r \in Recordsets : /\ stream[r] \in Seq(Messages) /\ InOrder(stream[r])
                            /\ srv[r].cur \in [Pids -> Positions] /\ srv'[r].cur \in [Pids -> Positions]
                            /\ rs[r].open /\ srv[r].phase # "stopped" => Passed(stream[r], srv[r].cur)
  BY <1>t DEF OrderInv, StreamInOrder, InOrder, HandlerAhead, TypeOK, HandlerStates
<1>m. /\ ErrMsg \in Messages /\ FailMsg \in Messages /\ EndMsg \in Messages
      /\ ErrMsg.kind = "err" /\ FailMsg.kind = "fail" /\ EndMsg.kind = "end"
  BY MessageTypes DEF ErrMsg, FailMsg, EndMsg
<1>e. InOrder(<<>>) /\ InOrder(<<EndMsg>>) /\ \A cur : Passed(<<>>, cur) /\ Passed(<<EndMsg>>, cur)
  <2>1. Len(<<EndMsg>>) = 1 /\ <<EndMsg>>[1] = EndMsg /\ Len(<<>>) = 0
    OBVIOUS
  <2>2. InOrder(<<EndMsg>>) /\ InOrder(<<>>)
    BY <2>1 DEF InOrder
  <2>3. \A cur : Passed(<<>>, cur)
    BY <2>1 DEF Passed
  <2>4. \A cur : Passed(<<EndMsg>>, cur)
    BY <1>m, <2>1 DEF Passed
  <2> QED BY <2>2, <2>3, <2>4
<1>1. ASSUME NEW r \in Recordsets, NEW max \in MaxRecords, Scan(r, max) PROVE OrderInv'
  BY <1>1, <1>t, <1>e, ScanEffect, OthersInOrder
<1>2. ASSUME NEW r \in Recordsets, HandlerStarts(r) PROVE OrderInv'
  <2>1. /\ Frame(r) /\ stream'[r] = stream[r] /\ srv'[r].cur = srv[r].cur
        /\ rs[r].open /\ srv[r].phase # "stopped"
    BY <1>2, <1>t, StartsEffect DEF HandlerStarts
  <2> QED BY <1>t, <1>q, <2>1, OthersInOrder
<1>3. ASSUME NEW r \in Recordsets, HandlerStartError(r) PROVE OrderInv'
  <2>1. /\ Frame(r) /\ srv'[r].phase = "stopped"
        /\ stream'[r] = Append(Append(stream[r], ErrMsg), FailMsg)
    BY <1>3, <1>t, StartErrorEffect
  <2>2. Append(stream[r], ErrMsg) \in Seq(Messages)
    BY <1>q, <1>m
  <2>3. InOrder(Append(stream[r], ErrMsg))
    BY <1>q, <1>m, OrderAppend
  <2>4. InOrder(stream'[r])
    BY <1>m, <2>1, <2>2, <2>3, OrderAppend
  <2> QED BY <1>t, <2>1, <2>4, OthersInOrder
<1>4. ASSUME NEW r \in Recordsets, NEW p \in Pids, HandlerSendsRecord(r, p) PROVE OrderInv'
  <2>1. /\ Frame(r) /\ rs[r].open /\ srv[r].phase = "running"
        /\ \E x \in Remaining(r, p) :
              /\ stream'[r] = Append(stream[r], RecMsg(x))
              /\ srv'[r].cur[p] = x
              /\ \A o \in Pids \ {p} : srv'[r].cur[o] = srv[r].cur[o]
    BY <1>4, <1>t, SendsRecordEffect
  <2>2. PICK x \in Remaining(r, p) :
              /\ stream'[r] = Append(stream[r], RecMsg(x))
              /\ srv'[r].cur[p] = x
              /\ \A o \in Pids \ {p} : srv'[r].cur[o] = srv[r].cur[o]
    BY <2>1
  <2>3. x \in Records /\ p = PartitionId(x.digest) /\ ~Covered(x, srv[r].cur[p])
    BY DEF Remaining, InPartition
  <2>4. Passed(stream[r], srv[r].cur)
    BY <1>q, <2>1
  <2>5. InOrder(stream'[r]) /\ Passed(stream'[r], srv'[r].cur)
    <3>1. /\ stream[r] \in Seq(Messages) /\ InOrder(stream[r])
          /\ srv[r].cur \in [Pids -> Positions] /\ srv'[r].cur \in [Pids -> Positions]
      BY <1>q
    <3>2. InOrder(Append(stream[r], RecMsg(x))) /\ Passed(Append(stream[r], RecMsg(x)), srv'[r].cur)
      BY <2>2, <2>3, <2>4, <3>1, OrderExtended
    <3> QED BY <2>2, <3>2
  <2> QED BY <1>t, <2>1, <2>5, OthersInOrder
<1>5. ASSUME NEW r \in Recordsets, HandlerSendsError(r) PROVE OrderInv'
  <2>1. /\ Frame(r) /\ stream'[r] = Append(stream[r], ErrMsg) /\ srv'[r].cur = srv[r].cur
        /\ rs[r].open /\ srv[r].phase # "stopped"
    BY <1>5, <1>t, SendsErrorEffect DEF HandlerSendsError, Room
  <2>2. InOrder(stream'[r]) /\ Passed(stream'[r], srv'[r].cur)
    BY <1>q, <1>m, <2>1, OrderAppend
  <2> QED BY <1>t, <2>1, <2>2, OthersInOrder
<1>6. ASSUME NEW r \in Recordsets, HandlerReturns(r) PROVE OrderInv'
  <2>1. Frame(r) /\ stream'[r] = Append(stream[r], EndMsg) /\ srv'[r].phase = "stopped"
    BY <1>6, <1>t, ReturnsEffect
  <2>2. InOrder(stream'[r])
    BY <1>q, <1>m, <2>1, OrderAppend
  <2> QED BY <1>t, <2>1, <2>2, OthersInOrder
<1>7. ASSUME NEW r \in Recordsets, StreamFails(r) PROVE OrderInv'
  <2>1. /\ Frame(r) /\ srv'[r].phase = "stopped"
        /\ \E k \in 0 .. Len(stream[r]) : stream'[r] = Append(SubSeq(stream[r], 1, k), FailMsg)
    BY <1>7, <1>t, FailsEffect
  <2>2. PICK k \in 0 .. Len(stream[r]) : stream'[r] = Append(SubSeq(stream[r], 1, k), FailMsg)
    BY <2>1
  <2>3. SubSeq(stream[r], 1, k) \in Seq(Messages) /\ InOrder(SubSeq(stream[r], 1, k))
    <3>1. SubSeq(stream[r], 1, k) \in Seq(Messages)
      BY <1>q
    <3> QED BY <1>q, <3>1, OrderPrefix
  <2>4. InOrder(stream'[r])
    BY <1>m, <2>2, <2>3, OrderAppend
  <2> QED BY <1>t, <2>1, <2>4, OthersInOrder
<1>8. ASSUME NEW r \in Recordsets, NextRecord(r) PROVE OrderInv'
  <2>1. /\ Frame(r) /\ srv' = srv /\ rs[r].open
        /\ stream[r] # <<>> /\ stream'[r] = Tail(stream[r])
    BY <1>8, <1>t, ReadEffect
  <2>2. /\ InOrder(stream'[r])
        /\ Passed(stream[r], srv[r].cur) => Passed(stream'[r], srv[r].cur)
    BY <1>q, <2>1, OrderTail
  <2> QED BY <1>t, <1>q, <2>1, <2>2, OthersInOrder
<1>9. ASSUME NEW r \in Recordsets, NextPanics(r) PROVE OrderInv'
  <2>1. Frame(r) /\ srv' = srv /\ rs' = rs /\ stream' = stream
    BY <1>9 DEF NextPanics, Frame
  <2> QED BY <1>t, <1>q, <2>1, OthersInOrder
<1>10. ASSUME NEW r \in Recordsets, NextError(r) \/ NextFailure(r) \/ NextEnd(r) \/ Close(r)
       PROVE  OrderInv'
  <2>1. /\ Frame(r) /\ srv' = srv /\ rs[r].open
        /\ \/ stream[r] # <<>> /\ stream'[r] = Tail(stream[r])
           \/ stream'[r] = <<EndMsg>> \/ stream'[r] = <<>>
    BY <1>10, <1>t, NoReadEffect
  <2>2. CASE stream'[r] = <<EndMsg>> \/ stream'[r] = <<>>
    BY <1>t, <1>e, <2>1, <2>2, OthersInOrder
  <2>3. CASE stream[r] # <<>> /\ stream'[r] = Tail(stream[r])
    <3>1. /\ InOrder(stream'[r])
          /\ Passed(stream[r], srv[r].cur) => Passed(stream'[r], srv[r].cur)
      BY <1>q, <2>3, OrderTail
    <3> QED BY <1>t, <1>q, <2>1, <3>1, OthersInOrder
  <2> QED BY <2>1, <2>2, <2>3
<1>11. CASE UNCHANGED vars
  BY <1>11, <1>t DEF vars, OrderInv, StreamInOrder, HandlerAhead, Passed
<1> QED
  BY <1>1, <1>2, <1>3, <1>4, <1>5, <1>6, <1>7, <1>8, <1>9, <1>10, <1>11
  DEF Next, Handler, NextCall, Trouble

LEMMA OrderInvariant == Spec => []OrderInv
<1>1. Init => OrderInv
  <2> SUFFICES ASSUME Init PROVE OrderInv
    OBVIOUS
  <2>1. TypeOK
    BY InitType
  <2>2. StreamInOrder /\ HandlerAhead
    BY DEF Init, StreamInOrder, HandlerAhead, ClosedRecordset
  <2> QED BY <2>1, <2>2 DEF OrderInv
<1> QED BY <1>1, OrderStep, PTL DEF Spec

\* Whatever the filter and its statuses, and whatever other recordsets do with them,
\* the stream of one request never yields a record twice or a partition out of order.
THEOREM StreamsAreInOrder == Spec => []StreamInOrder
<1>1. OrderInv => StreamInOrder
  BY DEF OrderInv
<1> QED BY <1>1, OrderInvariant, PTL

(* ---------------------------- stored positions ---------------------------- *)

\* Recordset.next stores the position of a record in the status of its partition,
\* if the filter starts at partition 0.
LEMMA ReadStatus ==
    ASSUME TypeOK, filter.begin = 0, NEW x \in Records,
           status' = [status EXCEPT ![StatusIndex(x)] = [id |-> @.id, bval |-> x.bval, digest |-> x.digest]]
    PROVE  /\ status'[PartitionId(x.digest)].bval = x.bval
           /\ status'[PartitionId(x.digest)].digest = x.digest
           /\ \A i \in Pids \ {PartitionId(x.digest)} : status'[i] = status[i]
<1>1. PartitionId(x.digest) \in Pids
  BY PositionTypes
<1>2. StatusIndex(x) = PartitionId(x.digest)
  BY <1>1 DEF StatusIndex, Pids
<1>3. status'[PartitionId(x.digest)] =
        [id |-> status[PartitionId(x.digest)].id, bval |-> x.bval, digest |-> x.digest]
  BY <1>1, <1>2 DEF TypeOK
<1> QED BY <1>1, <1>2, <1>3 DEF TypeOK

\* Only Recordset.next stores a position; a first request starts from none.
LEMMA StatusChange ==
    ASSUME TypeOK, [Next]_vars
    PROVE  \/ status' = status /\ times' = times
           \/ /\ ~inited /\ status' = [i \in Pids |-> NewStatus(i)] /\ times' = times
           \/ \E r \in Recordsets : NextRecord(r)
<1>1. ASSUME NEW r \in Recordsets, NEW max, Scan(r, max)
      PROVE  times' = times /\ (status' = status \/ (~inited /\ status' = [i \in Pids |-> NewStatus(i)]))
  BY <1>1 DEF Scan, InitPartitionStatus
<1> QED
  BY <1>1 DEF Next, Handler, NextCall, Trouble, vars, HandlerStarts, HandlerSendsRecord,
     HandlerReturns, HandlerStartError, HandlerSendsError, StreamFails, Close, NextPanics,
     NextError, NextFailure, NextEnd

LEMMA OwnDigestStep ==
    ASSUME TypeOK, filter.begin = 0, StatusHoldsOwnDigest, [Next]_vars
    PROVE  StatusHoldsOwnDigest'
<1>t. TypeOK'
  BY TypeStep
<1>1. CASE status' = status
  BY <1>1 DEF StatusHoldsOwnDigest
<1>2. CASE status' = [i \in Pids |-> NewStatus(i)]
  BY <1>2 DEF StatusHoldsOwnDigest, NewStatus
<1>3. ASSUME NEW r \in Recordsets, NextRecord(r) PROVE StatusHoldsOwnDigest'
  <2>1. PICK x \in Records :
           status' = [status EXCEPT ![StatusIndex(x)] = [id |-> @.id, bval |-> x.bval, digest |-> x.digest]]
    BY <1>3, ReadEffect
  <2>2. /\ status'[PartitionId(x.digest)].digest = x.digest
        /\ \A i \in Pids \ {PartitionId(x.digest)} : status'[i] = status[i]
    BY <2>1, ReadStatus
  <2>3. \A i \in Pids : status'[i].id = i
    BY <1>t DEF TypeOK
  <2> QED BY <2>2, <2>3 DEF StatusHoldsOwnDigest
<1> QED BY <1>1, <1>2, <1>3, StatusChange

\* The promise of the PartitionStatus class, for a filter that starts at partition 0:
\* the digest that Recordset.next stores in a status is one of the status's own
\* partition.  (For the other filters the code breaks it.)
THEOREM DigestsAreOwn == Spec => [](filter.begin = 0 => StatusHoldsOwnDigest)
<1> DEFINE Own == TypeOK /\ (filter.begin = 0 => StatusHoldsOwnDigest)
<1>1. Init => Own
  BY InitType DEF Init, StatusHoldsOwnDigest, NewStatus
<1>2. Own /\ [Next]_vars => Own'
  BY TypeStep, FilterFixed, OwnDigestStep
<1> QED BY <1>1, <1>2, PTL DEF Spec

(* ------------------------------ end of a page ------------------------------ *)

\* The end comes last in the stream q of a handler in phase ph.
EndLast(q, ph) ==
    \A i \in 1 .. Len(q) : q[i].kind = "end" => i = Len(q) /\ ph = "stopped"

\* A running handler appends.
LEMMA EndAppend ==
    ASSUME NEW q \in Seq(Messages), NEW m \in Messages, NEW ph, ph # "stopped", EndLast(q, ph), NEW new,
           m.kind = "end" => new = "stopped"
    PROVE  EndLast(Append(q, m), new)
<1> DEFINE t == Append(q, m)
<1>1. /\ Len(t) = Len(q) + 1 /\ t[Len(q) + 1] = m /\ Len(q) \in Nat
      /\ \A i \in 1 .. Len(q) : t[i] = q[i]
  OBVIOUS
<1> HIDE DEF t
<1>2. ASSUME NEW i \in 1 .. Len(t), t[i].kind = "end" PROVE i = Len(t) /\ new = "stopped"
  <2>1. CASE i \in 1 .. Len(q)
    BY <1>1, <1>2, <2>1 DEF EndLast
  <2>2. CASE i = Len(q) + 1
    BY <1>1, <1>2, <2>2
  <2> QED BY <1>1, <2>1, <2>2
<1>3. EndLast(t, new)
  BY <1>2 DEF EndLast
<1> QED BY <1>3 DEF t

\* A stream that loses its end has none.
LEMMA EndPrefix ==
    ASSUME NEW q \in Seq(Messages), NEW k \in 0 .. Len(q), NEW ph, ph # "stopped", EndLast(q, ph)
    PROVE  EndLast(SubSeq(q, 1, k), ph)
<1> DEFINE t == SubSeq(q, 1, k)
<1>1. Len(t) = k /\ (\A i \in 1 .. k : t[i] = q[i]) /\ Len(q) \in Nat
  OBVIOUS
<1> HIDE DEF t
<1>2. \A i \in 1 .. Len(t) : i \in 1 .. Len(q) /\ t[i] = q[i]
  BY <1>1
<1>3. EndLast(t, ph)
  BY <1>2 DEF EndLast
<1> QED BY <1>3 DEF t

LEMMA EndTail ==
    ASSUME NEW q \in Seq(Messages), q # <<>>, NEW ph, EndLast(q, ph)
    PROVE  EndLast(Tail(q), ph)
<1> DEFINE t == Tail(q)
<1>1. /\ Len(q) \in Nat \ {0} /\ Len(t) = Len(q) - 1
      /\ \A i \in 1 .. Len(q) - 1 : t[i] = q[i + 1] /\ i + 1 \in 1 .. Len(q)
  OBVIOUS
<1> HIDE DEF t
<1>2. ASSUME NEW i \in 1 .. Len(t), t[i].kind = "end" PROVE i = Len(t) /\ ph = "stopped"
  <2>1. q[i + 1].kind = "end" /\ i + 1 \in 1 .. Len(q)
    BY <1>1, <1>2
  <2>2. i + 1 = Len(q) /\ ph = "stopped"
    BY <2>1 DEF EndLast
  <2> QED BY <1>1, <2>2
<1>3. EndLast(t, ph)
  BY <1>2 DEF EndLast
<1> QED BY <1>3 DEF t

LEMMA CleanAppend ==
    ASSUME NEW q \in Seq(Messages), NEW m \in Messages, Clean(Append(q, m))
    PROVE  Clean(q) /\ m.kind \notin {"err", "fail"}
<1>1. /\ Len(Append(q, m)) = Len(q) + 1 /\ Append(q, m)[Len(q) + 1] = m /\ Len(q) \in Nat
      /\ \A i \in 1 .. Len(q) : Append(q, m)[i] = q[i] /\ i \in 1 .. Len(q) + 1
  OBVIOUS
<1>2. m.kind \notin {"err", "fail"}
  BY <1>1 DEF Clean
<1>3. Clean(q)
  BY <1>1 DEF Clean
<1> QED BY <1>2, <1>3

LEMMA CleanTail ==
    ASSUME NEW q \in Seq(Messages), q # <<>>, Clean(Tail(q)), Head(q).kind = "rec"
    PROVE  Clean(q)
<1> DEFINE t == Tail(q)
<1>1. /\ Len(q) \in Nat \ {0} /\ Len(t) = Len(q) - 1 /\ Head(q) = q[1]
      /\ \A i \in 2 .. Len(q) : q[i] = t[i - 1] /\ i - 1 \in 1 .. Len(t)
  OBVIOUS
<1>2. Clean(t)
  OBVIOUS
<1> HIDE DEF t
<1> SUFFICES ASSUME NEW i \in 1 .. Len(q) PROVE q[i].kind \notin {"err", "fail"}
  BY DEF Clean
<1>3. CASE i = 1
  BY <1>1, <1>3
<1>4. CASE i \in 2 .. Len(q)
  BY <1>1, <1>2, <1>4 DEF Clean
<1> QED BY <1>1, <1>3, <1>4

\* A step on behalf of r has to be checked for r only.
LEMMA OthersPage ==
    ASSUME PageInv, ScanInv', filter' = filter, Delivered \subseteq Delivered',
           NEW r \in Recordsets, Frame(r), EndLast(stream'[r], srv'[r].phase),
           Asked(r)', Counted(r)', Completed(r)'
    PROVE  PageInv'
<1>1. ASSUME NEW s \in Recordsets, s # r
      PROVE  /\ rs'[s] = rs[s] /\ srv'[s] = srv[s] /\ stream'[s] = stream[s]
             /\ Asked(s) /\ Counted(s) /\ Completed(s)
  BY <1>1 DEF PageInv, Frame
<1>2. EndIsLast'
  BY <1>1 DEF EndIsLast, EndLast, PageInv
<1>3. \A s \in Recordsets : Asked(s)'
  BY <1>1 DEF Asked, Range
<1>4. ASSUME NEW s \in Recordsets PROVE Counted(s)'
  <2>1. CASE s = r
    BY <2>1
  <2>2. CASE s # r
    <3>1. Counted(s) /\ rs'[s] = rs[s] /\ srv'[s] = srv[s] /\ stream'[s] = stream[s]
      BY <1>1, <2>2
    <3> QED BY <3>1 DEF Counted, ShareUsed
  <2> QED BY <2>1, <2>2
<1>5. \A s \in Recordsets : Completed(s)'
  BY <1>1 DEF Completed, Range
<1> QED BY <1>2, <1>3, <1>4, <1>5 DEF PageInv

\* A request names the partitions of its filter.
LEMMA RangeRequested ==
    ASSUME TypeOK
    PROVE  Range \subseteq RequestedIds
<1>1. CASE inited
  <2>1. \A p \in Pids : status[p].id = p
    BY DEF TypeOK
  <2>2. Range \subseteq Pids
    <3>1. /\ filter.begin \in Pids /\ filter.count \in 1 .. PARTITIONS
          /\ filter.begin + filter.count <= PARTITIONS
      BY FiltersAssumption DEF TypeOK
    <3> QED BY <3>1, PartitionsAssumption DEF Range, Pids
  <2>3. Pids \subseteq RequestedIds
    BY <1>1, <2>1 DEF RequestedIds
  <2> QED BY <2>2, <2>3
<1>2. CASE ~inited
  BY <1>2 DEF RequestedIds, Range
<1> QED BY <1>1, <1>2

\* The end of a page that closes the recordset, unlimited or empty and without an
\* exception, means that the program has received all.
LEMMA EndMeansAll ==
    ASSUME PageInv, NEW r \in Recordsets, rs[r].open, ~rs[r].erred,
           stream[r] # <<>>, Head(stream[r]).kind = "end", rs[r].max = 0 \/ rs[r].got = 0
    PROVE  \A p \in Range : InPartition(p) \subseteq Delivered
<1> DEFINE q == stream[r]
<1>1. /\ q \in Seq(Messages) /\ rs[r].got \in Nat /\ rs[r].max \in Nat /\ srv[r].sent \in Nat
      /\ srv[r].max \in Nat
  BY DEF PageInv, ScanInv, TypeOK, RecordsetStates, HandlerStates
<1>2. Len(q) \in Nat \ {0} /\ q[1].kind = "end"
  BY <1>1
<1>3. Len(q) = 1 /\ srv[r].phase = "stopped"
  <2>1. 1 \in 1 .. Len(stream[r]) /\ stream[r][1].kind = "end"
    BY <1>2
  <2>2. 1 = Len(stream[r]) /\ srv[r].phase = "stopped"
    BY <2>1 DEF PageInv, EndIsLast
  <2> QED BY <2>2
<1>4. Clean(q)
  BY <1>2, <1>3 DEF Clean
<1>5. Asked(r) /\ Counted(r)
  BY DEF PageInv
<1>6. /\ srv[r].sent + 1 = rs[r].got + Len(q)
      /\ \/ ShareUsed(r)
         \/ \A p \in srv[r].todo : \A x \in InPartition(p) : x \in Delivered \/ Carries(q, x)
  BY <1>3, <1>4, <1>5 DEF Counted
<1>7. srv[r].max = rs[r].max /\ Range \subseteq srv[r].todo
  BY <1>5 DEF Asked
<1>8. ~ShareUsed(r)
  BY <1>1, <1>3, <1>6, <1>7 DEF ShareUsed
<1>9. \A x : ~Carries(q, x)
  BY <1>2, <1>3 DEF Carries, RecMsg
<1>10. \A p \in srv[r].todo : \A x \in InPartition(p) : x \in Delivered
  BY <1>6, <1>8, <1>9
<1> QED BY <1>7, <1>10

\* Every step keeps the account of every page.
LEMMA PageStep == filter.begin = 0 /\ PageInv /\ [Next]_vars => PageInv'
<1> SUFFICES ASSUME filter.begin = 0, PageInv, [Next]_vars PROVE PageInv'
  OBVIOUS
<1>t. TypeOK /\ TypeOK' /\ ScanInv /\ ScanInv'
  BY ScanStep DEF PageInv, ScanInv
<1>d. Delivered \subseteq Delivered' /\ filter' = filter
  BY <1>t, DeliveredGrows, FilterFixed
<1>q. \A r \in Recordsets :
         /\ stream[r] \in Seq(Messages) /\ Len(stream[r]) \in Nat /\ EndLast(stream[r], srv[r].phase)
         /\ rs[r].got \in Nat /\ srv[r].sent \in Nat
         /\ Asked(r) /\ Counted(r) /\ Completed(r)
  BY <1>t DEF PageInv, EndIsLast, EndLast, TypeOK, RecordsetStates, HandlerStates
<1>m. /\ ErrMsg \in Messages /\ FailMsg \in Messages /\ EndMsg \in Messages
      /\ ErrMsg.kind = "err" /\ FailMsg.kind = "fail" /\ EndMsg.kind = "end"
  BY MessageTypes DEF ErrMsg, FailMsg, EndMsg
<1>e. Len(<<>>) = 0 /\ \A ph : EndLast(<<>>, ph)
  BY DEF EndLast
<1>1. ASSUME NEW r \in Recordsets, NEW max \in MaxRecords, Scan(r, max) PROVE PageInv'
  <2>1. /\ Frame(r) /\ stream'[r] = <<>>
        /\ rs'[r].open = TRUE /\ rs'[r].ended = FALSE /\ rs'[r].got = 0 /\ rs'[r].max = max
        /\ srv'[r].phase = "starting" /\ srv'[r].todo = RequestedIds
        /\ srv'[r].sent = 0 /\ srv'[r].max = max /\ srv'[r].failed = FALSE
    BY <1>1, <1>t, ScanEffect
  <2>2. Range' \subseteq srv'[r].todo
    BY <1>t, <1>d, <2>1, RangeRequested DEF Range
  <2>3. Asked(r)' /\ Completed(r)'
    BY <2>1, <2>2 DEF Asked, Completed
  <2>4. Counted(r)'
    BY <1>e, <2>1 DEF Counted
  <2>5. EndLast(stream'[r], srv'[r].phase)
    BY <1>e, <2>1
  <2> QED BY <1>t, <1>d, <2>1, <2>3, <2>4, <2>5, OthersPage
\* A step of the handler leaves the recordset as it is.
<1>h. ASSUME NEW r \in Recordsets, SameRequest(r), NothingRead(r)
      PROVE  Asked(r)' /\ Completed(r)'
  BY <1>q, <1>h DEF SameRequest, NothingRead, Asked, Completed, Range, Delivered
\* A stream with an error needs no account.
<1>n. ASSUME NEW r \in Recordsets, ~Clean(stream'[r]) PROVE Counted(r)'
  BY <1>n DEF Counted
<1>2. ASSUME NEW r \in Recordsets, HandlerStarts(r) PROVE PageInv'
  <2>1. /\ Frame(r) /\ SameRequest(r) /\ NothingRead(r) /\ stream'[r] = stream[r]
        /\ srv[r].phase = "starting" /\ srv'[r].phase = "running"
        /\ srv'[r].sent = srv[r].sent /\ srv'[r].failed = srv[r].failed
    BY <1>2, <1>t, StartsEffect
  <2>2. EndLast(stream'[r], srv'[r].phase)
    <3>1. EndLast(stream[r], "starting")
      BY <1>q, <2>1
    <3> QED BY <2>1, <3>1 DEF EndLast
  <2>3. Counted(r)'
    <3>1. Counted(r) /\ rs'[r] = rs[r]
      BY <1>q, <2>1 DEF NothingRead
    <3> QED BY <2>1, <3>1 DEF Counted
  <2> QED BY <1>t, <1>d, <1>h, <2>1, <2>2, <2>3, OthersPage
<1>3. ASSUME NEW r \in Recordsets, HandlerStartError(r) PROVE PageInv'
  <2>1. /\ Frame(r) /\ SameRequest(r) /\ NothingRead(r)
        /\ stream'[r] = Append(Append(stream[r], ErrMsg), FailMsg)
        /\ srv[r].phase = "starting" /\ srv'[r].phase = "stopped"
    BY <1>3, <1>t, StartErrorEffect
  <2>2. Append(stream[r], ErrMsg) \in Seq(Messages)
    BY <1>q, <1>m
  <2>3. EndLast(stream[r], "starting") /\ stream[r] \in Seq(Messages)
    BY <1>q, <2>1
  <2>4. EndLast(Append(stream[r], ErrMsg), "starting")
    BY <1>m, <2>3, EndAppend
  <2>5. EndLast(stream'[r], srv'[r].phase)
    BY <1>m, <2>1, <2>2, <2>4, EndAppend
  <2>6. ~Clean(stream'[r])
    BY <1>m, <2>1, <2>2, CleanAppend
  <2> QED BY <1>t, <1>d, <1>h, <1>n, <2>1, <2>5, <2>6, OthersPage
<1>4. ASSUME NEW r \in Recordsets, NEW p \in Pids, HandlerSendsRecord(r, p) PROVE PageInv'
  <2>1. /\ Frame(r) /\ SameRequest(r) /\ NothingRead(r)
        /\ srv[r].phase = "running" /\ srv'[r].phase = "running"
        /\ srv'[r].sent = srv[r].sent + 1 /\ srv'[r].failed = srv[r].failed
        /\ \E x \in Remaining(r, p) : stream'[r] = Append(stream[r], RecMsg(x))
    BY <1>4, <1>t, SendsRecordEffect
  <2>2. PICK x \in Remaining(r, p) : stream'[r] = Append(stream[r], RecMsg(x))
    BY <2>1
  <2>3. RecMsg(x) \in Messages /\ RecMsg(x).kind = "rec"
    BY MessageTypes DEF Remaining, InPartition, RecMsg
  <2>4. /\ EndLast(stream[r], "running") /\ stream[r] \in Seq(Messages) /\ Len(stream[r]) \in Nat
        /\ rs[r].got \in Nat /\ srv[r].sent \in Nat /\ Counted(r)
    BY <1>q, <2>1
  <2>5. EndLast(stream'[r], srv'[r].phase)
    BY <2>1, <2>2, <2>3, <2>4, EndAppend
  <2>6. Len(stream'[r]) = Len(stream[r]) + 1
    BY <2>2, <2>3, <2>4
  <2>7. Clean(stream'[r]) => Clean(stream[r])
    BY <2>2, <2>3, <2>4, CleanAppend
  <2>8. Counted(r)'
    <3>1. rs'[r] = rs[r]
      BY <2>1 DEF NothingRead
    <3> SUFFICES ASSUME rs[r].open, ~rs[r].erred, Clean(stream'[r]) PROVE Counted(r)'
      BY <3>1 DEF Counted
    <3>2. ~srv[r].failed /\ srv[r].sent = rs[r].got + Len(stream[r])
      BY <2>1, <2>4, <2>7 DEF Counted
    <3>3. ~srv'[r].failed /\ srv'[r].sent = rs'[r].got + Len(stream'[r])
      BY <2>1, <2>4, <2>6, <3>1, <3>2
    <3> QED BY <2>1, <3>3 DEF Counted
  <2> QED BY <1>t, <1>d, <1>h, <2>1, <2>5, <2>8, OthersPage
<1>5. ASSUME NEW r \in Recordsets, HandlerSendsError(r) PROVE PageInv'
  <2>1. /\ Frame(r) /\ SameRequest(r) /\ NothingRead(r) /\ stream'[r] = Append(stream[r], ErrMsg)
        /\ srv[r].phase = "running" /\ srv'[r].phase = "running"
    BY <1>5, <1>t, SendsErrorEffect
  <2>2. EndLast(stream[r], "running") /\ stream[r] \in Seq(Messages)
    BY <1>q, <2>1
  <2>3. EndLast(stream'[r], srv'[r].phase)
    BY <1>m, <2>1, <2>2, EndAppend
  <2>4. ~Clean(stream'[r])
    BY <1>m, <2>1, <2>2, CleanAppend
  <2> QED BY <1>t, <1>d, <1>h, <1>n, <2>1, <2>3, <2>4, OthersPage
<1>6. ASSUME NEW r \in Recordsets, HandlerReturns(r) PROVE PageInv'
  <2>1. /\ Frame(r) /\ SameRequest(r) /\ NothingRead(r) /\ rs[r].open
        /\ stream'[r] = Append(stream[r], EndMsg)
        /\ srv[r].phase = "running" /\ srv'[r].phase = "stopped"
        /\ srv'[r].sent = srv[r].sent /\ srv'[r].failed = srv[r].failed
        /\ srv[r].failed \/ ShareUsed(r) \/ \A p \in srv[r].todo : Remaining(r, p) = {}
    BY <1>6, <1>t, ReturnsEffect
  <2>2. /\ EndLast(stream[r], "running") /\ stream[r] \in Seq(Messages) /\ Len(stream[r]) \in Nat
        /\ rs[r].got \in Nat /\ srv[r].sent \in Nat /\ Counted(r)
    BY <1>q, <2>1
  <2>3. EndLast(stream'[r], srv'[r].phase)
    BY <1>m, <2>1, <2>2, EndAppend
  <2>4. Clean(stream'[r]) => Clean(stream[r])
    BY <1>m, <2>1, <2>2, CleanAppend
  <2>5. Len(stream'[r]) = Len(stream[r]) + 1
    BY <1>m, <2>1, <2>2
  <2>6. \A x : Carries(stream[r], x) => Carries(stream'[r], x)
    BY <1>m, <2>1, <2>2, CarriesAppend
  <2>7. ASSUME \A p \in srv[r].todo : Remaining(r, p) = {}
        PROVE  \A p \in srv[r].todo : \A x \in InPartition(p) : x \in Delivered \/ Carries(stream[r], x)
    <3> SUFFICES ASSUME NEW p \in srv[r].todo, NEW x \in InPartition(p)
                 PROVE  x \in Delivered \/ Carries(stream[r], x)
      OBVIOUS
    <3>1. p \in Pids
      BY <1>t DEF TypeOK, HandlerStates
    <3>2. Covered(x, srv[r].cur[p])
      BY <2>7 DEF Remaining
    <3> QED BY <1>t, <2>1, <3>1, <3>2 DEF ScanInv, HandlerAccounts
  <2>8. Counted(r)'
    <3>1. rs'[r] = rs[r] /\ Delivered' = Delivered /\ srv'[r].todo = srv[r].todo /\ srv'[r].max = srv[r].max
      BY <2>1 DEF NothingRead, SameRequest, Delivered
    <3> SUFFICES ASSUME ~rs[r].erred, Clean(stream'[r]) PROVE Counted(r)'
      BY <3>1 DEF Counted
    <3>2. ~srv[r].failed /\ srv[r].sent = rs[r].got + Len(stream[r])
      BY <2>1, <2>2, <2>4 DEF Counted
    <3>3. ~srv'[r].failed /\ srv'[r].sent + 1 = rs'[r].got + Len(stream'[r])
      BY <2>1, <2>2, <2>5, <3>1, <3>2
    <3>4. \/ ShareUsed(r)'
          \/ \A p \in srv'[r].todo : \A x \in InPartition(p) : x \in Delivered' \/ Carries(stream'[r], x)
      <4>1. CASE ShareUsed(r)
        BY <2>1, <3>1, <4>1 DEF ShareUsed
      <4>2. CASE \A p \in srv[r].todo : Remaining(r, p) = {}
        BY <2>6, <2>7, <3>1, <4>2
      <4> QED BY <2>1, <3>2, <4>1, <4>2
    <3> QED BY <2>1, <3>3, <3>4 DEF Counted
  <2> QED BY <1>t, <1>d, <1>h, <2>1, <2>3, <2>8, OthersPage
<1>7. ASSUME NEW r \in Recordsets, StreamFails(r) PROVE PageInv'
  <2>1. /\ Frame(r) /\ SameRequest(r) /\ NothingRead(r)
        /\ srv[r].phase # "stopped" /\ srv'[r].phase = "stopped"
        /\ \E k \in 0 .. Len(stream[r]) : stream'[r] = Append(SubSeq(stream[r], 1, k), FailMsg)
    BY <1>7, <1>t, FailsEffect
  <2>2. PICK k \in 0 .. Len(stream[r]) : stream'[r] = Append(SubSeq(stream[r], 1, k), FailMsg)
    BY <2>1
  <2>3. SubSeq(stream[r], 1, k) \in Seq(Messages)
    BY <1>q
  <2>4. EndLast(SubSeq(stream[r], 1, k), srv[r].phase)
    BY <1>q, <2>1, EndPrefix
  <2>5. EndLast(stream'[r], srv'[r].phase)
    BY <1>m, <2>1, <2>2, <2>3, <2>4, EndAppend
  <2>6. ~Clean(stream'[r])
    BY <1>m, <2>2, <2>3, CleanAppend
  <2> QED BY <1>t, <1>d, <1>h, <1>n, <2>1, <2>5, <2>6, OthersPage
<1>8. ASSUME NEW r \in Recordsets, NextRecord(r) PROVE PageInv'
  <2>1. /\ Frame(r) /\ SameRequest(r) /\ srv' = srv
        /\ rs[r].open /\ rs'[r].open = rs[r].open /\ rs'[r].ended = rs[r].ended
        /\ rs'[r].erred = rs[r].erred /\ rs'[r].got = rs[r].got + 1 /\ rs'[r].max = rs[r].max
        /\ stream[r] # <<>> /\ stream'[r] = Tail(stream[r])
        /\ \E x \in Records : Head(stream[r]) = RecMsg(x) /\ times' = [times EXCEPT ![x] = Seen(@)]
    BY <1>8, <1>t, ReadEffect
  <2>2. PICK x \in Records : Head(stream[r]) = RecMsg(x) /\ times' = [times EXCEPT ![x] = Seen(@)]
    BY <2>1
  <2>3. /\ EndLast(stream[r], srv[r].phase) /\ stream[r] \in Seq(Messages) /\ Len(stream[r]) \in Nat
        /\ rs[r].got \in Nat /\ srv[r].sent \in Nat /\ Counted(r) /\ Asked(r)
    BY <1>q
  <2>4. EndLast(stream'[r], srv'[r].phase)
    BY <2>1, <2>3, EndTail
  <2>5. Clean(stream'[r]) => Clean(stream[r])
    <3>1. Head(stream[r]).kind = "rec"
      BY <2>2 DEF RecMsg
    <3> QED BY <2>1, <2>3, <3>1, CleanTail
  <2>6. Len(stream[r]) = Len(stream'[r]) + 1 /\ Len(stream'[r]) \in Nat
    BY <2>1, <2>3
  <2>7. x \in Delivered'
    BY <1>t, <2>2 DEF Delivered, TypeOK, Seen
  <2>8. \A y \in Records : Carries(stream[r], y) => y \in Delivered' \/ Carries(stream'[r], y)
    <3> SUFFICES ASSUME NEW y \in Records, Carries(stream[r], y)
                 PROVE  y \in Delivered' \/ Carries(stream'[r], y)
      OBVIOUS
    <3>1. Head(stream[r]) = RecMsg(y) \/ Carries(stream'[r], y)
      BY <2>1, <2>3, CarriesTail
    <3>2. Head(stream[r]) = RecMsg(y) => x = y
      BY <2>2 DEF RecMsg
    <3> QED BY <2>7, <3>1, <3>2
  <2>9. Asked(r)' /\ Completed(r)'
    BY <2>1, <2>3 DEF Asked, Completed, SameRequest, Range
  <2>10. Counted(r)'
    <3> SUFFICES ASSUME ~rs[r].erred, Clean(stream'[r]) PROVE Counted(r)'
      BY <2>1 DEF Counted
    <3>1. ~srv'[r].failed
      BY <2>1, <2>3, <2>5 DEF Counted
    <3>2. CASE srv[r].phase # "stopped"
      <4>1. srv[r].sent = rs[r].got + Len(stream[r])
        BY <2>1, <2>3, <2>5, <3>2 DEF Counted
      <4>2. srv'[r].sent = rs'[r].got + Len(stream'[r])
        BY <2>1, <2>3, <2>6, <4>1
      <4> QED BY <2>1, <3>1, <3>2, <4>2 DEF Counted
    <3>3. CASE srv[r].phase = "stopped"
      <4>1. /\ srv[r].sent + 1 = rs[r].got + Len(stream[r])
            /\ \/ ShareUsed(r)
               \/ \A p \in srv[r].todo : \A y \in InPartition(p) : y \in Delivered \/ Carries(stream[r], y)
        BY <2>1, <2>3, <2>5, <3>3 DEF Counted
      <4>2. srv'[r].sent + 1 = rs'[r].got + Len(stream'[r])
        BY <2>1, <2>3, <2>6, <4>1
      <4>3. \/ ShareUsed(r)'
            \/ \A p \in srv'[r].todo : \A y \in InPartition(p) : y \in Delivered' \/ Carries(stream'[r], y)
        BY <1>d, <2>1, <2>8, <4>1 DEF ShareUsed, InPartition
      <4> QED BY <2>1, <3>1, <3>3, <4>2, <4>3 DEF Counted
    <3> QED BY <3>2, <3>3
  <2> QED BY <1>t, <1>d, <2>1, <2>4, <2>9, <2>10, OthersPage
<1>9. ASSUME NEW r \in Recordsets, NextPanics(r) PROVE PageInv'
  <2>1. UNCHANGED <<filter, rs, srv, stream, times>>
    BY <1>9 DEF NextPanics
  <2> QED BY <1>t, <2>1 DEF PageInv, EndIsLast, Asked, Counted, Completed, Range, ShareUsed, Delivered
<1>10. ASSUME NEW r \in Recordsets, NextError(r) \/ NextFailure(r) \/ NextEnd(r) \/ Close(r)
       PROVE  PageInv'
  <2>1. /\ Frame(r) /\ SameRequest(r) /\ srv' = srv /\ UNCHANGED <<status, times>>
        /\ rs[r].open /\ rs'[r].got = rs[r].got /\ rs'[r].max = rs[r].max
        /\ \/ /\ rs'[r].open /\ rs'[r].erred /\ rs'[r].ended = rs[r].ended
              /\ stream[r] # <<>>
              /\ \/ Head(stream[r]).kind = "err" /\ stream'[r] = Tail(stream[r])
                 \/ Head(stream[r]).kind = "fail" /\ stream'[r] = <<EndMsg>>
           \/ /\ ~rs'[r].open /\ rs'[r].erred = rs[r].erred /\ stream'[r] = <<>>
              /\ \/ rs'[r].ended = rs[r].ended
                 \/ rs'[r].ended /\ stream[r] # <<>> /\ Head(stream[r]).kind = "end"
    BY <1>10, <1>t, NoReadEffect
  <2>2. Asked(r) /\ Counted(r) /\ stream[r] \in Seq(Messages) /\ EndLast(stream[r], srv[r].phase)
    BY <1>q
  <2>3. ~rs[r].ended /\ Delivered' = Delivered /\ Range' = Range
    BY <1>d, <2>1, <2>2 DEF Asked, Delivered, Range
  <2>4. CASE /\ rs'[r].open /\ rs'[r].erred /\ rs'[r].ended = rs[r].ended /\ stream[r] # <<>>
             /\ \/ Head(stream[r]).kind = "err" /\ stream'[r] = Tail(stream[r])
                \/ Head(stream[r]).kind = "fail" /\ stream'[r] = <<EndMsg>>
    <3>1. Asked(r)' /\ Counted(r)' /\ Completed(r)'
      BY <2>1, <2>2, <2>3, <2>4 DEF Asked, Counted, Completed, SameRequest
    <3>2. CASE stream'[r] = Tail(stream[r])
      BY <1>t, <1>d, <2>1, <2>2, <2>4, <3>1, <3>2, EndTail, OthersPage
    <3>3. CASE Head(stream[r]).kind = "fail" /\ stream'[r] = <<EndMsg>>
      <4>1. 1 \in 1 .. Len(stream[r]) /\ stream[r][1].kind = "fail"
        BY <2>2, <2>4, <3>3
      <4>2. srv'[r].phase = "stopped"
        BY <1>t, <2>1, <4>1 DEF ScanInv, FailureStopsHandler
      <4>3. EndLast(stream'[r], srv'[r].phase)
        BY <3>3, <4>2 DEF EndLast
      <4> QED BY <1>t, <1>d, <2>1, <3>1, <4>3, OthersPage
    <3> QED BY <2>4, <3>2, <3>3
  <2>5. CASE /\ ~rs'[r].open /\ rs'[r].erred = rs[r].erred /\ stream'[r] = <<>>
             /\ \/ rs'[r].ended = rs[r].ended
                \/ rs'[r].ended /\ stream[r] # <<>> /\ Head(stream[r]).kind = "end"
    <3>1. Asked(r)' /\ Counted(r)'
      BY <2>5 DEF Asked, Counted
    <3>2. Completed(r)'
      <4> SUFFICES ASSUME rs'[r].ended, ~rs'[r].erred, rs'[r].max = 0 \/ rs'[r].got = 0
                   PROVE  \A p \in Range : InPartition(p) \subseteq Delivered
        BY <2>3 DEF Completed
      <4> QED BY <2>1, <2>3, <2>5, EndMeansAll
    <3>3. EndLast(stream'[r], srv'[r].phase)
      BY <1>e, <2>5
    <3> QED BY <1>t, <1>d, <2>1, <3>1, <3>2, <3>3, OthersPage
  <2> QED BY <2>1, <2>4, <2>5
<1>11. CASE UNCHANGED vars
  BY <1>11, <1>t DEF vars, PageInv, EndIsLast, Asked, Counted, Completed, Range, ShareUsed, Delivered
<1> QED
  BY <1>1, <1>2, <1>3, <1>4, <1>5, <1>6, <1>7, <1>8, <1>9, <1>10, <1>11
  DEF Next, Handler, NextCall, Trouble

\* A page that ends without an exception, and has no limit or no record, was the last
\* one: `None` from Recordset.next then means that every record of the filter has arrived,
\* if the filter starts at partition 0, however many recordsets share it.
THEOREM EndOfLastPage == Spec => []LastPageComplete
<1> DEFINE PagedFromZero == filter.begin = 0 => PageInv
<1>1. Init => PagedFromZero
  <2> SUFFICES ASSUME Init, filter.begin = 0 PROVE PageInv
    OBVIOUS
  <2>1. ScanInv
    BY InitScanInv
  <2>2. EndIsLast /\ \A r \in Recordsets : Asked(r) /\ Counted(r) /\ Completed(r)
    BY DEF Init, EndIsLast, Asked, Counted, Completed, ClosedRecordset
  <2> QED BY <2>1, <2>2 DEF PageInv
<1>2. PagedFromZero /\ [Next]_vars => PagedFromZero'
  BY PageStep, FilterFixed
<1>3. PagedFromZero => LastPageComplete
  BY DEF PageInv, Completed, LastPageComplete, Range
<1> QED BY <1>1, <1>2, <1>3, PTL DEF Spec

(* ------------------------ one recordset at a time -------------------------- *)

\* The program reads one recordset at a time, as in the loop of pages that the
\* README shows: scan, next until null, scan again on the same filter.
OneAtATime == \A r, s \in Recordsets : r = s

\* Two positions cover the same records when they compare alike.
LEMMA SamePosition ==
    ASSUME NEW c, NEW d, c.digest = d.digest, BvalOr0(c.bval) = BvalOr0(d.bval)
    PROVE  /\ \A x : Leq(x, c) <=> Leq(x, d)
           /\ \A x : Leq(c, x) <=> Leq(d, x)
           /\ \A x : Covered(x, c) <=> Covered(x, d)
  BY DEF Covered, Leq

\* What is past a position that covers c is past c.
LEMMA PastCovers ==
    ASSUME NEW c, NEW d, NEW x, IsPosition(c), IsPosition(d), IsPosition(x),
           c.digest # NoDigest => Covered(c, d), ~Covered(x, d), x.digest # NoDigest
    PROVE  /\ ~Covered(x, c)
           /\ c.digest # NoDigest => Covered(c, x)
<1>1. ~Covered(x, c)
  <2> SUFFICES ASSUME Covered(x, c) PROVE FALSE
    OBVIOUS
  <2>1. c.digest # NoDigest /\ Leq(x, c)
    BY DEF Covered
  <2>2. d.digest # NoDigest /\ Leq(c, d)
    BY <2>1 DEF Covered
  <2>3. Leq(x, d)
    BY <2>1, <2>2, LeqTransitive
  <2> QED BY <2>2, <2>3 DEF Covered
<1>2. ASSUME c.digest # NoDigest PROVE Covered(c, x)
  <2>1. ~Leq(x, c)
    BY <1>1, <1>2 DEF Covered
  <2>2. Leq(c, x)
    BY <2>1, LeqTotal
  <2> QED BY <2>2 DEF Covered
<1> QED BY <1>1, <1>2

\* A request asks for what comes after the stored position.
LEMMA RequestCovers ==
    ASSUME TypeOK, inited, NEW p \in Pids, status[p].digest # NoDigest
    PROVE  Covered(status[p], RequestedPosition(p))
<1>1. \A i \in Pids : status[i].id = p <=> i = p
  BY DEF TypeOK
<1>2. (CHOOSE i \in Pids : status[i].id = p) = p
  BY <1>1
<1>3. RequestedPosition(p) = [bval |-> BvalOr0(status[p].bval), digest |-> status[p].digest]
  BY <1>1, <1>2 DEF RequestedPosition
<1>4. status[p].bval \in Int \cup {NoBval} /\ status[p].digest \in Nat
  BY DEF TypeOK, Statuses
<1>5. BvalOr0(BvalOr0(status[p].bval)) = BvalOr0(status[p].bval)
  BY <1>4, NoBvalAssumption DEF BvalOr0
<1> QED BY <1>3, <1>4, <1>5 DEF Covered, Leq

\* The head of a stream is what the program reads next: it is past the stored
\* position of its partition, and all before it has been delivered.
LEMMA HeadIsNext ==
    ASSUME filter.begin = 0, PagingInv, NEW r \in Recordsets, NEW x \in Records,
           stream[r] # <<>>, Head(stream[r]) = RecMsg(x)
    PROVE  /\ ~Covered(x, status[PartitionId(x.digest)])
           /\ status[PartitionId(x.digest)].digest # NoDigest => Covered(status[PartitionId(x.digest)], x)
           /\ x \notin Delivered
           /\ \A y \in Records \ Delivered : PartitionId(y.digest) = PartitionId(x.digest) => Leq(x, y)
<1>1. /\ stream[r] \in Seq(Messages) /\ PartitionId(x.digest) \in Pids
      /\ IsPosition(x) /\ x.digest # NoDigest /\ IsPosition(status[PartitionId(x.digest)])
  BY PositionTypes, RecordType DEF PagingInv, ScanInv, TypeOK
<1>2. 1 \in 1 .. Len(stream[r]) /\ stream[r][1] = RecMsg(x)
  BY <1>1
<1>3. RecMsg(x).kind = "rec" /\ RecMsg(x).rec = x
  BY DEF RecMsg
<1>4. ~Covered(x, status[PartitionId(x.digest)])
  BY <1>2, <1>3 DEF PagingInv, StreamAhead, Unread
<1>5. status[PartitionId(x.digest)].digest # NoDigest => Covered(status[PartitionId(x.digest)], x)
  BY <1>1, <1>4, LeqTotal DEF Covered
<1>6. x \notin Delivered
  BY <1>4 DEF PagingInv, DeliveredBehind
<1>7. ASSUME NEW y \in Records \ Delivered, PartitionId(y.digest) = PartitionId(x.digest)
      PROVE  Leq(x, y)
  <2>1. IsPosition(y) /\ y \in InPartition(PartitionId(x.digest))
    BY <1>7, PositionTypes DEF InPartition
  <2>2. CASE Leq(y, x)
    <3>1. Accounted(stream[r], Delivered)
      BY DEF PagingInv, ScanInv, StreamAccounts
    <3>2. \E j \in 1 .. 1 : stream[r][j] = RecMsg(y)
      BY <1>2, <1>3, <1>7, <2>1, <2>2, <3>1 DEF Accounted
    <3>3. RecMsg(y) = RecMsg(x)
      BY <1>2, <3>2
    <3>4. y = x
      BY <3>3 DEF RecMsg
    <3> QED BY <1>1, <3>4, LeqTotal
  <2>3. CASE ~Leq(y, x)
    BY <1>1, <2>1, <2>3, LeqTotal
  <2> QED BY <2>2, <2>3
<1> QED BY <1>4, <1>5, <1>6, <1>7

\* A step that reads nothing has to be checked for what the one recordset carries and
\* for the position of its handler.
LEMMA QuietPaging ==
    ASSUME OneAtATime, PagingInv, (ScanInv /\ OrderInv /\ StatusHoldsOwnDigest)',
           NEW r \in Recordsets, UNCHANGED <<inited, status, times>>,
           rs'[r].open => rs[r].open, Unread(stream'[r], status),
           rs'[r].open /\ srv'[r].phase # "stopped" =>
              \A p \in Pids : status[p].digest # NoDigest => Covered(status[p], srv'[r].cur[p])
    PROVE  PagingInv'
<1>1. \A s \in Recordsets : s = r
  BY DEF OneAtATime
<1>2. FreshUntilAsked'
  BY <1>1 DEF PagingInv, FreshUntilAsked
<1>3. StreamAhead'
  <2>1. \A s \in Recordsets : Unread(stream'[s], status')
    BY <1>1
  <2> QED BY <2>1 DEF StreamAhead, Unread
<1>4. CursorBehind'
  BY <1>1 DEF CursorBehind
<1>5. DeliveredBehind'
  BY DEF PagingInv, DeliveredBehind, Delivered
<1> QED BY <1>2, <1>3, <1>4, <1>5 DEF PagingInv

LEMMA UnreadAppend ==
    ASSUME NEW q \in Seq(Messages), NEW m \in Messages, NEW st, Unread(q, st),
           m.kind = "rec" => ~Covered(m.rec, st[PartitionId(m.rec.digest)])
    PROVE  Unread(Append(q, m), st)
<1> DEFINE t == Append(q, m)
<1>1. /\ Len(t) = Len(q) + 1 /\ t[Len(q) + 1] = m /\ Len(q) \in Nat
      /\ \A i \in 1 .. Len(q) : t[i] = q[i]
  OBVIOUS
<1> HIDE DEF t
<1>2. ASSUME NEW i \in 1 .. Len(t), t[i].kind = "rec"
      PROVE  ~Covered(t[i].rec, st[PartitionId(t[i].rec.digest)])
  <2>1. CASE i \in 1 .. Len(q)
    BY <1>1, <1>2, <2>1 DEF Unread
  <2>2. CASE i = Len(q) + 1
    BY <1>1, <1>2, <2>2
  <2> QED BY <1>1, <2>1, <2>2
<1>3. Unread(t, st)
  BY <1>2 DEF Unread
<1> QED BY <1>3 DEF t

LEMMA UnreadPrefix ==
    ASSUME NEW q \in Seq(Messages), NEW k \in 0 .. Len(q), NEW st, Unread(q, st)
    PROVE  Unread(SubSeq(q, 1, k), st)
<1> DEFINE t == SubSeq(q, 1, k)
<1>1. Len(t) = k /\ (\A i \in 1 .. k : t[i] = q[i]) /\ Len(q) \in Nat
  OBVIOUS
<1> HIDE DEF t
<1>2. \A i \in 1 .. Len(t) : i \in 1 .. Len(q) /\ t[i] = q[i]
  BY <1>1
<1>3. Unread(t, st)
  BY <1>2 DEF Unread
<1> QED BY <1>3 DEF t

LEMMA UnreadTail ==
    ASSUME NEW q \in Seq(Messages), q # <<>>, NEW st, Unread(q, st)
    PROVE  Unread(Tail(q), st)
<1> DEFINE t == Tail(q)
<1>1. /\ Len(q) \in Nat \ {0} /\ Len(t) = Len(q) - 1
      /\ \A i \in 1 .. Len(q) - 1 : t[i] = q[i + 1] /\ i + 1 \in 1 .. Len(q)
  OBVIOUS
<1> HIDE DEF t
<1>2. Unread(t, st)
  BY <1>1 DEF Unread
<1> QED BY <1>2 DEF t

\* Reading the head of the stream moves the stored position of its partition forward,
\* to before the rest of the stream and not past the handler.
LEMMA ReadPaging ==
    ASSUME OneAtATime, filter.begin = 0, PagingInv, (ScanInv /\ OrderInv /\ StatusHoldsOwnDigest)',
           NEW r \in Recordsets, NextRecord(r)
    PROVE  PagingInv'
<1>t. TypeOK /\ TypeOK' /\ InOrder(stream[r])
  BY DEF PagingInv, ScanInv, OrderInv, StreamInOrder, InOrder
<1>1. /\ srv' = srv /\ inited' = inited /\ rs[r].open /\ stream[r] # <<>> /\ stream'[r] = Tail(stream[r])
      /\ \E x \in Records :
            /\ Head(stream[r]) = RecMsg(x)
            /\ status' = [status EXCEPT ![StatusIndex(x)] = [id |-> @.id, bval |-> x.bval, digest |-> x.digest]]
            /\ times' = [times EXCEPT ![x] = Seen(@)]
  BY <1>t, ReadEffect DEF SameRequest
<1>2. PICK x \in Records :
            /\ Head(stream[r]) = RecMsg(x)
            /\ status' = [status EXCEPT ![StatusIndex(x)] = [id |-> @.id, bval |-> x.bval, digest |-> x.digest]]
            /\ times' = [times EXCEPT ![x] = Seen(@)]
  BY <1>1
<1>3. PICK p \in Pids : p = PartitionId(x.digest)
  BY PositionTypes
<1>4. /\ status'[p].bval = x.bval /\ status'[p].digest = x.digest
      /\ \A i \in Pids \ {p} : status'[i] = status[i]
  BY <1>t, <1>2, <1>3, ReadStatus
<1>5. /\ \A y : Leq(y, status'[p]) <=> Leq(y, x)
      /\ \A y : Covered(y, status'[p]) <=> Covered(y, x)
      /\ \A y : Covered(status'[p], y) <=> Covered(x, y)
  BY <1>4 DEF Covered, Leq
<1>6. ~Covered(x, status[p]) /\ (status[p].digest # NoDigest => Covered(status[p], x))
  BY <1>1, <1>2, <1>3, HeadIsNext
<1>7. /\ IsPosition(x) /\ x.digest # NoDigest /\ IsPosition(status[p]) /\ RecMsg(x).kind = "rec" /\ RecMsg(x).rec = x
      /\ stream[r] \in Seq(Messages)
  BY <1>t, PositionTypes, RecordType DEF TypeOK, RecMsg
<1>8. \A s \in Recordsets : s = r
  BY DEF OneAtATime
<1>9. FreshUntilAsked'
  <2>1. inited'
    BY <1>1 DEF PagingInv, FreshUntilAsked
  <2> QED BY <2>1 DEF FreshUntilAsked
<1>10. StreamAhead'
  <2> DEFINE q == stream[r]
             t == Tail(q)
  <2>1. /\ Len(q) \in Nat \ {0} /\ Len(t) = Len(q) - 1 /\ q[1] = RecMsg(x)
        /\ \A i \in 1 .. Len(q) - 1 : t[i] = q[i + 1] /\ i + 1 \in 1 .. Len(q) /\ 1 < i + 1
    BY <1>1, <1>2, <1>7
  <2>2. Unread(q, status) /\ InOrder(q)
    BY <1>t DEF PagingInv, StreamAhead
  <2>0. q \in Seq(Messages) /\ t = stream'[r]
    BY <1>1, <1>7
  <2> HIDE DEF q, t
  <2>3. ASSUME NEW i \in 1 .. Len(t), t[i].kind = "rec"
        PROVE  ~Covered(t[i].rec, status'[PartitionId(t[i].rec.digest)])
    <3>1. PICK j \in 1 .. Len(q) : q[j] = t[i] /\ 1 < j /\ q[j].kind = "rec"
      BY <2>1, <2>3
    <3>2. q[j] \in Messages
      BY <2>0
    <3>3. q[j].rec \in Records
      BY <3>1, <3>2 DEF Messages, ErrMsg, FailMsg, EndMsg
    <3>4. PartitionId(q[j].rec.digest) \in Pids
      BY <3>3, PositionTypes
    <3>5. CASE PartitionId(q[j].rec.digest) = p
      <4>1. 1 \in 1 .. Len(q) /\ q[1].kind = "rec" /\ q[1].rec = x
        BY <1>7, <2>1
      <4>2. ~Leq(q[j].rec, x)
        BY <1>3, <2>2, <3>1, <3>5, <4>1 DEF InOrder
      <4>3. ~Covered(q[j].rec, status'[p])
        BY <1>5, <4>2 DEF Covered
      <4> QED BY <3>1, <3>5, <4>3
    <3>6. CASE PartitionId(q[j].rec.digest) # p
      <4>1. ~Covered(q[j].rec, status[PartitionId(q[j].rec.digest)])
        BY <2>2, <3>1 DEF Unread
      <4> QED BY <1>4, <3>1, <3>4, <3>6, <4>1
    <3> QED BY <3>5, <3>6
  <2>4. Unread(stream'[r], status')
    BY <2>0, <2>3 DEF Unread
  <2>5. \A s \in Recordsets : Unread(stream'[s], status')
    BY <1>8, <2>4
  <2> QED BY <2>5 DEF StreamAhead, Unread
<1>11. CursorBehind'
  <2> SUFFICES ASSUME rs'[r].open, srv'[r].phase # "stopped", NEW o \in Pids, status'[o].digest # NoDigest
               PROVE  Covered(status'[o], srv'[r].cur[o])
    BY <1>8 DEF CursorBehind
  <2>1. srv[r].phase # "stopped" /\ srv'[r].cur[o] = srv[r].cur[o]
    BY <1>1
  <2>2. CASE o = p
    <3>1. Passed(stream[r], srv[r].cur)
      BY <1>1, <2>1 DEF PagingInv, OrderInv, HandlerAhead
    <3>2. 1 \in 1 .. Len(stream[r]) /\ stream[r][1] = RecMsg(x)
      BY <1>1, <1>2, <1>7
    <3>3. Covered(x, srv[r].cur[p])
      BY <1>3, <1>7, <3>1, <3>2 DEF Passed
    <3> QED BY <1>5, <2>1, <2>2, <3>3
  <2>3. CASE o # p
    BY <1>1, <1>4, <2>1, <2>3 DEF PagingInv, CursorBehind
  <2> QED BY <2>2, <2>3
<1>12. DeliveredBehind'
  <2> SUFFICES ASSUME NEW y \in Records, y \in Delivered' PROVE Covered(y, status'[PartitionId(y.digest)])
    BY DEF DeliveredBehind, Delivered
  <2>1. IsPosition(y) /\ PartitionId(y.digest) \in Pids
    BY PositionTypes
  <2>2. CASE y = x
    BY <1>3, <1>5, <1>7, <2>2, LeqTotal DEF Covered
  <2>3. CASE y # x
    <3>1. y \in Delivered
      BY <1>t, <1>2, <2>3 DEF Delivered, TypeOK
    <3>2. Covered(y, status[PartitionId(y.digest)])
      BY <3>1 DEF PagingInv, DeliveredBehind
    <3>3. CASE PartitionId(y.digest) = p
      <4>1. status[p].digest # NoDigest /\ Leq(y, status[p])
        BY <3>2, <3>3 DEF Covered
      <4>2. Leq(status[p], x)
        BY <1>6, <4>1 DEF Covered
      <4>3. Leq(y, x)
        BY <1>7, <2>1, <4>1, <4>2, LeqTransitive
      <4>4. Covered(y, x)
        BY <1>7, <4>3 DEF Covered
      <4> QED BY <1>5, <3>3, <4>4
    <3>4. CASE PartitionId(y.digest) # p
      BY <1>4, <2>1, <3>2, <3>4
    <3> QED BY <3>3, <3>4
  <2> QED BY <2>2, <2>3
<1> QED BY <1>9, <1>10, <1>11, <1>12 DEF PagingInv

\* Every step of a program that pages with one recordset.
LEMMA PagingStep ==
    ASSUME OneAtATime, filter.begin = 0, PagingInv, [Next]_vars
    PROVE  PagingInv'
<1>t. TypeOK /\ (ScanInv /\ OrderInv /\ StatusHoldsOwnDigest)'
  BY ScanStep, OrderStep, OwnDigestStep DEF PagingInv, ScanInv
<1>q. \A r \in Recordsets :
         /\ stream[r] \in Seq(Messages) /\ Unread(stream[r], status)
         /\ rs[r].open /\ srv[r].phase # "stopped" =>
               \A p \in Pids : status[p].digest # NoDigest => Covered(status[p], srv[r].cur[p])
  BY <1>t DEF PagingInv, StreamAhead, CursorBehind, TypeOK
<1>m. /\ ErrMsg \in Messages /\ FailMsg \in Messages /\ EndMsg \in Messages
      /\ ErrMsg.kind = "err" /\ FailMsg.kind = "fail" /\ EndMsg.kind = "end"
  BY MessageTypes DEF ErrMsg, FailMsg, EndMsg
<1>e. Unread(<<>>, status) /\ Unread(<<EndMsg>>, status)
  <2>1. Len(<<EndMsg>>) = 1 /\ <<EndMsg>>[1] = EndMsg /\ Len(<<>>) = 0
    OBVIOUS
  <2>2. \A i \in 1 .. Len(<<EndMsg>>) : <<EndMsg>>[i].kind # "rec"
    BY <1>m, <2>1
  <2> QED BY <2>1, <2>2 DEF Unread
<1>1. ASSUME NEW r \in Recordsets, NEW max \in MaxRecords, Scan(r, max) PROVE PagingInv'
  <2>1. /\ stream'[r] = <<>> /\ inited' = TRUE /\ times' = times
        /\ status' = IF inited THEN status ELSE [i \in Pids |-> NewStatus(i)]
        /\ \A p \in Pids : srv'[r].cur[p] = RequestedPosition(p)
    BY <1>1, <1>t, ScanEffect
  <2>2. \A s \in Recordsets : s = r
    BY DEF OneAtATime
  <2>3. FreshUntilAsked'
    BY <2>1 DEF FreshUntilAsked
  <2>4. StreamAhead'
    BY <2>1, <2>2 DEF StreamAhead, Unread
  <2>5. CASE inited
    <3>1. status' = status
      BY <2>1, <2>5
    <3>2. CursorBehind'
      BY <1>t, <2>1, <2>2, <2>5, <3>1, RequestCovers DEF CursorBehind
    <3>3. DeliveredBehind'
      BY <2>1, <3>1 DEF PagingInv, DeliveredBehind, Delivered
    <3> QED BY <1>t, <2>3, <2>4, <3>2, <3>3 DEF PagingInv
  <2>6. CASE ~inited
    <3>1. \A i \in Pids : status'[i].digest = NoDigest /\ status[i].digest = NoDigest
      BY <2>1, <2>6 DEF NewStatus, PagingInv, FreshUntilAsked
    <3>2. CursorBehind'
      BY <3>1 DEF CursorBehind
    <3>3. ASSUME NEW x \in Records, times'[x] > 0 PROVE FALSE
      <4>1. x \in Delivered /\ PartitionId(x.digest) \in Pids
        BY <2>1, <3>3, PositionTypes DEF Delivered
      <4> QED BY <3>1, <4>1 DEF PagingInv, DeliveredBehind, Covered
    <3>4. DeliveredBehind'
      BY <3>3 DEF DeliveredBehind, Delivered
    <3> QED BY <1>t, <2>3, <2>4, <3>2, <3>4 DEF PagingInv
  <2> QED BY <2>5, <2>6
<1>2. ASSUME NEW r \in Recordsets, HandlerStarts(r) PROVE PagingInv'
  <2>1. /\ UNCHANGED <<inited, status, times>> /\ rs'[r] = rs[r] /\ stream'[r] = stream[r]
        /\ srv[r].phase = "starting" /\ srv'[r].cur = srv[r].cur
    BY <1>2, <1>t, StartsEffect DEF SameRequest, NothingRead
  <2> QED BY <1>t, <1>q, <2>1, QuietPaging
<1>3. ASSUME NEW r \in Recordsets, HandlerStartError(r) PROVE PagingInv'
  <2>1. /\ UNCHANGED <<inited, status, times>> /\ rs'[r] = rs[r] /\ srv'[r].phase = "stopped"
        /\ stream'[r] = Append(Append(stream[r], ErrMsg), FailMsg)
    BY <1>3, <1>t, StartErrorEffect DEF SameRequest, NothingRead
  <2>2. Append(stream[r], ErrMsg) \in Seq(Messages) /\ Unread(Append(stream[r], ErrMsg), status)
    <3>1. stream[r] \in Seq(Messages) /\ Unread(stream[r], status)
      BY <1>q
    <3>2. Append(stream[r], ErrMsg) \in Seq(Messages)
      BY <1>m, <3>1
    <3> QED BY <1>m, <3>1, <3>2, UnreadAppend
  <2>3. Unread(stream'[r], status)
    BY <1>m, <2>1, <2>2, UnreadAppend
  <2> QED BY <1>t, <2>1, <2>3, QuietPaging
<1>4. ASSUME NEW r \in Recordsets, NEW p \in Pids, HandlerSendsRecord(r, p) PROVE PagingInv'
  <2>1. /\ UNCHANGED <<inited, status, times>> /\ rs'[r] = rs[r] /\ rs[r].open /\ srv[r].phase = "running"
        /\ \E x \in Remaining(r, p) :
              /\ stream'[r] = Append(stream[r], RecMsg(x))
              /\ srv'[r].cur[p] = x
              /\ \A o \in Pids \ {p} : srv'[r].cur[o] = srv[r].cur[o]
    BY <1>4, <1>t, SendsRecordEffect DEF SameRequest, NothingRead
  <2>2. PICK x \in Remaining(r, p) :
              /\ stream'[r] = Append(stream[r], RecMsg(x))
              /\ srv'[r].cur[p] = x
              /\ \A o \in Pids \ {p} : srv'[r].cur[o] = srv[r].cur[o]
    BY <2>1
  <2>3. x \in Records /\ p = PartitionId(x.digest) /\ ~Covered(x, srv[r].cur[p])
    BY DEF Remaining, InPartition
  <2>4. /\ IsPosition(x) /\ IsPosition(status[p]) /\ IsPosition(srv[r].cur[p]) /\ x.digest # NoDigest
    BY <1>t, <2>3, PositionTypes, RecordType DEF TypeOK, HandlerStates
  <2>5. status[p].digest # NoDigest => Covered(status[p], srv[r].cur[p])
    BY <1>q, <2>1
  <2>6. ~Covered(x, status[p]) /\ (status[p].digest # NoDigest => Covered(status[p], x))
    BY <2>3, <2>4, <2>5, PastCovers
  <2>7. \A o \in Pids : status[o].digest # NoDigest => Covered(status[o], srv'[r].cur[o])
    BY <1>q, <2>1, <2>2, <2>6
  <2>8. RecMsg(x) \in Messages /\ RecMsg(x).rec = x
    BY <2>3, MessageTypes DEF RecMsg
  <2>9. Unread(Append(stream[r], RecMsg(x)), status)
    BY <1>q, <2>3, <2>6, <2>8, UnreadAppend
  <2>10. Unread(stream'[r], status)
    BY <2>2, <2>9
  <2> QED BY <1>t, <2>1, <2>7, <2>10, QuietPaging
<1>5. ASSUME NEW r \in Recordsets, HandlerSendsError(r) PROVE PagingInv'
  <2>1. /\ UNCHANGED <<inited, status, times>> /\ rs'[r] = rs[r] /\ srv[r].phase = "running"
        /\ srv'[r].cur = srv[r].cur /\ stream'[r] = Append(stream[r], ErrMsg)
    BY <1>5, <1>t, SendsErrorEffect DEF SameRequest, NothingRead
  <2>2. Unread(stream'[r], status)
    BY <1>q, <1>m, <2>1, UnreadAppend
  <2> QED BY <1>t, <1>q, <2>1, <2>2, QuietPaging
<1>6. ASSUME NEW r \in Recordsets, HandlerReturns(r) PROVE PagingInv'
  <2>1. /\ UNCHANGED <<inited, status, times>> /\ rs'[r] = rs[r] /\ srv'[r].phase = "stopped"
        /\ stream'[r] = Append(stream[r], EndMsg)
    BY <1>6, <1>t, ReturnsEffect DEF SameRequest, NothingRead
  <2>2. Unread(stream'[r], status)
    BY <1>q, <1>m, <2>1, UnreadAppend
  <2> QED BY <1>t, <2>1, <2>2, QuietPaging
<1>7. ASSUME NEW r \in Recordsets, StreamFails(r) PROVE PagingInv'
  <2>1. /\ UNCHANGED <<inited, status, times>> /\ rs'[r] = rs[r] /\ srv'[r].phase = "stopped"
        /\ \E k \in 0 .. Len(stream[r]) : stream'[r] = Append(SubSeq(stream[r], 1, k), FailMsg)
    BY <1>7, <1>t, FailsEffect DEF SameRequest, NothingRead
  <2>2. PICK k \in 0 .. Len(stream[r]) : stream'[r] = Append(SubSeq(stream[r], 1, k), FailMsg)
    BY <2>1
  <2>3. SubSeq(stream[r], 1, k) \in Seq(Messages)
    BY <1>q
  <2>4. Unread(SubSeq(stream[r], 1, k), status)
    BY <1>q, UnreadPrefix
  <2>5. Unread(stream'[r], status)
    BY <1>m, <2>2, <2>3, <2>4, UnreadAppend
  <2> QED BY <1>t, <2>1, <2>5, QuietPaging
<1>8. ASSUME NEW r \in Recordsets, NextRecord(r) PROVE PagingInv'
  BY <1>8, <1>t, ReadPaging
<1>9. ASSUME NEW r \in Recordsets, NextPanics(r) PROVE PagingInv'
  <2>1. UNCHANGED <<inited, status, rs, srv, stream, times>>
    BY <1>9 DEF NextPanics
  <2> QED BY <1>t, <1>q, <2>1, QuietPaging
<1>10. ASSUME NEW r \in Recordsets, NextError(r) \/ NextFailure(r) \/ NextEnd(r) \/ Close(r)
       PROVE  PagingInv'
  <2>1. /\ UNCHANGED <<inited, status, times>> /\ srv' = srv /\ rs[r].open
        /\ \/ stream[r] # <<>> /\ stream'[r] = Tail(stream[r])
           \/ stream'[r] = <<EndMsg>> \/ stream'[r] = <<>>
    BY <1>10, <1>t, NoReadEffect DEF SameRequest
  <2>2. Unread(stream'[r], status)
    BY <1>q, <1>e, <2>1, UnreadTail
  <2> QED BY <1>t, <1>q, <2>1, <2>2, QuietPaging
<1>11. CASE UNCHANGED vars
  BY <1>11, <1>t DEF vars, PagingInv, FreshUntilAsked, StreamAhead, Unread, CursorBehind, DeliveredBehind, Delivered
<1> QED
  BY <1>1, <1>2, <1>3, <1>4, <1>5, <1>6, <1>7, <1>8, <1>9, <1>10, <1>11
  DEF Next, Handler, NextCall, Trouble

LEMMA PagingInit == Init => PagingInv
<1> SUFFICES ASSUME Init PROVE PagingInv
  OBVIOUS
<1>1. ScanInv /\ TypeOK
  BY InitScanInv DEF ScanInv
<1>2. OrderInv
  BY <1>1 DEF Init, OrderInv, StreamInOrder, HandlerAhead, ClosedRecordset
<1>3. StatusHoldsOwnDigest /\ FreshUntilAsked
  BY DEF Init, StatusHoldsOwnDigest, FreshUntilAsked, NewStatus, ClosedRecordset
<1>4. StreamAhead /\ CursorBehind /\ DeliveredBehind
  BY DEF Init, StreamAhead, Unread, CursorBehind, DeliveredBehind, Delivered, ClosedRecordset
<1> QED BY <1>1, <1>2, <1>3, <1>4 DEF PagingInv

\* Neither a new request nor a record moves a stored position backwards.
LEMMA StatusForward ==
    ASSUME filter.begin = 0, PagingInv, [Next]_vars, NEW i \in Pids, status[i].digest # NoDigest
    PROVE  Covered(status[i], status'[i])
<1>t. TypeOK
  BY DEF PagingInv, ScanInv
<1>1. Covered(status[i], status[i])
  BY <1>t, PositionTypes, LeqTotal DEF TypeOK, Covered
<1>2. CASE status' = status
  BY <1>1, <1>2
<1>3. CASE ~inited
  BY <1>3 DEF PagingInv, FreshUntilAsked
<1>4. ASSUME NEW r \in Recordsets, NextRecord(r) PROVE Covered(status[i], status'[i])
  <2>1. PICK x \in Records :
            /\ stream[r] # <<>> /\ Head(stream[r]) = RecMsg(x)
            /\ status' = [status EXCEPT ![StatusIndex(x)] = [id |-> @.id, bval |-> x.bval, digest |-> x.digest]]
    BY <1>4, <1>t, ReadEffect
  <2>2. /\ status'[PartitionId(x.digest)].bval = x.bval
        /\ status'[PartitionId(x.digest)].digest = x.digest
        /\ \A o \in Pids \ {PartitionId(x.digest)} : status'[o] = status[o]
    BY <1>t, <2>1, ReadStatus
  <2>3. CASE i = PartitionId(x.digest)
    <3>1. Covered(status[i], x)
      BY <2>1, <2>3, HeadIsNext
    <3> QED BY <2>2, <2>3, <3>1 DEF Covered, Leq
  <2>4. CASE i # PartitionId(x.digest)
    BY <1>1, <2>2, <2>4
  <2> QED BY <2>3, <2>4
<1> QED BY <1>t, <1>2, <1>3, <1>4, StatusChange

\* A program that reads one recordset at a time, on a filter that starts at partition
\* 0, never sees Recordset.next or Client.scan move the position of a partition back.
THEOREM PositionsOnlyAdvance ==
    ASSUME OneAtATime
    PROVE  Spec /\ filter.begin = 0 => CursorNeverMovesBack
<1> DEFINE J == filter.begin = 0 /\ PagingInv
<1>1. Init /\ filter.begin = 0 => J
  BY PagingInit
<1>2. J /\ [Next]_vars => J'
  BY PagingStep, FilterFixed
<1>3. J /\ [Next]_vars =>
         [\A i \in Pids : status[i].digest # NoDigest => Covered(status[i], status'[i])]_vars
  BY StatusForward
<1> QED BY <1>1, <1>2, <1>3, PTL DEF Spec, CursorNeverMovesBack

\* A step that hands a record to the program is a delivery of the promise.
LEMMA DeliveryStep ==
    ASSUME filter.begin = 0, PagingInv, [Next]_vars
    PROVE  [Promise!Next]_times
<1>t. TypeOK
  BY DEF PagingInv, ScanInv
<1>1. ASSUME NEW r \in Recordsets, NextRecord(r) PROVE Promise!Next
  <2>1. PICK x \in Records :
            /\ stream[r] # <<>> /\ Head(stream[r]) = RecMsg(x) /\ times' = [times EXCEPT ![x] = Seen(@)]
    BY <1>1, <1>t, ReadEffect
  <2>2. /\ x \notin Delivered
        /\ \A y \in Records \ Delivered : PartitionId(y.digest) = PartitionId(x.digest) => Leq(x, y)
    BY <2>1, HeadIsNext
  <2>3. times[x] = 0 /\ \A y \in Records : times[y] = 0 => y \notin Delivered
    BY <1>t, <2>2 DEF Delivered, TypeOK
  <2>4. times' = [times EXCEPT ![x] = 1]
    BY <1>t, <2>1, <2>3 DEF Seen, TypeOK
  <2>5. \A y \in Records : RecordPartition(y) = RecordPartition(x) /\ times[y] = 0 => Leq(x, y)
    BY <2>2, <2>3 DEF RecordPartition
  <2> QED BY <2>3, <2>4, <2>5 DEF Promise!Next, Promise!Deliver
<1> QED BY <1>t, <1>1, StatusChange

\* Paging with one recordset at a time implements OrderedDelivery: through failed and
\* cancelled pages, every record reaches the program at most once, and the records of
\* a partition in the server's order without a gap.
THEOREM PagingDeliversOnce ==
    ASSUME OneAtATime
    PROVE  Spec /\ filter.begin = 0 => ExactlyOnce
<1> DEFINE J == filter.begin = 0 /\ PagingInv
<1>1. Init /\ filter.begin = 0 => J /\ Promise!Init
  BY PagingInit DEF Init, Promise!Init
<1>2. J /\ [Next]_vars => J'
  BY PagingStep, FilterFixed
<1>3. J /\ [Next]_vars => [Promise!Next]_times
  BY DeliveryStep
<1> QED BY <1>1, <1>2, <1>3, PTL DEF Spec, ExactlyOnce, Promise!Spec
================================================================================
