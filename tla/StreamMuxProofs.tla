----------------------------- MODULE StreamMuxProofs -----------------------------
(* Proofs about StreamMux, for any number of recordsets, any windows and any    *)
(* number of records: windows are kept, and a call gets stuck only through      *)
(* recordsets that the program has left open and unread.                        *)
EXTENDS StreamMux, FiniteSetTheorems, TLAPS

(* --------------------------- inductive invariant -------------------------- *)

\* A recordset that PHP may read has a handler that was not reset, and next waits on
\* such a recordset only.
OpenIsServed ==
    /\ \A s \in Streams : app[s] = "open" => srv[s] \in {"running", "ended"}
    /\ \A s \in Streams : busy = NextOn(s) => app[s] = "open"

\* Only recordsets that are open, or whose reset is due, are sent records and hold some.
HeldByOpen ==
    \A s \in Streams : unread[s] > 0 \/ srv[s] = "running" => app[s] \in {"open", "dropped"}

MuxInv == TypeOK /\ OpenIsServed /\ HeldByOpen

(* --------------------- the window of the connection ----------------------- *)

LEMMA ChargedMember ==
    \A m : m \in Charged <=> \E s \in Streams : \E k \in 1 .. unread[s] + owed[s] : m = <<s, k>>
  BY DEF Charged

LEMMA ChargedMemberNext ==
    \A m : m \in Charged' <=> \E s \in Streams : \E k \in 1 .. unread'[s] + owed'[s] : m = <<s, k>>
  BY DEF Charged

\* Recordsets never charge more than their windows.
LEMMA ChargedWithin ==
    ASSUME TypeOK, NEW U \in SUBSET Streams, \A s \in Streams : unread[s] + owed[s] > 0 => s \in U
    PROVE  /\ IsFiniteSet(Charged) /\ Cardinality(Charged) \in Nat
           /\ Cardinality(Charged) <= Cardinality(U) * StreamWindow
<1> DEFINE W == 1 .. StreamWindow
<1>1. IsFiniteSet(U) /\ StreamWindow \in Nat /\ StreamWindow >= 1
  BY MuxAssumption, FS_Subset
<1>2. IsFiniteSet(W) /\ Cardinality(W) = StreamWindow
  <2>1. IsFiniteSet(W) /\ Cardinality(W) = IF 1 > StreamWindow THEN 0 ELSE StreamWindow - 1 + 1
    BY <1>1, FS_Interval, 1 \in Int, StreamWindow \in Int
  <2> QED BY <1>1, <2>1
<1>3. IsFiniteSet(U \X W) /\ Cardinality(U \X W) = Cardinality(U) * Cardinality(W)
  BY <1>1, <1>2, FS_Product
<1>4. Charged \in SUBSET (U \X W)
  <2>1. ASSUME NEW s \in Streams, NEW k \in 1 .. unread[s] + owed[s] PROVE s \in U /\ k \in W
    BY <1>1 DEF TypeOK
  <2> QED BY <2>1, ChargedMember
<1>5. IsFiniteSet(Charged) /\ Cardinality(Charged) <= Cardinality(U \X W)
  BY <1>3, <1>4, FS_Subset
<1>6. Cardinality(Charged) \in Nat
  BY <1>5, FS_CardinalityType
<1>7. Cardinality(Charged) <= Cardinality(U) * StreamWindow
  BY <1>2, <1>3, <1>5
<1> QED BY <1>5, <1>6, <1>7

LEMMA ChargedBound ==
    ASSUME TypeOK
    PROVE  IsFiniteSet(Charged) /\ Cardinality(Charged) \in Nat
  BY ChargedWithin

\* What a recordset charges is what it did, or nothing.
LEMMA ChargesLess ==
    ASSUME TypeOK,
           \A s \in Streams : unread'[s] \in Nat /\ owed'[s] \in Nat /\ unread'[s] + owed'[s] <= unread[s] + owed[s]
    PROVE  Cardinality(Charged') \in Nat /\ Cardinality(Charged') <= Cardinality(Charged)
<1>1. Charged' \in SUBSET Charged
  <2>1. ASSUME NEW s \in Streams, NEW k \in 1 .. unread'[s] + owed'[s] PROVE k \in 1 .. unread[s] + owed[s]
    BY DEF TypeOK
  <2> QED BY <2>1, ChargedMember, ChargedMemberNext
<1>2. IsFiniteSet(Charged)
  BY ChargedBound
<1>3. IsFiniteSet(Charged') /\ Cardinality(Charged') <= Cardinality(Charged)
  BY <1>1, <1>2, FS_Subset
<1> QED BY <1>3, FS_CardinalityType

\* One more message of s.
LEMMA ChargesOneMore ==
    ASSUME TypeOK, NEW s \in Streams, unread' = [unread EXCEPT ![s] = @ + 1], owed' = owed
    PROVE  Cardinality(Charged') = Cardinality(Charged) + 1
<1> DEFINE m == <<s, unread[s] + owed[s] + 1>>
<1>1. /\ \A t \in Streams : unread[t] \in Nat /\ owed[t] \in Nat
      /\ unread'[s] = unread[s] + 1
      /\ \A t \in Streams : t # s => unread'[t] = unread[t]
  BY DEF TypeOK
<1>2. m \notin Charged
  <2>1. ASSUME NEW t \in Streams, NEW k \in 1 .. unread[t] + owed[t], m = <<t, k>> PROVE FALSE
    <3>1. t = s /\ k = unread[s] + owed[s] + 1
      BY <2>1
    <3> QED BY <1>1, <3>1
  <2> QED BY <2>1, ChargedMember
<1>3. ASSUME NEW x PROVE x \in Charged' <=> x \in Charged \cup {m}
  <2>1. ASSUME x \in Charged' PROVE x \in Charged \cup {m}
    <3>0. PICK t \in Streams : \E k \in 1 .. unread'[t] + owed'[t] : x = <<t, k>>
      BY <2>1, ChargedMemberNext
    <3>1. PICK k \in 1 .. unread'[t] + owed'[t] : x = <<t, k>>
      BY <3>0
    <3>2. (t = s /\ k = unread[s] + owed[s] + 1) \/ k \in 1 .. unread[t] + owed[t]
      BY <1>1
    <3> QED BY <3>1, <3>2, ChargedMember
  <2>2. ASSUME x \in Charged PROVE x \in Charged'
    <3>0. PICK t \in Streams : \E k \in 1 .. unread[t] + owed[t] : x = <<t, k>>
      BY <2>2, ChargedMember
    <3>1. PICK k \in 1 .. unread[t] + owed[t] : x = <<t, k>>
      BY <3>0
    <3>2. k \in 1 .. unread'[t] + owed'[t]
      BY <1>1
    <3> QED BY <3>1, <3>2, ChargedMemberNext
  <2>3. m \in Charged'
    <3>1. unread[s] + owed[s] + 1 \in 1 .. unread'[s] + owed'[s]
      BY <1>1
    <3> QED BY <3>1, ChargedMemberNext
  <2> QED BY <2>1, <2>2, <2>3
<1>4. Charged' = Charged \cup {m}
  BY <1>3
<1>5. IsFiniteSet(Charged)
  BY ChargedBound
<1> QED BY <1>2, <1>4, <1>5, FS_AddElement

(* ------------------------------- the steps -------------------------------- *)

LEMMA MuxInit == Init => MuxInv
<1> SUFFICES ASSUME Init PROVE MuxInv
  OBVIOUS
<1>1. Cardinality(Charged) = 0
  <2>1. \A m : m \notin Charged
    BY ChargedMember DEF Init
  <2>2. Charged = {}
    BY <2>1
  <2> QED BY <2>2, FS_EmptySet
<1>2. ConnUsed = 0
  BY <1>1 DEF ConnUsed, Init
<1>3. TypeOK
  BY <1>2, MuxAssumption DEF Init, TypeOK
<1>4. OpenIsServed
  BY DEF Init, OpenIsServed, Free, NextOn
<1>5. HeldByOpen
  BY DEF Init, HeldByOpen
<1> QED BY <1>3, <1>4, <1>5 DEF MuxInv

\* A step that charges nothing new keeps the windows.
LEMMA WindowsKept ==
    ASSUME TypeOK, connOwed' \in Nat, connOwed' <= connOwed,
           \A s \in Streams : unread'[s] \in Nat /\ owed'[s] \in Nat /\ unread'[s] + owed'[s] <= unread[s] + owed[s]
    PROVE  /\ \A s \in Streams : unread'[s] + owed'[s] <= StreamWindow
           /\ ConnUsed' <= ConnWindow
<1>1. Cardinality(Charged') \in Nat /\ Cardinality(Charged') <= Cardinality(Charged)
  BY ChargesLess
<1>2. Cardinality(Charged) \in Nat
  BY ChargedBound
<1>3. connOwed \in Nat /\ Cardinality(Charged) + connOwed <= ConnWindow /\ ConnWindow \in Nat
  BY MuxAssumption DEF TypeOK, ConnUsed
<1>4. ConnUsed' <= ConnWindow
  BY <1>1, <1>2, <1>3 DEF ConnUsed
<1>5. ASSUME NEW s \in Streams PROVE unread'[s] + owed'[s] <= StreamWindow
  BY MuxAssumption DEF TypeOK
<1> QED BY <1>4, <1>5

LEMMA OpenStep == ASSUME MuxInv, NEW s \in Streams, Open(s) PROVE MuxInv'
<1> USE DEF MuxInv
<1>1. UNCHANGED <<unread, owed, connOwed, busy>>
  BY DEF Open
<1>2. (\A t \in Streams : unread'[t] + owed'[t] <= StreamWindow) /\ ConnUsed' <= ConnWindow
  BY <1>1, WindowsKept DEF TypeOK
<1>3. TypeOK'
  BY <1>1, <1>2 DEF TypeOK, Open
<1>4. OpenIsServed'
  BY DEF TypeOK, OpenIsServed, Open, Free, NextOn
<1>5. HeldByOpen'
  BY <1>1 DEF TypeOK, HeldByOpen, Open
<1> QED BY <1>3, <1>4, <1>5

\* next and other calls take the mutex.
LEMMA StartStep ==
    ASSUME MuxInv, CallStarts \/ \E s \in Streams : NextStarts(s)
    PROVE  MuxInv'
<1> USE DEF MuxInv
<1>1. UNCHANGED <<app, srv, left, unread, owed, connOwed>>
  BY DEF CallStarts, NextStarts
<1>2. (\A t \in Streams : unread'[t] + owed'[t] <= StreamWindow) /\ ConnUsed' <= ConnWindow
  BY <1>1, WindowsKept DEF TypeOK
<1>3. busy' = Unary \/ \E s \in Streams : busy' = NextOn(s) /\ app[s] = "open"
  BY DEF CallStarts, NextStarts
<1>4. TypeOK'
  BY <1>1, <1>2, <1>3 DEF TypeOK
<1>5. OpenIsServed'
  BY <1>1, <1>3 DEF OpenIsServed, Unary, NextOn
<1>6. HeldByOpen'
  BY <1>1 DEF HeldByOpen
<1> QED BY <1>4, <1>5, <1>6

LEMMA NextReturnsStep == ASSUME MuxInv, NEW s \in Streams, NextReturns(s) PROVE MuxInv'
<1> USE DEF MuxInv
<1>1. /\ UNCHANGED <<app, srv, left, connOwed>> /\ busy' = Free
      /\ unread' \in [Streams -> Nat] /\ owed' \in [Streams -> Nat]
      /\ \A t \in Streams : unread'[t] + owed'[t] = unread[t] + owed[t]
  BY DEF TypeOK, NextReturns
<1>2. (\A t \in Streams : unread'[t] + owed'[t] <= StreamWindow) /\ ConnUsed' <= ConnWindow
  BY <1>1, WindowsKept DEF TypeOK
<1>3. TypeOK'
  BY <1>1, <1>2 DEF TypeOK
<1>4. OpenIsServed'
  BY <1>1 DEF OpenIsServed, Free, NextOn
<1>5. HeldByOpen'
  BY <1>1 DEF TypeOK, HeldByOpen, NextReturns
<1> QED BY <1>3, <1>4, <1>5

\* The recordset is not read any more.
LEMMA EndStep == ASSUME MuxInv, NEW s \in Streams, NextEnds(s) \/ Close(s) PROVE MuxInv'
<1> USE DEF MuxInv
<1>1. /\ UNCHANGED <<srv, left, unread, owed, connOwed>>
      /\ \E v \in {"closed", "dropped"} : app' = [app EXCEPT ![s] = v]
      /\ busy' = Free \/ (busy' = busy /\ busy # NextOn(s))
  BY DEF NextEnds, Close
<1>2. (\A t \in Streams : unread'[t] + owed'[t] <= StreamWindow) /\ ConnUsed' <= ConnWindow
  BY <1>1, WindowsKept DEF TypeOK
<1>3. TypeOK'
  BY <1>1, <1>2 DEF TypeOK
<1>4. OpenIsServed'
  BY <1>1 DEF TypeOK, OpenIsServed, Free, NextOn
<1>5. HeldByOpen'
  BY <1>1 DEF TypeOK, HeldByOpen, OpenIsServed, NextEnds, Close
<1> QED BY <1>3, <1>4, <1>5

LEMMA CallReturnsStep == ASSUME MuxInv, CallReturns PROVE MuxInv'
<1> USE DEF MuxInv
<1>1. UNCHANGED <<app, srv, left, unread, owed>> /\ busy' = Free /\ connOwed' = connOwed + 1 /\ ConnUsed < ConnWindow
  BY DEF CallReturns
<1>2. Charged' = Charged
  BY <1>1 DEF Charged
<1>3. ConnUsed' <= ConnWindow
  BY <1>1, <1>2, ChargedBound, MuxAssumption DEF ConnUsed, TypeOK
<1>4. TypeOK'
  BY <1>1, <1>3 DEF TypeOK
<1>5. OpenIsServed'
  BY <1>1 DEF OpenIsServed, Free, NextOn
<1>6. HeldByOpen'
  BY <1>1 DEF HeldByOpen
<1> QED BY <1>4, <1>5, <1>6

LEMMA DriveStep == ASSUME MuxInv, Drive PROVE MuxInv'
<1> USE DEF MuxInv
<1>1. /\ left' = left /\ connOwed' = 0 /\ busy' = IF busy = Unary THEN Sent ELSE busy
      /\ unread' \in [Streams -> Nat] /\ owed' \in [Streams -> Nat]
      /\ \A t \in Streams : unread'[t] + owed'[t] <= unread[t] + owed[t]
  BY DEF TypeOK, Drive
<1>2. (\A t \in Streams : unread'[t] + owed'[t] <= StreamWindow) /\ ConnUsed' <= ConnWindow
  BY <1>1, WindowsKept DEF TypeOK
<1>3. /\ app' \in [Streams -> {"none", "open", "dropped", "closed"}]
      /\ srv' \in [Streams -> {"none", "running", "reset", "ended"}]
      /\ \A s \in Streams : app'[s] = "open" <=> app[s] = "open"
      /\ \A s \in Streams : app[s] = "open" => srv'[s] = srv[s]
  BY DEF TypeOK, Drive, Dropped
<1>4. TypeOK'
  BY <1>1, <1>2, <1>3 DEF TypeOK
<1>5. OpenIsServed'
  BY <1>1, <1>3 DEF OpenIsServed, Sent, Unary, NextOn
<1>6. HeldByOpen'
  BY <1>1 DEF TypeOK, HeldByOpen, Drive, Dropped
<1> QED BY <1>4, <1>5, <1>6

LEMMA SendStep == ASSUME MuxInv, NEW s \in Streams, Send(s) PROVE MuxInv'
<1> USE DEF MuxInv
<1>1. /\ UNCHANGED <<app, srv, owed, connOwed, busy>>
      /\ left[s] > 0 /\ left' = [left EXCEPT ![s] = @ - 1] /\ unread' = [unread EXCEPT ![s] = @ + 1]
      /\ unread[s] + owed[s] < StreamWindow /\ ConnUsed < ConnWindow
  BY DEF Send
<1>2. Cardinality(Charged') = Cardinality(Charged) + 1
  BY <1>1, ChargesOneMore
<1>3. ConnUsed' <= ConnWindow
  BY <1>1, <1>2, ChargedBound, MuxAssumption DEF ConnUsed, TypeOK
<1>4. left' \in [Streams -> 0 .. MaxRecords] /\ unread' \in [Streams -> Nat]
  BY <1>1, MuxAssumption DEF TypeOK
<1>5. \A t \in Streams : unread'[t] + owed'[t] <= StreamWindow
  BY <1>1, MuxAssumption DEF TypeOK
<1>6. TypeOK'
  BY <1>1, <1>3, <1>4, <1>5 DEF TypeOK
<1>7. OpenIsServed'
  BY <1>1 DEF OpenIsServed
<1>8. HeldByOpen'
  BY <1>1 DEF TypeOK, HeldByOpen, Send
<1> QED BY <1>6, <1>7, <1>8

\* The handler returns.
LEMMA HandlerEndsStep == ASSUME MuxInv, NEW s \in Streams, SendFails(s) \/ ResultsEnd(s) PROVE MuxInv'
<1> USE DEF MuxInv
<1>1. /\ UNCHANGED <<app, unread, owed, connOwed, busy>>
      /\ left' = [left EXCEPT ![s] = 0] \/ left' = left
      /\ srv' = [srv EXCEPT ![s] = "ended"]
  BY DEF SendFails, ResultsEnd
<1>2. (\A t \in Streams : unread'[t] + owed'[t] <= StreamWindow) /\ ConnUsed' <= ConnWindow
  BY <1>1, WindowsKept DEF TypeOK
<1>3. left' \in [Streams -> 0 .. MaxRecords]
  BY <1>1, MuxAssumption DEF TypeOK
<1>4. TypeOK'
  BY <1>1, <1>2, <1>3 DEF TypeOK
<1>5. OpenIsServed'
  BY <1>1 DEF TypeOK, OpenIsServed
<1>6. HeldByOpen'
  BY <1>1 DEF TypeOK, HeldByOpen
<1> QED BY <1>4, <1>5, <1>6

LEMMA MuxStep == MuxInv /\ [Next]_vars => MuxInv'
<1> SUFFICES ASSUME MuxInv, [Next]_vars PROVE MuxInv'
  OBVIOUS
<1>1. ASSUME NEW s \in Streams, Open(s) \/ NextStarts(s) \/ Close(s) \/ Waiting(s) \/ Handler(s) PROVE MuxInv'
  BY <1>1, OpenStep, StartStep, EndStep, NextReturnsStep, SendStep, HandlerEndsStep DEF Waiting, Handler
<1>2. CASE CallStarts
  BY <1>2, StartStep
<1>3. CASE CallReturns
  BY <1>3, CallReturnsStep
<1>4. CASE Drive
  BY <1>4, DriveStep
<1>5. CASE UNCHANGED vars
  <2>1. Charged' = Charged
    BY <1>5 DEF vars, Charged
  <2> QED BY <1>5, <2>1 DEF vars, MuxInv, TypeOK, OpenIsServed, HeldByOpen, ConnUsed
<1> QED BY <1>1, <1>2, <1>3, <1>4, <1>5 DEF Next

LEMMA MuxInvariant == Spec => []MuxInv
  BY MuxInit, MuxStep, PTL DEF Spec

(* -------------------------------- theorems -------------------------------- *)

\* Variables keep their types, and neither the window of a recordset nor that of the
\* connection, the sum over all recordsets and unary responses, is ever exceeded.
THEOREM TypeCorrect == Spec => []TypeOK
<1>1. MuxInv => TypeOK
  BY DEF MuxInv
<1> QED BY <1>1, MuxInvariant, PTL

\* A call in block_on gets stuck only through recordsets that the program has left open
\* with unread records, and only through so many of them that their windows together fill
\* that of the connection; a recordset that was closed or read to its end is never the
\* cause.  For any windows and any number of recordsets, without a bound on those open.
THEOREM StuckOnlyByUnread == Spec => []OnlyUnreadBlocks
<1>1. ASSUME MuxInv PROVE OnlyUnreadBlocks
  <2> USE <1>1 DEF MuxInv
  <2> SUFFICES ASSUME Stuck
               PROVE  /\ \A s \in Streams : unread[s] > 0 => s \in LeftOpen
                      /\ Cardinality(LeftOpen) * StreamWindow >= ConnWindow
    BY DEF OnlyUnreadBlocks
  <2>1. connOwed = 0 /\ busy # Unary /\ Dropped = {} /\ \A s \in Streams : owed[s] = 0
    BY DEF Stuck, Due, TypeOK
  <2>2. \A s \in Streams : unread[s] > 0 => s \in LeftOpen
    BY <2>1 DEF HeldByOpen, LeftOpen, Dropped
  <2>3. ConnUsed >= ConnWindow
    <3>1. ASSUME NEW s \in Streams, busy = NextOn(s), ConnUsed < ConnWindow PROVE FALSE
      <4>1. srv[s] \in {"running", "ended"} /\ ~Arrives(s)
        BY <3>1 DEF OpenIsServed, Stuck
      <4>2. unread[s] > 0 \/ unread[s] + owed[s] < StreamWindow
        BY <2>1, MuxAssumption DEF TypeOK
      <4> QED BY <3>1, <4>1, <4>2 DEF Arrives
    <3>2. busy = Sent \/ \E s \in Streams : busy = NextOn(s)
      BY <2>1 DEF TypeOK, Stuck
    <3>3. ConnUsed \in Int /\ ConnWindow \in Int
      BY ChargedBound, MuxAssumption DEF TypeOK, ConnUsed
    <3> QED BY <3>1, <3>2, <3>3 DEF Stuck
  <2>4. Cardinality(Charged) \in Nat /\ Cardinality(Charged) <= Cardinality(LeftOpen) * StreamWindow
    <3>1. LeftOpen \in SUBSET Streams /\ \A s \in Streams : unread[s] + owed[s] > 0 => s \in LeftOpen
      BY <2>1, <2>2 DEF LeftOpen, TypeOK
    <3> QED BY <3>1, ChargedWithin
  <2>5. Cardinality(LeftOpen) * StreamWindow \in Nat
    <3>1. IsFiniteSet(LeftOpen)
      BY MuxAssumption, FS_Subset DEF LeftOpen
    <3> QED BY <3>1, MuxAssumption, FS_CardinalityType
  <2>6. Cardinality(LeftOpen) * StreamWindow >= ConnWindow
    BY <2>1, <2>3, <2>4, <2>5, MuxAssumption DEF ConnUsed
  <2> QED BY <2>2, <2>6
<1> QED BY <1>1, MuxInvariant, PTL
=================================================================================
