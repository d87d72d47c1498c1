------------------------------ MODULE PoliciesProofs -----------------------------
(* Proofs about Policies, for any lifetimes, timeouts and numbers a program     *)
(* sets and any number of setter calls.                                         *)
EXTENDS Policies, TLAPS

(* -------------------------- tables of the accessors ------------------------ *)

\* Setter and getter of property p of class c use the field of its name, unless the
\* property is listed, and no setter of another property writes that field.
OwnField(c, p) ==
    /\ <<c, p>> \notin Overwritten =>
          /\ Accessors[c][p].sets = p
          /\ \A q \in Props(c) \ {p} : Accessors[c][q].sets # p
    /\ <<c, p>> \notin Misread \cup Overwritten => Accessors[c][p].gets = p

\* Setters on fields of their own, and getters but for those in Misread.
LEMMA OwnFields ==
    ASSUME NEW c, NEW names, Props(c) = names,
           \A p \in names : Accessors[c][p].sets = p,
           \A p \in names : <<c, p>> \notin Misread => Accessors[c][p].gets = p
    PROVE  \A p \in Props(c) : OwnField(c, p)
  BY DEF OwnField

\* A class with all accessors on fields of their own.
LEMMA PlainClass ==
    ASSUME NEW c, NEW names, Accessors[c] = Plain(names)
    PROVE  Props(c) = names /\ \A p \in Props(c) : OwnField(c, p)
<1>1. Props(c) = names /\ \A p \in names : Accessors[c][p].sets = p /\ Accessors[c][p].gets = p
  BY DEF Props, Plain
<1> QED BY <1>1, OwnFields

\* A class whose get_read_mode_sc reads the other read mode.
LEMMA ScClass ==
    ASSUME NEW c, NEW names, Accessors[c] = ScReadsAp(names), <<c, "read_mode_sc">> \in Misread
    PROVE  Props(c) = names /\ \A p \in Props(c) : OwnField(c, p)
<1>1. /\ Props(c) = names
      /\ \A p \in names : Accessors[c][p].sets = p
      /\ \A p \in names \ {"read_mode_sc"} : Accessors[c][p].gets = p
  BY DEF Props, ScReadsAp
<1> QED BY <1>1, OwnFields

LEMMA WriteClass ==
    Props("WritePolicy") = BaseNames \cup WriteNames /\ \A p \in Props("WritePolicy") : OwnField("WritePolicy", p)
<1> DEFINE names == BaseNames \cup WriteNames
<1>1. Accessors["WritePolicy"] = WritePolicy
  BY DEF Accessors
<1>2. /\ Props("WritePolicy") = names
      /\ \A p \in names : Accessors["WritePolicy"][p].sets = p
      /\ \A p \in names \ {"read_mode_sc", "durable_delete"} : Accessors["WritePolicy"][p].gets = p
  BY <1>1 DEF Props, WritePolicy
<1>3. <<"WritePolicy", "read_mode_sc">> \in Misread /\ <<"WritePolicy", "durable_delete">> \in Misread
  BY DEF Misread
<1> QED BY <1>2, <1>3, OwnFields

LEMMA BatchClass ==
    Props("BatchPolicy") = BaseNames \cup BatchNames /\ \A p \in Props("BatchPolicy") : OwnField("BatchPolicy", p)
<1> DEFINE names == BaseNames \cup BatchNames
           x == "allow_partial_results"
<1>1. Accessors["BatchPolicy"] = BatchPolicy
  BY DEF Accessors
<1>2. /\ Props("BatchPolicy") = names
      /\ \A p \in names \ {x} : Accessors["BatchPolicy"][p].sets = p
      /\ x \in names => Accessors["BatchPolicy"][x].sets = "respond_all_keys"
      /\ \A p \in names : Accessors["BatchPolicy"][p].gets = p
  BY <1>1 DEF Props, BatchPolicy
<1>3. <<"BatchPolicy", x>> \in Overwritten /\ <<"BatchPolicy", "respond_all_keys">> \in Overwritten
  BY DEF Overwritten
<1> QED BY <1>2, <1>3 DEF OwnField

\* Every class: its accessors, and the handlers copy all its properties.
LEMMA ClassTable ==
    ASSUME NEW c \in DOMAIN Accessors
    PROVE  Props(c) \subseteq ToPolicy[c] /\ \A p \in Props(c) : OwnField(c, p)
<1>1. c \in {"ReadPolicy", "AdminPolicy", "WritePolicy", "QueryPolicy", "ScanPolicy", "BatchPolicy", "BatchReadPolicy",
             "BatchWritePolicy", "BatchDeletePolicy", "BatchUdfPolicy", "Statement"}
  BY DEF Accessors
<1>2. CASE c = "ReadPolicy"
  <2>1. Accessors[c] = ScReadsAp(BaseNames \cup {"read_touch_ttl_percent"}) /\ <<c, "read_mode_sc">> \in Misread
    BY <1>2 DEF Accessors, ReadPolicy, Misread
  <2>2. ToPolicy[c] = ToReadPolicy
    BY <1>2 DEF ToPolicy
  <2> QED BY <2>1, <2>2, ScClass DEF ToReadPolicy
<1>3. CASE c = "AdminPolicy"
  <2>1. Accessors[c] = Plain({"timeout"})
    BY <1>3 DEF Accessors, AdminPolicy
  <2>2. ToPolicy[c] = {"timeout"}
    BY <1>3 DEF ToPolicy
  <2> QED BY <2>1, <2>2, PlainClass
<1>4. CASE c = "WritePolicy"
  <2>1. ToPolicy[c] = ToReadPolicy \cup WriteNames
    BY <1>4 DEF ToPolicy
  <2> QED BY <1>4, <2>1, WriteClass DEF ToReadPolicy
<1>5. CASE c = "QueryPolicy"
  <2>1. /\ Accessors[c] = ScReadsAp(BaseNames \cup {"expected_duration", "max_concurrent_nodes", "record_queue_size"})
        /\ <<c, "read_mode_sc">> \in Misread
    BY <1>5 DEF Accessors, QueryPolicy, Misread
  <2>2. ToPolicy[c] = ToMultiPolicy \cup {"expected_duration"}
    BY <1>5 DEF ToPolicy
  <2> QED BY <2>1, <2>2, ScClass DEF ToMultiPolicy, ToReadPolicy
<1>6. CASE c = "ScanPolicy"
  <2>1. /\ Accessors[c] = ScReadsAp(BaseNames \cup {"max_records", "max_concurrent_nodes", "record_queue_size"})
        /\ <<c, "read_mode_sc">> \in Misread
    BY <1>6 DEF Accessors, ScanPolicy, Misread
  <2>2. ToPolicy[c] = ToMultiPolicy
    BY <1>6 DEF ToPolicy
  <2> QED BY <2>1, <2>2, ScClass DEF ToMultiPolicy, ToReadPolicy
<1>7. CASE c = "BatchPolicy"
  <2>1. ToPolicy[c] = ToReadPolicy \cup BatchNames
    BY <1>7 DEF ToPolicy
  <2> QED BY <1>7, <2>1, BatchClass DEF ToReadPolicy
<1>8. CASE c = "BatchReadPolicy"
  <2>1. /\ Accessors[c] = ScReadsAp({"filter_expression", "read_mode_ap", "read_mode_sc", "read_touch_ttl_percent"})
        /\ <<c, "read_mode_sc">> \in Misread
    BY <1>8 DEF Accessors, BatchReadPolicy, Misread
  <2>2. ToPolicy[c] = {"filter_expression", "read_mode_ap", "read_mode_sc", "read_touch_ttl_percent"}
    BY <1>8 DEF ToPolicy
  <2> QED BY <2>1, <2>2, ScClass
<1>9. CASE c = "BatchWritePolicy"
  <2>1. Accessors[c] = Plain((WriteNames \ {"respond_per_each_op"}) \cup {"filter_expression", "send_key"})
    BY <1>9 DEF Accessors, BatchWritePolicy
  <2>2. ToPolicy[c] = (WriteNames \ {"respond_per_each_op"}) \cup {"filter_expression", "send_key"}
    BY <1>9 DEF ToPolicy
  <2> QED BY <2>1, <2>2, PlainClass
<1>10. CASE c = "BatchDeletePolicy"
  <2>1. Accessors[c] = Plain({"filter_expression", "commit_level", "generation", "durable_delete", "send_key"})
    BY <1>10 DEF Accessors, BatchDeletePolicy
  <2>2. ToPolicy[c] = {"filter_expression", "commit_level", "generation_policy", "generation", "durable_delete",
                       "send_key"}
    BY <1>10 DEF ToPolicy
  <2> QED BY <2>1, <2>2, PlainClass
<1>11. CASE c = "BatchUdfPolicy"
  <2>1. Accessors[c] = Plain({"filter_expression", "commit_level", "expiration", "durable_delete", "send_key"})
    BY <1>11 DEF Accessors, BatchUdfPolicy
  <2>2. ToPolicy[c] = {"filter_expression", "commit_level", "expiration", "durable_delete", "send_key"}
    BY <1>11 DEF ToPolicy
  <2> QED BY <2>1, <2>2, PlainClass
<1>12. CASE c = "Statement"
  <2>1. Accessors[c] = Plain({"filter", "index_name", "bin_names", "namespace", "set_name"})
    BY <1>12 DEF Accessors, Statement
  <2>2. ToPolicy[c] = ToStatement
    BY <1>12 DEF ToPolicy
  <2> QED BY <2>1, <2>2, PlainClass DEF ToStatement
<1> QED BY <1>1, <1>2, <1>3, <1>4, <1>5, <1>6, <1>7, <1>8, <1>9, <1>10, <1>11, <1>12

(* ------------------------- constants and their numbers --------------------- *)

\* The numbers of the PHP constants and of those of the Go client agree.
LEMMA ConstantsAgree == GoConstants = Constants
  BY DEF GoConstants, Constants, ReadModeAP, ReadModeSC, RecordExistsAction, QueryDuration, CommitLevel,
         GenerationPolicy

\* The constants of an enumeration are numbered from one, and differ.
Distinct(e) ==
    /\ \A k \in DOMAIN e : k \in Nat \ {0}
    /\ \A j, k \in DOMAIN e : e[j] = e[k] => j = k

LEMMA EnumerationsDistinct ==
    /\ Distinct(ReadModeAP) /\ Distinct(ReadModeSC) /\ Distinct(RecordExistsAction)
    /\ Distinct(QueryDuration) /\ Distinct(CommitLevel) /\ Distinct(GenerationPolicy)
<1>1. Distinct(ReadModeAP) /\ Distinct(CommitLevel)
  BY DEF Distinct, ReadModeAP, CommitLevel
<1>2. Distinct(QueryDuration) /\ Distinct(GenerationPolicy)
  BY DEF Distinct, QueryDuration, GenerationPolicy
<1>3. Distinct(ReadModeSC)
  BY DEF Distinct, ReadModeSC
<1>4. Distinct(RecordExistsAction)
  BY DEF Distinct, RecordExistsAction
<1> QED BY <1>1, <1>2, <1>3, <1>4

LEMMA ConstantsDistinct ==
    ASSUME NEW p \in DOMAIN Constants
    PROVE  Distinct(Constants[p]) /\ 1 \in DOMAIN Constants[p]
<1>1. Constants[p] \in {ReadModeAP, ReadModeSC, RecordExistsAction, QueryDuration, CommitLevel, GenerationPolicy}
  BY DEF Constants
<1>2. /\ 1 \in DOMAIN ReadModeAP /\ 1 \in DOMAIN ReadModeSC /\ 1 \in DOMAIN RecordExistsAction
      /\ 1 \in DOMAIN QueryDuration /\ 1 \in DOMAIN CommitLevel /\ 1 \in DOMAIN GenerationPolicy
  BY DEF ReadModeAP, ReadModeSC, RecordExistsAction, QueryDuration, CommitLevel, GenerationPolicy
<1> QED BY <1>1, <1>2, EnumerationsDistinct

\* Neither the expiration nor the timeout is an enumeration.
LEMMA NotEnumerated == "expiration" \notin DOMAIN Constants /\ "timeout" \notin DOMAIN Constants
  BY DEF Constants

\* The number n of a message stands for the value x of property p.
StandsFor(n, p, x) ==
    /\ n \in Int /\ FromU32(p, n) = x
    /\ p \in DOMAIN Constants => n + 1 \in DOMAIN Constants[p]
    /\ p = "timeout" => n \in Nat

\* What a setter stores stands for the value that was set.
LEMMA SetterStores ==
    ASSUME NEW p, NEW x \in Values(p)
    PROVE  StandsFor(Code(p, x), p, x)
<1>1. CASE p \in DOMAIN Constants
  <2> DEFINE e == Constants[p]
  <2>1. Distinct(e)
    BY <1>1, ConstantsDistinct
  <2>2. PICK k \in DOMAIN e : x = Constant(e[k])
    BY <1>1 DEF Values
  <2>3. x.kind = e[k]
    BY <2>2 DEF Constant
  <2>4. \A j \in DOMAIN e : e[j] = x.kind <=> j = k
    BY <2>1, <2>3 DEF Distinct
  <2>5. (CHOOSE j \in DOMAIN e : e[j] = x.kind) = k
    BY <2>4
  <2>6. Code(p, x) = k - 1 /\ k \in Nat
    BY <1>1, <2>1, <2>5 DEF Code, Distinct
  <2>7. Code(p, x) \in Int /\ Code(p, x) + 1 = k
    BY <2>6
  <2>8. FromU32(p, Code(p, x)) = Constant(e[k])
    BY <1>1, <2>7 DEF FromU32
  <2> QED BY <1>1, <2>2, <2>7, <2>8, NotEnumerated DEF StandsFor
<1>2. CASE p = "expiration"
  <2>1. p \notin DOMAIN Constants /\ Code(p, x) = ToU32(x)
    BY <1>2, NotEnumerated DEF Code
  <2>2. x \in {NamespaceDefault, Never, DontUpdate} \cup {Value(n) : n \in Seconds}
    BY <1>2, <2>1 DEF Values
  <2>3. CASE x \in {NamespaceDefault, Never, DontUpdate}
    BY <1>2, <2>1, <2>3 DEF StandsFor, FromU32, ToU32, NamespaceDefault, Never, DontUpdate
  <2>4. CASE \E n \in Seconds : x = Value(n)
    <3>1. PICK n \in Seconds : x = Value(n)
      BY <2>4
    <3>2. n \in Nat \ {0} /\ ToU32(x) = n
      BY <3>1, PoliciesAssumption DEF Value, ToU32
    <3> QED BY <1>2, <2>1, <3>1, <3>2 DEF StandsFor, FromU32
  <2> QED BY <2>2, <2>3, <2>4
<1>3. CASE p \notin DOMAIN Constants /\ p # "expiration"
  <2>1. PICK n \in Nat : x = Value(n)
    BY <1>3, PoliciesAssumption DEF Values
  <2>2. Code(p, x) = n
    BY <1>3, <2>1 DEF Code, ToU32, Value
  <2> QED BY <1>3, <2>1, <2>2 DEF StandsFor, FromU32
<1> QED BY <1>1, <1>2, <1>3

\* Where the number of a value is not that of a constant, the Go client gets it as it is.
LEMMA NumberArrives ==
    ASSUME NEW p, NEW n, NEW x, StandsFor(n, p, x), p \notin DOMAIN Constants
    PROVE  ToU32(x) = n
<1>1. x = IF p = "expiration" /\ n = 0 THEN NamespaceDefault
          ELSE IF p = "expiration" /\ n = -1 THEN Never
          ELSE IF p = "expiration" /\ n = -2 THEN DontUpdate
          ELSE Value(n)
  BY DEF StandsFor, FromU32
<1> QED BY <1>1 DEF ToU32, NamespaceDefault, Never, DontUpdate, Value

(* ------------------------------- new objects ------------------------------- *)

\* The values of a table are naturals, and none of its fields is an enumeration.
Harmless(f) == \A x \in DOMAIN f : f[x] \in Nat /\ x \notin DOMAIN Constants

LEMMA DefaultsHarmless ==
    ASSUME NEW c \in DOMAIN NewPolicy
    PROVE  Harmless(NewPolicy[c])
<1>1. Harmless(ReadDefault)
  BY DEF Harmless, ReadDefault, Constants
<1>2. ASSUME NEW f, NEW g, Harmless(f), Harmless(g) PROVE Harmless(Based(f, g))
  BY <1>2 DEF Harmless, Based
<1>3. Harmless([total_timeout |-> 0, record_queue_size |-> 50, include_bin_data |-> 1])
  BY DEF Harmless, Constants
<1>4. Harmless([concurrent_nodes |-> 1, allow_inline |-> 1, respond_all_keys |-> 1])
  BY DEF Harmless, Constants
<1>5. Harmless([timeout |-> 3000]) /\ Harmless([return_data |-> 1])
  BY DEF Harmless, Constants
<1>6. Harmless(MultiDefault)
  BY <1>1, <1>2, <1>3 DEF MultiDefault
<1>7. Harmless(Based([concurrent_nodes |-> 1, allow_inline |-> 1, respond_all_keys |-> 1], ReadDefault))
  BY <1>1, <1>2, <1>4
<1> HIDE DEF Harmless
<1> QED BY <1>1, <1>5, <1>6, <1>7 DEF NewPolicy

Fields(c) == ToPolicy[c] \cup {Accessors[c][p].sets : p \in Props(c)}

LEMMA NewObject ==
    ASSUME NEW c \in DOMAIN Accessors
    PROVE  /\ Construct(c) \in [Fields(c) -> Int] /\ DOMAIN Construct(c) = Fields(c)
           /\ \A f \in Fields(c) : Construct(c)[f] \in Nat /\ (f \in DOMAIN Constants => Construct(c)[f] = 0)
<1>1. \A f \in Fields(c) : Construct(c)[f] = IF c \in DOMAIN NewPolicy /\ f \in DOMAIN NewPolicy[c]
                                             THEN NewPolicy[c][f] ELSE 0
  BY DEF Construct, Fields
<1>2. \A f \in Fields(c) : Construct(c)[f] \in Nat /\ (f \in DOMAIN Constants => Construct(c)[f] = 0)
  BY <1>1, DefaultsHarmless DEF Harmless
<1>3. DOMAIN Construct(c) = Fields(c) /\ Construct(c) = [f \in Fields(c) |-> Construct(c)[f]]
  BY DEF Construct, Fields
<1> QED BY <1>2, <1>3

(* --------------------------- inductive invariant -------------------------- *)

\* Message m holds, for each property but the two that share a field, a number that
\* stands for its value in l.
Holds(m, l) ==
    /\ m \in [Fields(cls) -> Int] /\ DOMAIN l = Props(cls)
    /\ \A p \in Props(cls) : <<cls, p>> \notin Overwritten => StandsFor(m[p], p, l[p])

\* The copy that a command took holds what was set then, and the Go client's object is
\* the conversion of that copy.
PoliciesInv ==
    /\ cls \in Classes /\ sets \in 0 .. MaxSets
    /\ Holds(msg, last)
    /\ sent.taken => Holds(sent.msg, sent.last)
    /\ go.taken => sent.taken /\ go.policy = [f \in ToPolicy[cls] |-> GoValue(f, sent.msg[f])]

LEMMA NothingIsNotTaken == ~Nothing.taken
  BY DEF Nothing

LEMMA PoliciesInit == Init => PoliciesInv
<1> SUFFICES ASSUME Init PROVE PoliciesInv
  OBVIOUS
<1>1. cls \in Classes /\ cls \in DOMAIN Accessors /\ sets \in 0 .. MaxSets
  BY PoliciesAssumption DEF Init
<1>2. ~sent.taken /\ ~go.taken
  BY NothingIsNotTaken DEF Init
<1>3. msg \in [Fields(cls) -> Int] /\ DOMAIN last = Props(cls)
  BY <1>1, NewObject DEF Init
<1>4. ASSUME NEW p \in Props(cls)
      PROVE  StandsFor(msg[p], p, last[p])
  <2>1. p \in Fields(cls)
    BY <1>1, ClassTable DEF Fields
  <2>2. msg[p] \in Nat /\ (p \in DOMAIN Constants => msg[p] = 0)
    BY <1>1, <2>1, NewObject DEF Init
  <2>3. FromU32(p, msg[p]) = last[p]
    BY DEF Init
  <2>4. p \in DOMAIN Constants => msg[p] + 1 \in DOMAIN Constants[p]
    BY <2>2, ConstantsDistinct
  <2> QED BY <2>2, <2>3, <2>4 DEF StandsFor
<1> QED BY <1>1, <1>2, <1>3, <1>4 DEF PoliciesInv, Holds

LEMMA SetStep ==
    ASSUME PoliciesInv, NEW p \in Props(cls), NEW x \in Values(p), SetProperty(p, x)
    PROVE  PoliciesInv'
<1> DEFINE f == Accessors[cls][p].sets
<1>1. cls \in DOMAIN Accessors /\ cls' = cls /\ sent' = sent /\ go' = go
  BY PoliciesAssumption DEF PoliciesInv, SetProperty
<1>2. sets' \in 0 .. MaxSets
  BY PoliciesAssumption DEF PoliciesInv, SetProperty
<1>3. StandsFor(Code(p, x), p, x)
  BY SetterStores
<1>4. f \in Fields(cls) /\ Code(p, x) \in Int
  BY <1>3 DEF Fields, StandsFor
<1>5. msg' = [msg EXCEPT ![f] = Code(p, x)] /\ last' = [last EXCEPT ![p] = x]
  BY DEF SetProperty
<1>6. msg \in [Fields(cls) -> Int] /\ DOMAIN last = Props(cls)
  BY DEF PoliciesInv, Holds
<1>7. msg' \in [Fields(cls) -> Int] /\ DOMAIN last' = Props(cls)
  BY <1>4, <1>5, <1>6
<1>8. ASSUME NEW q \in Props(cls), <<cls, q>> \notin Overwritten
      PROVE  StandsFor(msg'[q], q, last'[q])
  <2>1. q \in Fields(cls) /\ OwnField(cls, q)
    BY <1>1, ClassTable DEF Fields
  <2>2. CASE q = p
    <3>1. f = q
      BY <1>8, <2>1, <2>2 DEF OwnField
    <3> QED BY <1>3, <1>5, <1>6, <2>1, <2>2, <3>1
  <2>3. CASE q # p
    <3>1. f # q
      BY <1>8, <2>1, <2>3 DEF OwnField
    <3>2. msg'[q] = msg[q] /\ last'[q] = last[q]
      BY <1>5, <1>6, <2>1, <2>3, <3>1
    <3> QED BY <1>8, <3>2 DEF PoliciesInv, Holds
  <2> QED BY <2>2, <2>3
<1>9. Holds(msg, last)'
  BY <1>1, <1>7, <1>8 DEF Holds
<1>10. (sent.taken => Holds(sent.msg, sent.last))'
  BY <1>1 DEF PoliciesInv, Holds
<1>11. (go.taken => sent.taken /\ go.policy = [g \in ToPolicy[cls] |-> GoValue(g, sent.msg[g])])'
  BY <1>1 DEF PoliciesInv
<1> QED BY <1>1, <1>2, <1>9, <1>10, <1>11 DEF PoliciesInv

LEMMA TakeStep ==
    ASSUME PoliciesInv, Take
    PROVE  PoliciesInv'
<1>1. cls' = cls /\ msg' = msg /\ last' = last /\ sets' = sets /\ go' = go
  BY DEF Take
<1>2. sent'.msg = msg /\ sent'.last = last
  BY DEF Take
<1>3. ~go'.taken
  BY <1>1, NothingIsNotTaken DEF Take, PoliciesInv
<1>4. Holds(msg, last)' /\ (Holds(sent.msg, sent.last))'
  BY <1>1, <1>2 DEF PoliciesInv, Holds
<1> QED BY <1>1, <1>3, <1>4 DEF PoliciesInv

LEMMA ConvertStep ==
    ASSUME PoliciesInv, Convert
    PROVE  PoliciesInv'
<1>1. cls' = cls /\ msg' = msg /\ last' = last /\ sets' = sets /\ sent' = sent /\ sent.taken
  BY DEF Convert
<1>2. go'.policy = [f \in ToPolicy[cls] |-> GoValue(f, sent.msg[f])]
  BY DEF Convert
<1>3. Holds(msg, last)' /\ (sent.taken => Holds(sent.msg, sent.last))'
  BY <1>1 DEF PoliciesInv, Holds
<1> QED BY <1>1, <1>2, <1>3 DEF PoliciesInv

LEMMA PoliciesStep == PoliciesInv /\ [Next]_vars => PoliciesInv'
<1> SUFFICES ASSUME PoliciesInv, [Next]_vars PROVE PoliciesInv'
  OBVIOUS
<1>1. CASE \E p \in Props(cls) : \E x \in Values(p) : SetProperty(p, x)
  BY <1>1, SetStep
<1>2. CASE Take
  BY <1>2, TakeStep
<1>3. CASE Convert
  BY <1>3, ConvertStep
<1>4. CASE UNCHANGED vars
  BY <1>4 DEF vars, PoliciesInv, Holds
<1> QED BY <1>1, <1>2, <1>3, <1>4 DEF Next, Done

LEMMA PoliciesInvariant == Spec => []PoliciesInv
  BY PoliciesInit, PoliciesStep, PTL DEF Spec

(* -------------------------------- theorems --------------------------------- *)

\* A message keeps its fields, and the converted policy has a field for each property.
THEOREM TypeCorrect == Spec => []TypeOK
<1>1. PoliciesInv => TypeOK
  <2> SUFFICES ASSUME PoliciesInv PROVE TypeOK
    OBVIOUS
  <2>1. cls \in DOMAIN Accessors
    BY PoliciesAssumption DEF PoliciesInv
  <2>2. go.taken => DOMAIN go.policy = ToPolicy[cls]
    BY DEF PoliciesInv
  <2>3. go.taken => Props(cls) \subseteq DOMAIN go.policy
    BY <2>1, <2>2, ClassTable
  <2> QED BY <2>1, <2>3, NewObject DEF PoliciesInv, Holds, TypeOK
<1> QED BY <1>1, PoliciesInvariant, PTL

\* A getter returns what was set last, after any sequence of setter calls of any values,
\* but for the six properties whose getter reads another field and the two that share one.
THEOREM GettersReturnLastSet == Spec => []GetReturnsLastSet
<1>1. PoliciesInv => GetReturnsLastSet
  <2> SUFFICES ASSUME PoliciesInv, NEW p \in Props(cls), <<cls, p>> \notin Misread \cup Overwritten
               PROVE  Get(p) = last[p]
    BY DEF GetReturnsLastSet
  <2>1. Accessors[cls][p].gets = p
    BY PoliciesAssumption, ClassTable DEF PoliciesInv, OwnField
  <2> QED BY <2>1 DEF Get, PoliciesInv, Holds, StandsFor
<1> QED BY <1>1, PoliciesInvariant, PTL

\* A command runs with the values its policy had when the command was made, whatever
\* was set before and after.
THEOREM CommandsKeepTheirPolicy == Spec => []CommandKeepsItsPolicy
<1>1. PoliciesInv => CommandKeepsItsPolicy
  <2> SUFFICES ASSUME PoliciesInv, go.taken, NEW p \in Props(cls), <<cls, p>> \notin Overwritten, p # "timeout"
               PROVE  go.policy[p] = IF p \in DOMAIN GoConstants THEN sent.last[p].kind ELSE ToU32(sent.last[p])
    BY DEF CommandKeepsItsPolicy
  <2> DEFINE n == sent.msg[p]
             x == sent.last[p]
  <2>1. StandsFor(n, p, x)
    BY DEF PoliciesInv, Holds
  <2>2. p \in ToPolicy[cls]
    BY PoliciesAssumption, ClassTable DEF PoliciesInv
  <2>3. go.policy[p] = GoValue(p, n)
    BY <2>2 DEF PoliciesInv
  <2> HIDE DEF n, x
  <2>4. CASE p \in DOMAIN Constants
    <3>1. x = Constant(Constants[p][n + 1])
      BY <2>1, <2>4 DEF StandsFor, FromU32
    <3>2. GoValue(p, n) = Constants[p][n + 1]
      BY <2>4, ConstantsAgree DEF GoValue
    <3>3. x.kind = Constants[p][n + 1]
      BY <3>1 DEF Constant
    <3> QED BY <2>3, <2>4, <3>2, <3>3, ConstantsAgree DEF x
  <2>5. CASE p \notin DOMAIN Constants
    <3>1. GoValue(p, n) = n
      BY <2>5, ConstantsAgree DEF GoValue
    <3> QED BY <2>1, <2>3, <2>5, <3>1, NumberArrives, ConstantsAgree DEF x
  <2> QED BY <2>4, <2>5
<1> QED BY <1>1, PoliciesInvariant, PTL

\* A product of 32 bits keeps the timeouts up to 4294 ms and no longer one.
LEMMA ProductFits ==
    ASSUME NEW ms \in Nat
    PROVE  ToAdminPolicy(ms) = ms * Millisecond <=> ms <= 4294
<1>1. ASSUME NEW a \in Nat PROVE a % 67108864 = a <=> a < 67108864
  OBVIOUS
<1>2. ms * 15625 \in Nat /\ (ms * 15625 < 67108864 <=> ms <= 4294)
  OBVIOUS
<1> QED BY <1>1, <1>2 DEF ToAdminPolicy, Millisecond, TwoTo32

\* The timeout of an admin command, of any number of milliseconds, arrives as it was set
\* exactly if it is at most 4294 ms.
THEOREM AdminTimeoutsFit == Spec => []AdminTimeoutFits
<1>1. PoliciesInv => AdminTimeoutFits
  <2> SUFFICES ASSUME PoliciesInv, cls = "AdminPolicy", go.taken
               PROVE  go.policy["timeout"] = sent.last["timeout"].n * Millisecond <=> sent.last["timeout"].n <= 4294
    BY DEF AdminTimeoutFits
  <2> DEFINE n == sent.msg["timeout"]
  <2>1. "timeout" \in Props(cls) /\ "timeout" \in ToPolicy[cls] /\ <<cls, "timeout">> \notin Overwritten
    BY DEF Props, Accessors, AdminPolicy, Plain, ToPolicy, Overwritten
  <2>2. StandsFor(n, "timeout", sent.last["timeout"])
    BY <2>1 DEF PoliciesInv, Holds
  <2>3. go.policy["timeout"] = ToAdminPolicy(n)
    BY <2>1 DEF PoliciesInv, GoValue
  <2>4. n \in Nat /\ sent.last["timeout"] = Value(n)
    BY <2>2, NotEnumerated DEF StandsFor, FromU32
  <2>5. sent.last["timeout"].n = n
    BY <2>4 DEF Value
  <2> QED BY <2>3, <2>4, <2>5, ProductFits
<1> QED BY <1>1, PoliciesInvariant, PTL
=================================================================================
