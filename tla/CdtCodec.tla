-------------------------------- MODULE CdtCodec --------------------------------
(* How a list, map, HyperLogLog or bit operation travels from the PHP method   *)
(* that creates it to the constructor of the Go client: the method puts an     *)
(* operation code and its arguments, by position, in a message; the connection *)
(* manager switches on the code and reads the arguments back by position.  The *)
(* two sides are written in different languages and share only the code and    *)
(* the order of the arguments.                                                 *)
(*                                                                             *)
(* A method is named after the operation it creates.  An argument is the pair  *)
(* of its wire kind and the parameter it carries, so that the value that       *)
(* arrives in a parameter tells which parameter it was.  Return type, context  *)
(* and write flags travel in fields of their own, as numbers.  An operation is *)
(* a method and what its caller chose of these.                                *)
EXTENDS Naturals, Sequences, FiniteSetsExt, Tables

I(p) == [kind |-> "int", param |-> p]
B(p) == [kind |-> "bool", param |-> p]
Blob(p) == [kind |-> "blob", param |-> p]
L(p) == [kind |-> "list", param |-> p]
V(p) == [kind |-> "value", param |-> p]

\* What a method of each name sends.
Sends(names, args) ==
    [n \in names |-> [op |-> n, takes |-> {args[k].param : k \in DOMAIN args}, args |-> args]]

\* A method that sends another code, or other arguments, than it takes.
SendsAs(name, op, takes, args) == Entry(name, [op |-> op, takes |-> takes, args |-> args])

(* ------------------------------ PHP: list methods ------------------------- *)

ListCreation == Join(<<
    Sends({"ListCreate"}, <<I("order"), B("pad"), B("index")>>),
    Sends({"ListSetOrder"}, <<I("order")>>),
    Sends({"ListAppend"}, <<L("values")>>),
    Sends({"ListInsert"}, <<I("index"), L("values")>>)>>)

ListPop == Join(<<
    Sends({"ListPop", "ListPopRangeFrom"}, <<I("index")>>),
    Sends({"ListPopRange"}, <<I("index"), I("count")>>)>>)

\* remove_by_value_range sends the code of remove_values.  Both value ranges leave
\* out the argument of an absent end.
ListRemoveByValue == Join(<<
    Sends({"ListRemoveByValueList"}, <<L("values")>>),
    SendsAs("ListRemoveByValueRange", "ListRemoveByValueList", {"begin", "end"}, <<V("begin"), V("end")>>),
    Sends({"ListRemoveByValueRelativeRankRange"}, <<V("value"), I("rank")>>),
    Sends({"ListRemoveByValueRelativeRankRangeCount"}, <<V("value"), I("rank"), I("count")>>)>>)

ListChange == Join(<<
    Sends({"ListRemoveRange", "ListTrim"}, <<I("index"), I("count")>>),
    Sends({"ListRemoveRangeFrom"}, <<I("index")>>),
    Sends({"ListSet", "ListIncrement"}, <<I("index"), V("value")>>),
    Sends({"ListClear"}, << >>)>>)

ListSizeSort == Join(<<
    Sends({"ListSize"}, << >>),
    Sends({"ListSort"}, <<I("sort_flags")>>)>>)

ListRemoveBy == Join(<<
    Sends({"ListRemoveByIndex", "ListRemoveByIndexRange"}, <<I("index")>>),
    Sends({"ListRemoveByIndexRangeCount"}, <<I("index"), I("count")>>),
    Sends({"ListRemoveByRank", "ListRemoveByRankRange"}, <<I("rank")>>),
    Sends({"ListRemoveByRankRangeCount"}, <<I("rank"), I("count")>>)>>)

ListGetByIndex == Join(<<
    Sends({"ListGetByValueList"}, <<L("values")>>),
    Sends({"ListGetByValueRange"}, <<V("begin"), V("end")>>),
    SendsAs("ListGetByValueRangeOpen", "ListGetByValueRange", {"begin"}, <<V("begin")>>),
    Sends({"ListGetByIndex", "ListGetByIndexRange"}, <<I("index")>>),
    Sends({"ListGetByIndexRangeCount"}, <<I("index"), I("count")>>)>>)

ListGetByRank == Join(<<
    Sends({"ListGetByRank", "ListGetByRankRange"}, <<I("rank")>>),
    Sends({"ListGetByRankRangeCount"}, <<I("rank"), I("count")>>),
    Sends({"ListGetByValueRelativeRankRange"}, <<V("value"), I("rank")>>),
    Sends({"ListGetByValueRelativeRankRangeCount"}, <<V("value"), I("rank"), I("count")>>)>>)

(* ------------------------------- PHP: map methods ------------------------- *)

\* create puts the order in a policy and sends no argument; size sends the code of
\* set_policy.
MapCreation == Join(<<
    SendsAs("MapCreate", "MapCreate", {"order"}, << >>),
    Sends({"MapSetPolicy"}, << >>),
    SendsAs("MapSize", "MapSetPolicy", {}, << >>)>>)

MapChange == Join(<<
    Sends({"MapClear"}, << >>),
    Sends({"MapPutItems"}, <<V("map")>>),
    Sends({"MapIncrement"}, <<V("key"), V("incr")>>),
    Sends({"MapDecrement"}, <<V("key"), V("decr")>>)>>)

MapRemoveByKey == Join(<<
    Sends({"MapRemoveByKeyList"}, <<L("keys")>>),
    Sends({"MapRemoveByKeyRange"}, <<V("begin"), V("end")>>)>>)

\* The counted removal by relative rank sends the code of the uncounted one.
MapRemoveByValue == Join(<<
    Sends({"MapRemoveByValueList"}, <<L("values")>>),
    Sends({"MapRemoveByValueRange"}, <<V("begin"), V("end")>>),
    Sends({"MapRemoveByValueRelativeRankRange"}, <<V("value"), I("rank")>>),
    SendsAs("MapRemoveByValueRelativeRankRangeCount", "MapRemoveByValueRelativeRankRange",
               {"value", "rank", "count"}, <<V("value"), I("rank"), I("count")>>)>>)

MapRemoveByIndex == Join(<<
    Sends({"MapRemoveByIndex", "MapRemoveByIndexRange"}, <<I("index")>>),
    Sends({"MapRemoveByIndexRangeCount"}, <<I("index"), I("count")>>),
    Sends({"MapRemoveByRank", "MapRemoveByRankRange"}, <<I("rank")>>),
    Sends({"MapRemoveByRankRangeCount"}, <<I("rank"), I("count")>>)>>)

MapByKey == Join(<<
    Sends({"MapRemoveByKeyRelativeIndexRange"}, <<V("key"), I("index")>>),
    Sends({"MapRemoveByKeyRelativeIndexRangeCount"}, <<V("key"), I("index"), I("count")>>),
    Sends({"MapGetByKeyList"}, <<L("keys")>>),
    Sends({"MapGetByKeyRange"}, <<V("begin"), V("end")>>)>>)

MapGetByKey == Join(<<
    Sends({"MapGetByKeyRelativeIndexRange"}, <<V("key"), I("index")>>),
    Sends({"MapGetByKeyRelativeIndexRangeCount"}, <<V("key"), I("index"), I("count")>>),
    Sends({"MapGetByValueList"}, <<L("values")>>),
    Sends({"MapGetByValueRange"}, <<V("begin"), V("end")>>)>>)

MapGetByValue == Join(<<
    Sends({"MapGetByValueRelativeRankRange"}, <<V("value"), I("rank")>>),
    Sends({"MapGetByValueRelativeRankRangeCount"}, <<V("value"), I("rank"), I("count")>>),
    Sends({"MapGetByIndex"}, <<I("index")>>)>>)

\* The ranges by index and by rank take parameters the operation does not have.
MapGetRange == Join(<<
    Sends({"MapGetByIndexRange", "MapGetByRankRange"}, <<V("begin"), V("end")>>),
    Sends({"MapGetByIndexRangeCount"}, <<I("index"), I("rank"), I("count")>>),
    Sends({"MapGetByRank"}, <<I("rank")>>),
    Sends({"MapGetByRankRangeCount"}, <<I("rank"), I("range"), I("count")>>)>>)

(* -------------------- PHP: HyperLogLog and bit methods -------------------- *)

\* Mutant: the two bit counts of init are swapped.
HllWritesSwapped == Join(<<
    Sends({"HLLInit"}, <<I("min_hash_bit_count"), I("index_bit_count")>>),
    Sends({"HLLAdd"}, <<L("list"), I("index_bit_count"), I("min_hash_bit_count")>>),
    Sends({"HLLSetUnion"}, <<L("list")>>),
    Sends({"HLLRefreshCount"}, << >>),
    Sends({"HLLFold"}, <<I("index_bit_count")>>)>>)

HllWrites == Join(<<
    Sends({"HLLInit"}, <<I("index_bit_count"), I("min_hash_bit_count")>>),
    Sends({"HLLAdd"}, <<L("list"), I("index_bit_count"), I("min_hash_bit_count")>>),
    Sends({"HLLSetUnion"}, <<L("list")>>),
    Sends({"HLLRefreshCount"}, << >>),
    Sends({"HLLFold"}, <<I("index_bit_count")>>)>>)

HllReads == Join(<<
    Sends({"HLLGetCount", "HLLDescribe"}, << >>),
    Sends({"HLLGetUnion", "HLLGetUnionCount", "HLLGetIntersectCount", "HLLGetSimilarity"}, <<L("list")>>)>>)

BitBytes == Join(<<
    Sends({"BitResize"}, <<I("byte_size"), I("resize_flags")>>),
    Sends({"BitInsert"}, <<I("byte_offset"), Blob("value")>>),
    Sends({"BitRemove"}, <<I("byte_offset"), I("byte_size")>>),
    Sends({"BitSet"}, <<I("bit_offset"), I("bit_size"), Blob("value")>>)>>)

BitLogic == Join(<<
    Sends({"BitOr", "BitXor", "BitAnd"}, <<I("bit_offset"), I("bit_size"), Blob("value")>>),
    Sends({"BitNot"}, <<I("bit_offset"), I("bit_size")>>)>>)

BitArithmetic == Join(<<
    Sends({"BitLShift", "BitRShift"}, <<I("bit_offset"), I("bit_size"), I("shift")>>),
    Sends({"BitAdd", "BitSubtract"}, <<I("bit_offset"), I("bit_size"), I("value"), B("signed"), I("action")>>)>>)

BitSetInt == Sends({"BitSetInt"}, <<I("bit_offset"), I("bit_size"), I("value")>>)

BitReads == Join(<<
    Sends({"BitGet", "BitCount"}, <<I("bit_offset"), I("bit_size")>>),
    Sends({"BitLScan", "BitRScan"}, <<I("bit_offset"), I("bit_size"), B("value")>>),
    Sends({"BitGetInt"}, <<I("bit_offset"), I("bit_size"), B("signed")>>)>>)

\* Operation: the plain bin operations, with the bin in fields of their own.
StdMethods == Join(<<
    Sends({"Get", "GetHeader", "Touch", "Delete"}, << >>),
    Sends({"Put", "Append", "Prepend", "Add"}, <<V("bin_value")>>)>>)

Client == Join(<<
    ListCreation, ListPop, ListRemoveByValue, ListChange, ListSizeSort, ListRemoveBy, ListGetByIndex,
    ListGetByRank, MapCreation, MapChange, MapRemoveByKey, MapRemoveByValue, MapRemoveByIndex, MapByKey,
    MapGetByKey, MapGetByValue, MapGetRange, HllWrites, HllReads, BitBytes, BitLogic, BitArithmetic,
    BitSetInt, BitReads, StdMethods>>)

(* ------------- PHP: return types, contexts and write flags ---------------- *)

\* The caller's choices; Default where a return type is left out, and the class and
\* the numbers of the flags of a policy, which has none when flags is empty.  The
\* argument of a method that takes a value or a list is fit, a list of a single
\* element, or unfit, a value the method does not take.
Default == 99
Op(method) ==
    [method |-> method, returns |-> Default, ctx |-> << >>, flags |-> {}, of |-> "none", arg |-> "fit"]

ListReturning == DOMAIN Join(<<ListRemoveByValue, ListRemoveBy, ListGetByIndex, ListGetByRank>>)

MapReturning == DOMAIN Join(<<
    MapRemoveByKey, MapRemoveByValue, MapRemoveByIndex, MapByKey, MapGetByKey, MapGetByValue, MapGetRange>>)

\* None, Index, Reverse_index, Rank, Reverse_rank, Count, Value, Exists
ListReturnTypes == (0 .. 5) \cup {7, 13}

\* None, Index, Reverse_Index, Rank, Reverse_Rank, Count, Key, Value, Key_Value, Exists,
\* Unordered_Map, Ordered_Map
MapReturnTypes == (0 .. 8) \cup {13, 16, 17}

\* Inverted sets bit 16 of a return type of either kind.
Inverted(type) == IF type < 65536 THEN type + 65536 ELSE type

\* A method sends Value or Key_Value when its caller leaves the return type out.
ReturnType(op) ==
    IF op.returns # Default THEN op.returns ELSE IF op.method \in ListReturning THEN 7 ELSE 8

\* CDTContext: a place in a nested list or map.  The flags of a context that creates
\* what is missing are bits 6 and 7 of its id.
ContextType ==
    [ListIndex |-> 16, ListRank |-> 17, ListValue |-> 19, MapIndex |-> 32, MapRank |-> 33, MapKey |-> 34,
     MapValue |-> 35]

Plain(type) == [type |-> type, create |-> "no"]
Creating(type, create) == [type |-> type, create |-> create]

\* list_order_flag and MapOrderType::flag.  An ordered list has no padding.
ListOrderFlag(order, pad) == IF order = "ordered" THEN 192 ELSE IF pad THEN 128 ELSE 64

MapOrderFlag == [unordered |-> 64, key_ordered |-> 128, key_value_ordered |-> 192]

CreateFlag(ctx) ==
    IF ctx.create = "no" THEN 0
    ELSE IF ctx.type = "MapKey" THEN MapOrderFlag[ctx.create]
    ELSE IF ctx.create \in {"padded", "ordered_padded"}
    THEN ListOrderFlag(IF ctx.create = "padded" THEN "unordered" ELSE "ordered", TRUE)
    ELSE ListOrderFlag(ctx.create, FALSE)

ContextId(ctx) == ContextType[ctx.type] + CreateFlag(ctx)

\* The policies of the four kinds of operations, and the class of write flags their
\* constructors take: HllPolicy takes the flags of lists.
FlagClass == [list |-> "list", map |-> "map", hll |-> "list", bit |-> "bit"]

KindOf(method) ==
    IF method \in DOMAIN HllWrites THEN "hll"
    ELSE IF method \in DOMAIN MapCreation \cup DOMAIN MapChange \cup MapReturning THEN "map"
    ELSE IF method \in DOMAIN BitBytes \cup DOMAIN BitLogic \cup DOMAIN BitArithmetic \cup DOMAIN BitSetInt
    THEN "bit" ELSE "list"

\* Flags of another class are not accepted, and PHP raises an error.
FlagsRefused(op) == op.flags # {} /\ op.of # FlagClass[KindOf(op.method)]

\* assert_map refuses for put what is not a map, an empty array and one with the keys
\* 0, 1, ... included; assert_hll_list refuses for the unions, the intersection and the
\* similarity a list with anything but HyperLogLogs; from_zval refuses foreign objects
\* for every method.  PHP has an exception then, and no operation.
ArgRefused(op) == op.arg = "unfit"

OpRefused(op) == FlagsRefused(op) \/ ArgRefused(op)

\* The operations that the connection manager takes for a list of a single element.
ForOne ==
    [ListRemoveByValueList |-> "ListRemoveByValue", ListGetByValueList |-> "ListGetByValue",
     MapRemoveByKeyList |-> "MapRemoveByKey", MapRemoveByValueList |-> "MapRemoveByValue",
     MapGetByKeyList |-> "MapGetByKey", MapGetByValueList |-> "MapGetByValue"]

\* The methods that take a value or a list.
AnyValue(method) ==
    \E k \in DOMAIN Client[method].args : Client[method].args[k].kind \in {"value", "list"}

\* The flags of a policy are joined in one number; each is a bit of its own.
JoinFlags(flags) == SumSet(flags)

\* An operation as a program may make it: with a return type of its kind, inverted or
\* not, in places that create at a list index or a map key only, with flags of the
\* enumeration named after its kind or of the one its policy takes, and with an argument
\* that is fit, or not, where it matters.
OrInverted(types) == types \cup {Inverted(t) : t \in types}

IsPlace(ctx) ==
    /\ ctx.type \in DOMAIN ContextType
    /\ \/ ctx.create = "no"
       \/ ctx.type = "ListIndex" /\ ctx.create \in {"unordered", "padded", "ordered", "ordered_padded"}
       \/ ctx.type = "MapKey" /\ ctx.create \in DOMAIN MapOrderFlag

IsOp(op) ==
    /\ op.method \in DOMAIN Client
    /\ \/ op.returns = Default
       \/ op.method \in ListReturning /\ op.returns \in OrInverted(ListReturnTypes)
       \/ op.method \in MapReturning /\ op.returns \in OrInverted(MapReturnTypes)
    /\ \A k \in DOMAIN op.ctx : IsPlace(op.ctx[k])
    /\ op.flags # {} => op.of \in {KindOf(op.method), FlagClass[KindOf(op.method)]}
    /\ \/ op.arg = "fit"
       \/ op.arg = "one" /\ op.method \in DOMAIN ForOne
       \/ op.arg = "unfit" /\ AnyValue(op.method)

(* --------------------- connection manager: decoding ------------------------ *)

\* The arguments each code reads, by position and with the getter of a kind.
Reads(codes, args) == [c \in codes |-> [k \in DOMAIN args |-> [at |-> k, arg |-> args[k]]]]

ToStdOp == Join(<<
    Reads({"Get", "GetHeader", "Touch", "Delete"}, << >>),
    Reads({"Put", "Append", "Prepend", "Add"}, <<V("bin_value")>>)>>)

ToCdtListOp == Join(<<
    Reads({"ListCreate"}, <<I("order"), B("pad"), B("index")>>),
    Reads({"ListSetOrder"}, <<I("order")>>),
    Reads({"ListAppend", "ListGetByValueList", "ListRemoveByValueList"}, <<L("values")>>),
    Reads({"ListInsert"}, <<I("index"), L("values")>>),
    Reads({"ListPop", "ListPopRangeFrom", "ListRemoveRangeFrom", "ListGetByIndex", "ListGetByIndexRange",
              "ListRemoveByIndex", "ListRemoveByIndexRange"}, <<I("index")>>),
    Reads({"ListPopRange", "ListTrim", "ListRemoveRange", "ListGetByIndexRangeCount",
              "ListRemoveByIndexRangeCount"}, <<I("index"), I("count")>>),
    Reads({"ListSet", "ListIncrement"}, <<I("index"), V("value")>>),
    Reads({"ListClear", "ListSize"}, << >>),
    Reads({"ListSort"}, <<I("sort_flags")>>),
    Reads({"ListGetByValueRange", "ListRemoveByValueRange"}, <<V("begin"), V("end")>>),
    Reads({"ListGetByRank", "ListGetByRankRange", "ListRemoveByRank", "ListRemoveByRankRange"}, <<I("rank")>>),
    Reads({"ListGetByRankRangeCount", "ListRemoveByRankRangeCount"}, <<I("rank"), I("count")>>),
    Reads({"ListGetByValueRelativeRankRange", "ListRemoveByValueRelativeRankRange"}, <<V("value"), I("rank")>>),
    Reads({"ListGetByValueRelativeRankRangeCount", "ListRemoveByValueRelativeRankRangeCount"},
             <<V("value"), I("rank"), I("count")>>)>>)

ToCdtMapOp == Join(<<
    Reads({"MapCreate"}, <<I("order")>>),
    Reads({"MapSetPolicy", "MapClear", "MapSize"}, << >>),
    Reads({"MapPutItems"}, <<V("map")>>),
    Reads({"MapIncrement"}, <<V("key"), V("incr")>>),
    Reads({"MapDecrement"}, <<V("key"), V("decr")>>),
    Reads({"MapRemoveByKeyList", "MapGetByKeyList"}, <<L("keys")>>),
    Reads({"MapRemoveByValueList", "MapGetByValueList"}, <<L("values")>>),
    Reads({"MapRemoveByKeyRange", "MapRemoveByValueRange", "MapGetByKeyRange", "MapGetByValueRange"},
             <<V("begin"), V("end")>>),
    Reads({"MapRemoveByValueRelativeRankRange", "MapGetByValueRelativeRankRange"}, <<V("value"), I("rank")>>),
    Reads({"MapRemoveByValueRelativeRankRangeCount", "MapGetByValueRelativeRankRangeCount"},
             <<V("value"), I("rank"), I("count")>>),
    Reads({"MapRemoveByIndex", "MapRemoveByIndexRange", "MapGetByIndex", "MapGetByIndexRange"}, <<I("index")>>),
    Reads({"MapRemoveByIndexRangeCount", "MapGetByIndexRangeCount"}, <<I("index"), I("count")>>),
    Reads({"MapRemoveByRank", "MapRemoveByRankRange", "MapGetByRank", "MapGetByRankRange"}, <<I("rank")>>),
    Reads({"MapRemoveByRankRangeCount", "MapGetByRankRangeCount"}, <<I("rank"), I("count")>>),
    Reads({"MapRemoveByKeyRelativeIndexRange", "MapGetByKeyRelativeIndexRange"}, <<V("key"), I("index")>>),
    Reads({"MapRemoveByKeyRelativeIndexRangeCount", "MapGetByKeyRelativeIndexRangeCount"},
             <<V("key"), I("index"), I("count")>>)>>)

ToCdtHLLOp == Join(<<
    Reads({"HLLInit"}, <<I("index_bit_count"), I("min_hash_bit_count")>>),
    Reads({"HLLAdd"}, <<L("list"), I("index_bit_count"), I("min_hash_bit_count")>>),
    Reads({"HLLFold"}, <<I("index_bit_count")>>),
    Reads({"HLLRefreshCount", "HLLGetCount", "HLLDescribe"}, << >>),
    Reads({"HLLSetUnion", "HLLGetUnion", "HLLGetUnionCount", "HLLGetIntersectCount", "HLLGetSimilarity"},
             <<L("list")>>)>>)

\* Add and Subtract read the overflow action where the sign flag is.
ToCdtBitwiseOp == Join(<<
    Reads({"BitResize"}, <<I("byte_size"), I("resize_flags")>>),
    Reads({"BitInsert"}, <<I("byte_offset"), Blob("value")>>),
    Reads({"BitRemove"}, <<I("byte_offset"), I("byte_size")>>),
    Reads({"BitSet", "BitOr", "BitXor", "BitAnd"}, <<I("bit_offset"), I("bit_size"), Blob("value")>>),
    Reads({"BitNot", "BitGet", "BitCount"}, <<I("bit_offset"), I("bit_size")>>),
    Reads({"BitLShift", "BitRShift"}, <<I("bit_offset"), I("bit_size"), I("shift")>>),
    [c \in {"BitAdd", "BitSubtract"} |->
          <<[at |-> 1, arg |-> I("bit_offset")], [at |-> 2, arg |-> I("bit_size")], [at |-> 3, arg |-> I("value")],
            [at |-> 4, arg |-> B("signed")], [at |-> 4, arg |-> I("action")]>>],
    Reads({"BitSetInt"}, <<I("bit_offset"), I("bit_size"), I("value")>>),
    Reads({"BitLScan", "BitRScan"}, <<I("bit_offset"), I("bit_size"), B("value")>>),
    Reads({"BitGetInt"}, <<I("bit_offset"), I("bit_size"), B("signed")>>)>>)

Server == Join(<<ToStdOp, ToCdtListOp, ToCdtMapOp, ToCdtHLLOp, ToCdtBitwiseOp>>)

(* ------------------------------- the way over ------------------------------ *)

\* The message a method creates.
Encode(op) ==
    [op |-> Client[op.method].op, args |-> Client[op.method].args, one |-> op.arg = "one", returnType |-> ReturnType(op),
     ctx |-> [k \in DOMAIN op.ctx |-> ContextId(op.ctx[k])], flags |-> JoinFlags(op.flags)]

\* Reading an argument that is not there panics, and so does reading the elements
\* of what is not a list.
Panics(msg) ==
    \/ msg.op \notin DOMAIN Server
    \/ \E r \in {Server[msg.op][k] : k \in DOMAIN Server[msg.op]} :
          \/ r.at > Len(msg.args)
          \/ r.arg.kind = "list" /\ msg.args[r.at].kind # "list"

\* The getter of another kind yields the zero of its kind.
Got(msg, r) ==
    IF r.arg.kind \in {"value", msg.args[r.at].kind} \/ msg.args[r.at].kind = "value"
    THEN msg.args[r.at].param
    ELSE "zero"

\* The return type of a list operation is cast; toCdtMapReturnType switches on the
\* types it knows, the inverted None among them, and makes None of the others.
ToReturnType(msg) ==
    IF msg.op \notin MapReturning THEN msg.returnType
    ELSE IF msg.returnType \in MapReturnTypes \cup {Inverted(0)} THEN msg.returnType
    ELSE 0

\* toCDTContext copies the id, and the cluster takes it apart.
ToCdtContext(id) == [type |-> id % 64, create |-> id - (id % 64)]

\* toOp: the operation of the Go client, and what each of its parameters receives.
\* A list of one element selects the operation for its element.
ToOp(msg) ==
    LET reads == {Server[msg.op][k] : k \in DOMAIN Server[msg.op]} IN
    [name |-> IF msg.one /\ msg.op \in DOMAIN ForOne THEN ForOne[msg.op] ELSE msg.op,
     given |-> {<<r.arg.param, Got(msg, r)>> : r \in reads},
     returns |-> IF msg.op \in ListReturning \cup MapReturning THEN ToReturnType(msg) ELSE Default,
     ctx |-> [k \in DOMAIN msg.ctx |-> ToCdtContext(msg.ctx[k])],
     flags |-> msg.flags]

\* What the Go client calls the creation flags of a context.
CreateBits ==
    [no |-> 0, unordered |-> 64, padded |-> 128, key_ordered |-> 128, ordered |-> 192, ordered_padded |-> 192,
     key_value_ordered |-> 192]

\* The operation that was asked for: each parameter receives its own argument, and
\* the return type, the places and the flags are the chosen ones.  A list of one
\* element asks for the operation on that element: five of the six methods are documented
\* under its name (ListRemoveByValueOp, MapGetByKeyOp, ...), and CDTMapOpTest.php reads
\* the bare value of a list of one key.
Asked(op) ==
    [name |-> IF op.arg = "one" THEN ForOne[op.method] ELSE op.method,
     given |-> {<<p, p>> : p \in Client[op.method].takes},
     returns |-> IF op.method \in ListReturning \cup MapReturning THEN ReturnType(op) ELSE Default,
     ctx |-> [k \in DOMAIN op.ctx |-> [type |-> ContextType[op.ctx[k].type],
                                       create |-> CreateBits[op.ctx[k].create]]],
     flags |-> JoinFlags(op.flags)]
================================================================================
