----------------------------- MODULE ExpressionCodec -----------------------------
(* How a filter expression travels from the methods of Aerospike\Expression to *)
(* the constructors of the Go client: a method puts a command and its          *)
(* arguments in the fields of a message, toExpression switches on the command  *)
(* and reads the fields it expects.  A constant has no command: the kind of    *)
(* its value selects the constructor.                                          *)
(*                                                                             *)
(* A method is named after the constructor it stands for.  An argument is its  *)
(* parameter, so that what arrives in a parameter tells which one it was.      *)
EXTENDS Naturals, Sequences, Tables

Absent == "-"

NoVal == [kind |-> Absent, param |-> Absent]
ExpVal(kind, param) == [kind |-> kind, param |-> param]

\* Expression::new
NewExp(cmd, val, bin, flags, module, exps) ==
    [cmd |-> cmd, val |-> val, bin |-> bin, flags |-> flags, module |-> module, exps |-> exps]

\* A command with a value, one with expressions, and several with the same expressions.
Valued(cmd, val) == NewExp(cmd, val, Absent, Absent, Absent, << >>)
Over(cmd, exps) == NewExp(cmd, NoVal, Absent, Absent, Absent, exps)
OverEach(names, exps) == [n \in names |-> Over(n, exps)]

(* ------------------------------- PHP methods ------------------------------ *)

\* The member of the message for a constant.
ValKind ==
    [IntVal |-> "I", BoolVal |-> "B", StringVal |-> "S", FloatVal |-> "F", BlobVal |-> "Blob", GeoVal |-> "Geo",
     ListVal |-> "L", MapVal |-> "M"]

\* The numbers of ExpType, by the kind of bin.
ExpType ==
    [BoolBin |-> 1, IntBin |-> 2, StringBin |-> 3, ListBin |-> 4, MapBin |-> 5, BlobBin |-> 6, FloatBin |-> 7,
     GeoBin |-> 8, HLLBin |-> 9]

\* The key and the bins.  bin_exists is made of three others.
BinExps == Join(<<
    Entry("Key", Valued("Key", ExpVal("I", "exp_type"))),
    Entry("KeyExists", Valued("KeyExists", NoVal)),
    [n \in {"IntBin", "StringBin", "BlobBin", "FloatBin", "GeoBin", "ListBin", "MapBin", "HLLBin"} |->
          NewExp("Bin", ExpVal("S", "name"), Absent, Absent, ExpType[n], << >>)]>>)

\* Record metadata, and the two comparisons of contents.
RecordExps == Join(<<
    [n \in {"SetName", "DeviceSize", "MemorySize", "LastUpdate", "SinceUpdate", "VoidTime", "TTL",
            "IsTombstone"} |-> Valued(n, NoVal)],
    Entry("BinType", Valued("BinType", ExpVal("S", "name"))),
    Entry("DigestModulo", Valued("DigestModulo", ExpVal("I", "modulo"))),
    Entry("RegexCompare", NewExp("Regex", ExpVal("S", "regex"), "bin", "flags", Absent, << >>)),
    Entry("GeoCompare", Over("GeoCompare", <<"left", "right">>))>>)

\* Constants have no command.  NoMapVal is map_val of what is not a map.
ValExps == Join(<<
    Entry("NilValue", Valued(Absent, ExpVal("Nil", "nil"))),
    [n \in {"IntVal", "BoolVal", "StringVal", "FloatVal", "BlobVal", "GeoVal", "ListVal", "MapVal"} |->
          Valued(Absent, ExpVal(ValKind[n], "val"))],
    Entry("EmptyListVal", Valued(Absent, ExpVal("L0", "val"))),
    Entry("NoMapVal", Valued(Absent, ExpVal("M", "val"))),
    Entry("InfinityValue", Valued(Absent, ExpVal("Infinity", "infinity"))),
    Entry("WildCardValue", Valued(Absent, ExpVal("Wildcard", "wildcard")))>>)

\* xor sends the command of the exclusive or of integers.
CompareExps == Join(<<
    OverEach({"Eq", "NotEq", "Greater", "GreaterEq", "Less", "LessEq"}, <<"left", "right">>),
    Entry("Not", Over("Not", <<"exp">>)),
    OverEach({"And", "Or"}, <<"exps">>),
    Entry("Exclusive", Over("IntXor", <<"exps">>))>>)

NumberExps == Join(<<
    OverEach({"NumAdd", "NumSub", "NumMul", "NumDiv"}, <<"exps">>),
    OverEach({"NumAbs", "NumFloor", "NumCeil", "ToInt", "ToFloat"}, <<"num">>),
    Entry("NumPow", Over("NumPow", <<"base", "exponent">>)),
    Entry("NumLog", Over("NumLog", <<"num", "base">>)),
    Entry("NumMod", Over("NumMod", <<"numerator", "denominator">>))>>)

IntegerExps == Join(<<
    OverEach({"IntAnd", "IntOr", "IntXor"}, <<"exps">>),
    OverEach({"IntNot", "IntCount"}, <<"exp">>),
    OverEach({"IntLShift", "IntRShift", "IntARShift"}, <<"value", "shift">>),
    OverEach({"IntLScan", "IntRScan"}, <<"value", "search">>)>>)

\* Conditions and variables.  def sends its name as a string, and no command.
ControlExps == Join(<<
    OverEach({"Min", "Max", "Cond", "Let"}, <<"exps">>),
    Entry("Var", Valued("Var", ExpVal("S", "name"))),
    Entry("Def", NewExp(Absent, ExpVal("S", "name"), Absent, Absent, Absent, <<"value">>)),
    Entry("Unknown", Valued("Unknown", NoVal))>>)

Expressions == Join(<<BinExps, RecordExps, ValExps, CompareExps, NumberExps, IntegerExps, ControlExps>>)

(* --------------------- connection manager: toExpression -------------------- *)

\* Constructors by command: the expressions they read, by position.  A variadic one
\* reads them all.  The case of Floor is empty and falls out of the switch.
ByExps == Join(<<
    Entries({"Eq", "NotEq", "Greater", "GreaterEq", "Less", "LessEq", "GeoCompare"}, <<"left", "right">>),
    Entries({"Not", "IntNot", "IntCount"}, <<"exp">>),
    Entries({"NumAbs", "NumCeil", "ToInt", "ToFloat"}, <<"num">>),
    Entries({"And", "Or", "Cond", "Let", "Exclusive", "NumAdd", "NumSub", "NumMul", "NumDiv", "Min", "Max",
               "IntAnd", "IntOr", "IntXor"}, <<"exps">>),
    Entry("NumPow", <<"base", "exponent">>),
    Entry("NumLog", <<"num", "base">>),
    Entry("NumMod", <<"numerator", "denominator">>),
    Entries({"IntLShift", "IntRShift", "IntARShift"}, <<"value", "shift">>),
    Entries({"IntLScan", "IntRScan"}, <<"value", "search">>)>>)

\* Constructors that read the value, of a kind they insist on or of any.
ByVal == Join(<<
    Entry("Key", ExpVal("I", "exp_type")),
    Entry("DigestModulo", ExpVal("I", "modulo")),
    Entry("BinType", ExpVal("S", "name")),
    Entry("Var", ExpVal("S", "name"))>>)

ByNothing ==
    {"KeyExists", "SetName", "DeviceSize", "MemorySize", "LastUpdate", "SinceUpdate", "VoidTime", "TTL",
     "IsTombstone", "Unknown", "RecordSize"}

\* Constructors of bins by their ExpType; the case of Hll is commented out.
BinModules == <<"BoolBin", "IntBin", "StringBin", "ListBin", "MapBin", "BlobBin", "FloatBin", "GeoBin">>

ByKind ==
    [Nil |-> "NilValue", I |-> "IntVal", F |-> "FloatVal", S |-> "StringVal", B |-> "BoolVal", Blob |-> "BlobVal",
     L |-> "ListVal", M |-> "MapVal", Geo |-> "GeoVal", Wildcard |-> "WildCardValue", Infinity |-> "InfinityValue"]

\* No case of the switch takes the message, or a case finds less than it reads;
\* toListValue refuses an empty list.
ExpPanics(e) ==
    \/ e.cmd = Absent /\ e.val.kind \notin DOMAIN ByKind
    \/ e.cmd = "Bin" /\ e.module \notin DOMAIN BinModules
    \/ e.cmd \notin DOMAIN ByExps \cup DOMAIN ByVal \cup ByNothing \cup {Absent, "Bin", "Regex"}
    \/ e.cmd \in DOMAIN ByExps /\ Len(e.exps) < Len(ByExps[e.cmd])
    \/ e.cmd \in DOMAIN ByVal /\ e.val.kind # ByVal[e.cmd].kind

\* toExpression: the constructor, and what each of its parameters receives.
ToExpression(e) ==
    IF e.cmd = Absent THEN [name |-> ByKind[e.val.kind], given |-> {<<e.val.param, e.val.param>>}]
    ELSE IF e.cmd = "Bin" THEN [name |-> BinModules[e.module], given |-> {<<"name", e.val.param>>}]
    ELSE IF e.cmd = "Regex"
    THEN [name |-> "RegexCompare",
          given |-> {<<"regex", e.val.param>>, <<"flags", e.flags>>, <<"bin", e.bin>>}]
    ELSE IF e.cmd \in DOMAIN ByVal
    THEN [name |-> e.cmd, given |-> {<<ByVal[e.cmd].param, e.val.param>>}]
    ELSE IF e.cmd \in DOMAIN ByExps
    THEN [name |-> e.cmd, given |-> {<<ByExps[e.cmd][k], e.exps[k]>> : k \in DOMAIN ByExps[e.cmd]}]
    ELSE [name |-> e.cmd, given |-> {}]

\* The parameters of a method.
ExpTakes(method) ==
    LET e == Expressions[method] IN
    ({e.val.param, e.bin, e.flags} \cup {e.exps[k] : k \in DOMAIN e.exps}) \ {Absent}

\* The expression that was asked for.
ExpAsked(method) == [name |-> method, given |-> {<<p, p>> : p \in ExpTakes(method)}]

\* A filter is a method and those of its first argument, one inside the other.
EncodeFilter(filter) == [k \in DOMAIN filter |-> Expressions[filter[k]]]

\* assert_map in map_val: there is an exception and no expression.
FilterRefused(filter) == \E k \in DOMAIN filter : filter[k] = "NoMapVal"

\* Only a method that takes expressions has one inside it.
IsFilter(filter) ==
    /\ Len(filter) \in Nat /\ DOMAIN filter = 1 .. Len(filter)
    /\ \A k \in DOMAIN filter : filter[k] \in DOMAIN Expressions
    /\ \A k \in DOMAIN filter :
          k < Len(filter) => Expressions[filter[k]].exps # << >> \/ Expressions[filter[k]].bin # Absent

\* The expressions toExpression comes to: those of a constant are not looked at.
Reached(msg) == {k \in DOMAIN msg : \A j \in DOMAIN msg : j < k => msg[j].cmd # Absent}

FilterPanics(msg) == \E k \in Reached(msg) : ExpPanics(msg[k])

ToFilter(msg) == [k \in Reached(msg) |-> ToExpression(msg[k])]
================================================================================
