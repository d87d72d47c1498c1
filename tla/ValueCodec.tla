------------------------------- MODULE ValueCodec -------------------------------
(* How the values of bins and keys travel: a PHP value becomes a PHPValue      *)
(* (from_zval), a message and a value of the Go client; what the cluster holds *)
(* comes back as a message, a PHPValue and a PHP value (into_zval).  A PHP     *)
(* array stands for a list or for a map, and its keys decide for which.        *)
(*                                                                             *)
(* Contents of scalars do not matter and are left out; containers hold         *)
(* scalars.  A PHP array is the set of its entries, in the order of its        *)
(* integer keys.  An array key is an integer or a string; the string of an     *)
(* integer has the same n.                                                     *)
EXTENDS Naturals, FiniteSets, Sequences

Scalar(t) == [t |-> t]
IntKey(n) == [t |-> "int", n |-> n]
StrKey(n) == [t |-> "string", n |-> n]

Zarray(entries) == [t |-> "array", entries |-> entries]
List(items) == [t |-> "list", items |-> items]
HashMap(pairs) == [t |-> "map", pairs |-> pairs]

Keys(entries) == {e[1] : e \in entries}

(* --------------------------- PHP to the cluster --------------------------- *)

HasSequentialKeys(entries) == Keys(entries) = {IntKey(n - 1) : n \in 1 .. Cardinality(entries)}

HasNumericalKeys(entries) == \A k \in Keys(entries) : k.t = "int"

At(entries, n) == (CHOOSE e \in entries : e[1] = IntKey(n - 1))[2]

\* The entries of an array that are looked at: those with string keys, when any has one.
Taken(entries) == IF HasNumericalKeys(entries) THEN entries ELSE {e \in entries : e[1].t = "string"}

\* An object of a class from_zval does not know: an exception on its own, and in an
\* array, where its absence is unwrapped, a panic that takes the process down.
Foreign == Scalar("object")

Throws(zval) == zval = Foreign

Aborts(zval) == zval.t = "array" /\ \E e \in Taken(zval.entries) : e[2] = Foreign

\* from_zval: an array with the keys 0, 1, ... is a list and any other array a map.
FromZval(zval) ==
    IF zval.t # "array" THEN zval
    ELSE IF HasSequentialKeys(zval.entries)
    THEN List([n \in 1 .. Cardinality(zval.entries) |-> At(zval.entries, n)])
    ELSE HashMap(Taken(zval.entries))

\* From<PHPValue> for proto::Value: the member of the message for each kind.
WireKind ==
    [null |-> "Nil", bool |-> "B", int |-> "I", float |-> "F", string |-> "S", blob |-> "Blob",
     hll |-> "Hll", geo |-> "Geo", infinity |-> "Infinity", wildcard |-> "Wildcard"]

\* toValue: the type of the Go client for each member.
GoKind ==
    [Nil |-> "NullValue", B |-> "BoolValue", I |-> "IntegerValue", F |-> "FloatValue", S |-> "StringValue",
     Blob |-> "BytesValue", Hll |-> "HLLValue", Geo |-> "GeoJSONValue", Infinity |-> "InfinityValue",
     Wildcard |-> "WildCardValue"]

\* The cluster stores a particle for each type of the Go client, which reads it back
\* as a type of Go or as one of its own.
NativeKind ==
    [NullValue |-> "nil", BoolValue |-> "bool", IntegerValue |-> "int", FloatValue |-> "float64",
     StringValue |-> "string", BytesValue |-> "bytes", HLLValue |-> "HLLValue", GeoJSONValue |-> "GeoJSONValue"]

\* An entry of a map with other kinds.
Renamed(p, kind) == <<[t |-> kind[p[1].t], n |-> p[1].n], Scalar(kind[p[2].t])>>

\* The scalars of a value, its map keys included, change their kind; containers stay.
Each(v, kind) ==
    IF v.t = "list" THEN List([n \in DOMAIN v.items |-> Scalar(kind[v.items[n].t])])
    ELSE IF v.t = "map" THEN HashMap({Renamed(p, kind) : p \in v.pairs})
    ELSE Scalar(kind[v.t])

\* The message of a value, the value the Go client is given, and what it reads back.
ToMessage(zval) == Each(FromZval(zval), WireKind)

ToValue(msg) == Each(msg, GoKind)

Stored(value) == Each(value, NativeKind)

(* --------------------------- the cluster to PHP --------------------------- *)

\* Mutant: bytes come back as a string.
FromKindText ==
    [nil |-> "Nil", bool |-> "B", int |-> "I", float64 |-> "F", string |-> "S", bytes |-> "S",
     HLLValue |-> "Hll", GeoJSONValue |-> "Geo"]

\* fromValue: the member of the message for each type.
FromKind ==
    [nil |-> "Nil", bool |-> "B", int |-> "I", float64 |-> "F", string |-> "S", bytes |-> "Blob",
     HLLValue |-> "Hll", GeoJSONValue |-> "Geo"]

\* fromValue makes a slice of as many empty entries as a map has, and appends the
\* real ones behind them.
FromValue(native) ==
    LET v == Each(native, FromKind) IN
    IF v.t = "map" THEN [t |-> "map", pairs |-> v.pairs, empty |-> Cardinality(v.pairs)] ELSE v

\* From<proto::Value> for PHPValue: the kind for each member.
PhpKind ==
    [Nil |-> "null", B |-> "bool", I |-> "int", F |-> "float", S |-> "string", Blob |-> "blob",
     Hll |-> "hll", Geo |-> "geo"]

\* Entries without a key are skipped.
ToPhpValue(msg) == Each(IF msg.t = "map" THEN HashMap(msg.pairs) ELSE msg, PhpKind)

\* into_zval: every key of a map becomes a string.  Where an integer and a string
\* key then are the same, one of their values remains.
IntoZval(v) ==
    IF v.t = "list" THEN {Zarray({<<IntKey(n - 1), v.items[n]>> : n \in DOMAIN v.items})}
    ELSE IF v.t = "map"
    THEN {Zarray({<<StrKey(p[1].n), p[2]>> : p \in kept}) :
            kept \in {s \in SUBSET v.pairs : {p[1].n : p \in s} = {p[1].n : p \in v.pairs}
                                             /\ \A p, q \in s : p[1].n = q[1].n => p = q}}
    ELSE {v}

\* What a program may see of a value the Go client has read.
Seen(native) == IntoZval(ToPhpValue(FromValue(native)))

(* --------------------------------- values --------------------------------- *)

\* The entries of an array or a map: scalars of these kinds, under keys that differ.
IsTable(entries, kinds) ==
    /\ IsFiniteSet(entries)
    /\ \A e \in entries : /\ e = <<e[1], e[2]>> /\ e[1] \in {IntKey(e[1].n), StrKey(e[1].n)}
                          /\ e[2] \in {Scalar(t) : t \in kinds}
    /\ \A e, f \in entries : e[1] = f[1] => e = f

\* The kinds of scalars that a bin can hold; a program may also pass a foreign object.
PhpKinds == {"null", "bool", "int", "float", "string", "blob", "hll", "geo"}
ZvalKinds == PhpKinds \cup {"object"}

\* Values of PHP, and what the Go client reads from a bin.
IsZval(v) ==
    \/ v \in {Scalar(t) : t \in ZvalKinds}
    \/ v.t = "array" /\ v = Zarray(v.entries) /\ IsTable(v.entries, ZvalKinds)

IsNative(v) ==
    \/ v \in {Scalar(t) : t \in DOMAIN FromKind}
    \/ v.t = "list" /\ v = List(v.items) /\ v.items \in Seq({Scalar(t) : t \in DOMAIN FromKind})
    \/ v.t = "map" /\ v = HashMap(v.pairs) /\ IsTable(v.pairs, DOMAIN FromKind)

(* ---------------------------------- keys ---------------------------------- *)

\* toKey: NewKey hashes integers, strings and blobs and refuses all other values, and
\* toKey panics then.  The digest of a key is not looked at, so that the key of a
\* scanned record whose user key is not stored, a null with a digest, is refused.
KeyAccepted(t) == t \in {"int", "string", "blob"}
================================================================================
