------------------------------- MODULE MCBatchCall -------------------------------
(* Batches for model checking: every method with every return type, place,     *)
(* flag, shape of its argument and filter alone, and the commands whose        *)
(* neighbours matter in pairs.                                                 *)
EXTENDS BatchCall

Write(ops) == Cmd("write", NoBins, ops)

Delete == Cmd("delete", NoBins, << >>)

EveryMethod == {Write(<<Op(m)>>) : m \in DOMAIN Client}

\* Every return type of the methods that have one, inverted and not.
Returning ==
    LET With(methods, types) ==
            {Write(<<[Op(m) EXCEPT !.returns = r]>>) : m \in methods, r \in types \cup {Inverted(t) : t \in types}}
    IN With(ListReturning, ListReturnTypes) \cup With(MapReturning, MapReturnTypes)

\* Places: each type, the creating ones with each order, and a place in a place.
Places ==
    {Plain(t) : t \in DOMAIN ContextType}
    \cup {Creating("ListIndex", o) : o \in {"unordered", "padded", "ordered", "ordered_padded"}}
    \cup {Creating("MapKey", o) : o \in DOMAIN MapOrderFlag}

Placed ==
    {Write(<<[Op(m) EXCEPT !.ctx = c]>>) :
        m \in {"ListAppend", "MapPutItems", "BitOr"},
        c \in {<<p>> : p \in Places} \cup {<<Plain("MapKey"), Creating("ListIndex", "ordered")>>}}

\* Write flags: bits of a policy, of the enumeration of its kind, and for HyperLogLog
\* of the one its policy takes instead.
Flagged ==
    {Write(<<[Op(c[1]) EXCEPT !.flags = c[2], !.of = c[3]]>>) :
        c \in {<<"ListAppend", {1}, "list">>, <<"ListAppend", {1, 4}, "list">>, <<"MapPutItems", {2}, "map">>,
               <<"MapPutItems", {2, 4}, "map">>, <<"BitOr", {1}, "bit">>, <<"HLLAdd", {1}, "hll">>,
               <<"HLLAdd", {1}, "list">>}}

\* Lists of one element, with each return type, and arguments of another shape.
Shaped ==
    {Write(<<[Op(m) EXCEPT !.arg = "one", !.returns = r]>>) : m \in DOMAIN ForOne, r \in {Default, 0, 1, 5, 7}}
    \cup {Write(<<[Op(m) EXCEPT !.arg = "unfit"]>>) : m \in {n \in DOMAIN Client : AnyValue(n)}}

\* Every expression as a filter, and at the head of or below another one.
Filters ==
    {<<m>> : m \in DOMAIN Expressions}
    \cup {<<"And", m>> : m \in DOMAIN Expressions}
    \cup {<<"RegexCompare", "StringBin">>, <<"Def", "IntVal">>, <<"Let", "Def", "HLLBin">>,
          <<"Or", "Eq", "IntBin">>}

Filtered == {[Cmd("read", Bins(<<"bin">>), << >>) EXCEPT !.filter = f] : f \in Filters}

Reading == {Cmd("read", b, << >>) : b \in {NoBins, Bins(<< >>), Bins(<<"bin">>)}}
           \cup {Cmd("read", NoBins, <<Op("Get"), Op("ListSize")>>)}

Others == {Delete, Cmd("udf", NoBins, << >>), Cmd("invalid", NoBins, << >>),
           [Write(<<Op("Put")>>) EXCEPT !.key = "null"], Write(<<Op("MapCreate")>>)}

Special == Reading \cup Others

\* The kinds of key values from_zval lets through.
Keyed == {[Delete EXCEPT !.key = k] : k \in {"int", "string", "blob", "null", "bool", "float", "geo"}}

\* PHP values: scalars, lists, arrays with string, integer and mixed keys, and a
\* foreign object on its own and in an array.
Scalars == {Scalar(t) : t \in {"null", "bool", "int", "float", "string", "blob", "hll", "geo"}}

ArrayKeys ==
    {{}, {IntKey(0)}, {IntKey(0), IntKey(1)}, {IntKey(1)}, {IntKey(0), IntKey(2)}, {StrKey(1)},
     {StrKey(0), StrKey(1)}, {IntKey(0), StrKey(1)}, {IntKey(1), StrKey(1)}}

Arrays ==
    {Zarray({<<k, Scalar(t)>> : k \in keys}) : keys \in ArrayKeys, t \in {"int", "string", "blob", "object"}}
    \cup {Zarray({<<IntKey(0), Foreign>>, <<StrKey(1), Scalar("int")>>})}

Put == {[Write(<<Op("Put"), Op("Get")>>) EXCEPT !.value = v] : v \in Scalars \cup Arrays \cup {Foreign}}

\* What a bin may hold that other clients wrote.
Natives ==
    {Scalar(t) : t \in DOMAIN FromKind}
    \cup {List(s) : s \in {<< >>, <<Scalar("int")>>, <<Scalar("bytes"), Scalar("nil")>>}}
    \cup {HashMap(p) : p \in {{}, {<<StrKey(1), Scalar("float64")>>}, {<<IntKey(0), Scalar("int")>>},
                              {<<IntKey(1), Scalar("int")>>, <<StrKey(1), Scalar("string")>>}}}

Get == {[Cmd("read", NoBins, <<Op("Get")>>) EXCEPT !.holds = n] : n \in Natives}

AllBatches ==
    {<<c>> : c \in EveryMethod \cup Returning \cup Placed \cup Flagged \cup Shaped \cup Filtered \cup Special
                   \cup Keyed \cup Put \cup Get}
    \cup {<<c, Delete>> : c \in EveryMethod \cup Shaped}
    \cup {<<c, d>> : c \in Special, d \in Special}
    \cup {<<c, d>> : c \in Get, d \in Get \cup Put}
================================================================================
