----------------------------- MODULE PseudoTypes -----------------------------
(***************************************************************************)
(* The pseudo-type conversion of ReqlDecoder (core/converter/              *)
(* json_decoder.py): json.JSONDecoder calls convert_pseudo_type on every   *)
(* JSON object it builds, innermost first, and a GROUPED_DATA object       *)
(* becomes a Python dict keyed by make_hashable of each group.             *)
(*                                                                         *)
(* A JSON value is a tagged record, so that values of different JSON types *)
(* never compare equal in TLA+: [num |-> n], [bool |-> b], [str |-> s],    *)
(* [null |-> TRUE], [list |-> sequence], [obj |-> function from field      *)
(* names].  A Python value keeps the same tags, with [tuple |-> ...],      *)
(* [fset |-> ...], [dict |-> ...] for what make_hashable and               *)
(* convert_grouped_data build; PyKey gives the class of a hashable under   *)
(* Python's == (the class a dict key falls in).                            *)
(***************************************************************************)
EXTENDS Naturals, Sequences, FiniteSets

Num(n) == [num |-> n]
Bool(b) == [bool |-> b]
Str(s) == [str |-> s]
Null == [null |-> TRUE]
List(s) == [list |-> s]
Obj(f) == [obj |-> f]

\* The exception a conversion raises (ReqlDriverError); it ends the decode.
DecodeError == [err |-> "ReqlDriverError"]

\* The run options that choose native or raw conversion per category.
FormatNames == {"binary_format", "group_format", "time_format"}

\* A format option: not given, "native", "raw", or any other string.
FormatValues == {"absent", "native", "raw", "other"}

-----------------------------------------------------------------------------
(* make_hashable and Python equality.                                      *)

\* make_hashable: a list becomes a tuple of hashables, a dict a frozenset
\* of (key, hashable) pairs, anything else is kept.
RECURSIVE MakeHashable(_)
MakeHashable(x) ==
    IF "list" \in DOMAIN x
      THEN [tuple |-> [i \in DOMAIN x.list |-> MakeHashable(x.list[i])]]
    ELSE IF "obj" \in DOMAIN x
      THEN [fset |-> {<<k, MakeHashable(x.obj[k])>> : k \in DOMAIN x.obj}]
    ELSE x

\* The class of a hashable under ==: bool is a subclass of int, so True
\* equals 1 and False equals 0; tuples and frozensets compare by their
\* elements.
RECURSIVE PyKey(_)
PyKey(h) ==
    IF "bool" \in DOMAIN h THEN [num |-> IF h.bool THEN 1 ELSE 0]
    ELSE IF "tuple" \in DOMAIN h
      THEN [tuple |-> [i \in DOMAIN h.tuple |-> PyKey(h.tuple[i])]]
    ELSE IF "fset" \in DOMAIN h
      THEN [fset |-> {<<p[1], PyKey(p[2])>> : p \in h.fset}]
    ELSE h

-----------------------------------------------------------------------------
(* The converters.                                                         *)

\* convert_grouped_data: {make_hashable(k): v for k, v in obj["data"]}; a
\* later pair whose key is == to an earlier one overwrites it.
ConvertGroupedData(o) ==
    IF "data" \notin DOMAIN o
      THEN DecodeError
      ELSE LET pairs == o.data.list
               cls(i) == PyKey(MakeHashable(pairs[i].list[1]))
               last(c) == CHOOSE i \in DOMAIN pairs :
                              /\ cls(i) = c
                              /\ \A j \in DOMAIN pairs : cls(j) = c => j <= i
           IN [dict |-> [c \in {cls(i) : i \in DOMAIN pairs} |->
                           pairs[last(c)].list[2]]]

\* convert_time: a datetime from epoch_time (with the timezone if given).
ConvertTime(o) ==
    IF "epoch_time" \notin DOMAIN o
      THEN DecodeError
      ELSE [datetime |-> o.epoch_time]

\* convert_binary: ReqlBinary of the base64-decoded data.
ConvertBinary(o) ==
    IF "data" \notin DOMAIN o THEN DecodeError ELSE [binary |-> o.data]

\* __convert_pseudo_type: the converter when the option is absent or
\* "native", the object itself when it is "raw", ReqlDriverError otherwise.
ConvertWithFormat(o, f, conv) ==
    CASE f \in {"absent", "native"} -> conv
      [] f = "raw"                  -> Obj(o)
      [] OTHER                      -> DecodeError

\* convert_pseudo_type(obj), for the object whose fields are o under the
\* run options fmt: dispatch on $reql_type$ (obj.get, so a missing and a null
\* type both select the identity); an unknown type, and a conversion that
\* gives None, raise ReqlDriverError.
ConvertPseudoType(o, fmt) ==
    IF "$reql_type$" \notin DOMAIN o \/ o["$reql_type$"] = Null THEN Obj(o)
    ELSE LET rt == o["$reql_type$"] IN
         CASE rt = Str("GEOMETRY")     -> Obj(o)
           [] rt = Str("BINARY")       ->
                 ConvertWithFormat(o, fmt["binary_format"], ConvertBinary(o))
           [] rt = Str("GROUPED_DATA") ->
                 ConvertWithFormat(o, fmt["group_format"], ConvertGroupedData(o))
           [] rt = Str("TIME")         ->
                 ConvertWithFormat(o, fmt["time_format"], ConvertTime(o))
           [] OTHER                    -> DecodeError

\* ReqlDecoder.decode: the JSON value is built bottom-up and the object hook
\* applied to each object once its members are built; an exception in any
\* hook ends the decode.
RECURSIVE Decode(_, _)
Decode(x, fmt) ==
    IF "list" \in DOMAIN x
      THEN LET d == [i \in DOMAIN x.list |-> Decode(x.list[i], fmt)] IN
           IF \E i \in DOMAIN d : d[i] = DecodeError THEN DecodeError
                                                   ELSE List(d)
    ELSE IF "obj" \in DOMAIN x
      THEN LET d == [k \in DOMAIN x.obj |-> Decode(x.obj[k], fmt)] IN
           IF \E k \in DOMAIN d : d[k] = DecodeError THEN DecodeError
                                                   ELSE ConvertPseudoType(d, fmt)
    ELSE x

-----------------------------------------------------------------------------
(* One response body decoded under one set of run options.                 *)

CONSTANT Inputs   \* the JSON values the server may send

VARIABLES json, fmt, out

vars == <<json, fmt, out>>

Init ==
    /\ json \in Inputs
    /\ fmt \in [FormatNames -> FormatValues]
    /\ out = Decode(json, fmt)

Next == UNCHANGED vars

Spec == Init /\ [][Next]_vars

\* A GROUPED_DATA object of n groups.
IsGroupedData(x) ==
    /\ "obj" \in DOMAIN x
    /\ "$reql_type$" \in DOMAIN x.obj
    /\ x.obj["$reql_type$"] = Str("GROUPED_DATA")

\* Grouped data decoded natively keeps every group the server sent: the
\* docstring of make_hashable says its conversion exists so that each group
\* key, list and dict included, can key the resulting dict.
GroupsPreserved ==
    IsGroupedData(json) /\ "dict" \in DOMAIN out =>
        Cardinality(DOMAIN out.dict) = Len(json.obj.data.list)

=============================================================================
