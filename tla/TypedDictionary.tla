---------------------------- MODULE TypedDictionary ----------------------------
(***************************************************************************)
(* The types of a dictionary's values: what dict_traits of grib2mars,      *)
(* mars2mars and mars2grib answers when a value that was set with one type *)
(* is asked for with another, for the dictionaries (eckit's                *)
(* LocalConfiguration) and for the messages of ecCodes.                    *)
(*                                                                         *)
(* The other modules store values without their types.  That is sound for  *)
(* the keys whose types agree; TypesAgree in MCGrib1ToGrib2 says which.    *)
(***************************************************************************)
EXTENDS Dictionary

One(t)  == [of |-> t, list |-> FALSE]
Many(t) == [of |-> t, list |-> TRUE]
Scalars == {"bool", "int", "long", "float", "double", "string", "dictionary"}
Types   == {One(t) : t \in Scalars} \cup {Many(t) : t \in Scalars \ {"bool"}}

KindOf(type) ==
    IF type.of \in {"int", "long"} THEN "integral"
    ELSE IF type.of \in {"float", "double"} THEN "floating" ELSE type.of

\* The isIntegral(), isFloatingPoint(), ... of `hacks': an integral number, or
\* a list of them, also is a floating-point one.
Is(stored, type) ==
    /\ stored.list = type.list
    /\ stored.kind \in (IF KindOf(type) = "floating" THEN {"floating", "integral"} ELSE {KindOf(type)})

\* set_or_throw() and set_or_ignore(); get_or_throw(), and get_opt(), which
\* has nothing where the other throws; has<T>() and check<T>().
SetAs(d, k, type, v) == [j \in {k} |-> [kind |-> KindOf(type), list |-> type.list, value |-> v]] ++ d
GetAs(d, k, type)    == IF Has(d, k) THEN If(Is(d[k], type), d[k].value) ELSE Failed
HasAs(d, k, type)    == GetAs(d, k, type) # Failed
Check(d, k, type, accepted) == HasAs(d, k, type) /\ GetAs(d, k, type)[1] \in accepted

MakeFromSample(name) == SetAs(NoKeys, "SampleName", One("string"), name)

\* The merge of the tool: it throws at a value of a type it does not copy.
Copied(stored) ==
    IF stored.list THEN stored.kind = "floating"
    ELSE stored.kind \in {"string", "integral", "floating"}
MergeTyped(base, overwrite) ==
    If(\A k \in DOMAIN overwrite : Copied(overwrite[k]), overwrite ++ base)
----------------------------------------------------------------------------
(* A message: each of its keys has a native type and as many values as it  *)
(* has.  There are neither booleans nor, for lists, other numbers.         *)

NativeOf(type) ==
    IF type.of \in {"bool", "int", "long"} THEN "Long"
    ELSE IF type.of = "double" THEN "Double" ELSE IF type.of = "string" THEN "String" ELSE "Bytes"

MessageTypes == {One(t) : t \in {"bool", "int", "long", "double", "string"}}
                \cup {Many(t) : t \in {"long", "double", "string", "uint8"}}

IsNative(entry, type) ==
    /\ entry.native = NativeOf(type)
    /\ type.list \/ type.of = "string" \/ Len(entry.values) = 1

Answer(entry, type) ==
    IF type.list THEN entry.values
    ELSE IF type.of = "bool" THEN entry.values[1] # 0 ELSE entry.values[1]

GetFromMessage(m, k, type) ==
    IF Has(m, k) THEN If(IsNative(m[k], type), Answer(m[k], type)) ELSE Failed
=============================================================================
