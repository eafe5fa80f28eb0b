------------------------------ MODULE Dictionary ------------------------------
(***************************************************************************)
(* The dictionaries that the conversions of metkit pass to each other      *)
(* (eckit::LocalConfiguration behind the dict_traits of grib2mars,         *)
(* mars2mars and mars2grib): functions from the keys that are set to their *)
(* values, so that has(d, k) is k \in DOMAIN d.                            *)
(*                                                                         *)
(* What may throw returns a sequence: <<v>> for the value v, and Failed    *)
(* for the exception.  Writes are functions from keys to such sequences.   *)
(*                                                                         *)
(* A stored value keeps the type it was set with.  That matters for the    *)
(* keys that are set with one type and read with another; of these         *)
(* bitmapPresent and wavelength have pairs of a type and a value here, and *)
(* the scale factors of the wave tables are not read (TypedDictionary).    *)
(***************************************************************************)
EXTENDS Integers, Sequences

Has(d, k) == k \in DOMAIN d

NoKeys == [k \in {} |-> 0]

\* f over g: the value of f where both have the key.
f ++ g == [k \in DOMAIN f \cup DOMAIN g |-> IF k \in DOMAIN f THEN f[k] ELSE g[k]]

Failed == <<>>
Found(v) == <<v>>
If(condition, v) == IF condition THEN <<v>> ELSE Failed

\* get_or_throw(d, k), and get_opt(d, k).value_or(default)
Get(d, k)            == IF Has(d, k) THEN Found(d[k]) ELSE Failed
GetOr(d, k, default) == IF Has(d, k) THEN Found(d[k]) ELSE Found(default)

Long(n)   == [type |-> "long", value |-> n]
Double(n) == [type |-> "double", value |-> n]
Bool(b)   == [type |-> "bool", value |-> b]

\* get_or_throw<long>, and get_opt<bool>: nothing where the type is another.
GetLong(d, k)    == If(Has(d, k) /\ d[k].type = "long", d[k].value)
GetOptBool(d, k, default) ==
    IF Has(d, k) /\ d[k].type = "bool" THEN d[k].value ELSE default

NoWrites == [k \in {} |-> Failed]
Succeeds(writes) == \A k \in DOMAIN writes : writes[k] # Failed
Values(writes)   == [k \in DOMAIN writes |-> writes[k][1]]

\* What several writers set; a key that two of them set gets the same value.
Combine(W) == [k \in UNION {DOMAIN w : w \in W} |-> (CHOOSE w \in W : k \in DOMAIN w)[k]]
=============================================================================
