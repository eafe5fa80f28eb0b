------------------------------ MODULE AxisMatch ------------------------------
(***************************************************************************)
(* ParamID::normalise: which of the parameters that there are (an axis)    *)
(* the parameters of a request mean.  A parameter is a number and the      *)
(* table it is from, 0 if it was given without; in a strict match the      *)
(* identifier decides, in a loose one a table may be put in, and the two   *)
(* components of a wind stand for its vorticity and divergence.            *)
(***************************************************************************)
EXTENDS Integers, FiniteSets, Sequences

Param(table, value) == [table |-> table, value |-> value]
Grib1Value(p)       == p.value % 1000

ParamId(p) ==
    LET table == IF p.table = 0 THEN p.value \div 1000 ELSE p.table
    IN  (IF table = 128 THEN 0 ELSE table * 1000) + (p.value % 1000)

ReplaceTable(table, id) == table * 1000 + (id % 1000)

(* Found or nothing, and the fields a wind is computed from *)
NoMatch              == [found |-> <<>>, from |-> {}]
Just(p)              == [found |-> <<p>>, from |-> {}]
Computed(p, vo, d)   == [found |-> <<p>>, from |-> {vo, d}]

InAxis(axis) == {axis[i] : i \in DOMAIN axis}

(* inAxisParamID: of several with one identifier, the last *)
IsLast(axis, id, i) == ParamId(axis[i]) = id /\ \A j \in DOMAIN axis : ParamId(axis[j]) = id => j <= i
HasId(axis, id)  == \E i \in DOMAIN axis : IsLast(axis, id, i)
WithId(axis, id) == axis[CHOOSE i \in DOMAIN axis : IsLast(axis, id, i)]

IsLeast(places, i) == i \in places /\ \A j \in places : i <= j
Any(places)        == \E i \in places : IsLeast(places, i)
First(places)      == CHOOSE i \in places : IsLeast(places, i)
------------------------------------------------------------------------------
(* A wind family is [u, v, vo, d].                                            *)

IsU(family, id, strict) == id = ParamId(family.u) \/ (~strict /\ id = Grib1Value(family.u))
IsV(family, id, strict) == id = ParamId(family.v) \/ (~strict /\ id = Grib1Value(family.v))

(* The families whose vorticity and divergence are there as the family says *)
ExactFamilies(families, axis, id, strict) ==
    {i \in DOMAIN families : /\ IsU(families[i], id, strict) \/ IsV(families[i], id, strict)
                             /\ {families[i].vo, families[i].d} \subseteq InAxis(axis)}

ExactWind(families, axis, id, strict) ==
    LET places == ExactFamilies(families, axis, id, strict)
        f      == families[First(places)]
    IN  IF Any(places) THEN Computed(IF IsU(f, id, strict) THEN f.u ELSE f.v, f.vo, f.d) ELSE NoMatch

(* ... or in another table *)
TablesWith(family, dropTables, axis) ==
    {i \in DOMAIN dropTables : /\ HasId(axis, ReplaceTable(dropTables[i], ParamId(family.vo)))
                               /\ HasId(axis, ReplaceTable(dropTables[i], ParamId(family.d)))}

PartialFamilies(families, dropTables, axis, id) ==
    {i \in DOMAIN families : /\ id \in {ParamId(families[i].u), ParamId(families[i].v)}
                             /\ Any(TablesWith(families[i], dropTables, axis))}

PartialWind(families, dropTables, axis, id) ==
    LET places == PartialFamilies(families, dropTables, axis, id)
        f      == families[First(places)]
        table  == dropTables[First(TablesWith(f, dropTables, axis))]
        vo     == WithId(axis, ReplaceTable(table, ParamId(f.vo)))
        d      == WithId(axis, ReplaceTable(table, ParamId(f.d)))
    IN  IF Any(places)
        THEN Computed(IF vo.table > 0 THEN Param(table, id) ELSE Param(0, ReplaceTable(table, id)), vo, d)
        ELSE NoMatch

(* The table is put in *)
InTable(dropTables, axis, id) ==
    LET places == {i \in DOMAIN dropTables : HasId(axis, ReplaceTable(dropTables[i], id))}
    IN  IF Any(places) THEN Just(WithId(axis, ReplaceTable(dropTables[First(places)], id))) ELSE NoMatch

(* Any table will do: the least identifier *)
InAnyTable(axis, id) ==
    LET ids == {n \in {ParamId(p) : p \in InAxis(axis)} : n % 1000 = id % 1000 /\ HasId(axis, n)}
    IN  IF Any(ids) THEN Just(WithId(axis, First(ids))) ELSE NoMatch

Or(a, b) == IF a # NoMatch THEN a ELSE b

(* mode: "strict", "loose" or "any table" *)
Partial(families, dropTables, axis, id, mode) ==
    Or(InTable(dropTables, axis, id),
       Or(PartialWind(families, dropTables, axis, id),
          IF mode = "any table" THEN InAnyTable(axis, id) ELSE NoMatch))

Match(families, dropTables, axis, r, mode) ==
    LET id == ParamId(r)
    IN  IF r \in InAxis(axis) THEN Just(r)
        ELSE IF HasId(axis, id) THEN Just(WithId(axis, id))
        ELSE Or(ExactWind(families, axis, id, mode = "strict"),
                IF mode # "strict" /\ r.table = 0 /\ id < 1000
                THEN Partial(families, dropTables, axis, id, mode) ELSE NoMatch)

(* What the request is afterwards: what was found, in its order, and the fields
   that a wind is computed from.  A parameter that is not found is dropped. *)
Normalise(families, dropTables, axis, req, mode) ==
    [i \in DOMAIN req |-> Match(families, dropTables, axis, req[i], mode)]

WindConversion(matches) == \E i \in DOMAIN matches : matches[i].from # {}
AskedFor(matches) ==
    UNION {InAxis(matches[i].found) \cup matches[i].from : i \in DOMAIN matches}
------------------------------------------------------------------------------
(* StepRangeNormalise: a step is the pair of its ends.  A single step stands  *)
(* also for what was accumulated up to it; a range that is not there, for     *)
(* whatever there is about its beginning.                                     *)

If(condition, step) == IF condition THEN <<step>> ELSE <<>>

NormaliseStep(axis, s) ==
    LET there     == s \in InAxis(axis)
        isRange   == s[1] # s[2]
        beginning == <<s[1], s[1]>>
        upTo      == <<0, s[1]>>
    IN  IF there /\ isRange THEN <<s>>
        ELSE If(there, s)
             \o If(isRange /\ beginning \in InAxis(axis), beginning)
             \o If(s[1] # 0 /\ upTo \in InAxis(axis), upTo)

NormaliseSteps(axis, steps) == [i \in DOMAIN steps |-> NormaliseStep(axis, steps[i])]
=============================================================================
