------------------------------ MODULE ParamNames ------------------------------
(***************************************************************************)
(* TypeParam: from the names of parameters to their identifiers.  A name   *)
(* may belong to several identifiers; which one is meant depends on the    *)
(* rest of the request, so param is only resolved in pass2.                *)
(*                                                                         *)
(* ids is a sequence of [id, aliases], as in paramids.yaml; a rule has a   *)
(* context and the identifiers that its fields may have.  Names match by   *)
(* their common beginnings (MarsLanguage::bestMatch): they are spelled as  *)
(* sequences of what tells the names of an example apart.                  *)
(***************************************************************************)
EXTENDS ValueTypes, TLC

Name(letters)        == [form |-> "name", letters |-> letters]
Dotted(param, table) == [form |-> "dotted", param |-> param, table |-> table]

Spelled(v) ==
    CASE v.form = "name" -> v.letters
      [] IsWhole(v)      -> [i \in 1 .. Digits(Value(v)) |->
                                ToString((Value(v) \div 10 ^ (Digits(Value(v)) - i)) % 10)]
------------------------------------------------------------------------------
(* MarsLanguage::bestMatch.  Of the values that begin like the name, those    *)
(* that do so for longest.                                                    *)

Alike(a, b) == Cardinality({n \in DOMAIN a \cap DOMAIN b : \A i \in 1 .. n : a[i] = b[i]})

Aliased(aliases, v) == IF v \in DOMAIN aliases THEN aliases[v] ELSE v

(* The least that must be alike: the whole name, or one letter *)
Score(name, values, fullMatch) ==
    Max({IF fullMatch THEN Len(Spelled(name)) ELSE 1} \cup
        {Alike(Spelled(name), Spelled(values[i])) : i \in DOMAIN values})

Best(name, values, fullMatch) ==
    LET near(v) == Alike(Spelled(name), Spelled(v)) = Score(name, values, fullMatch)
    IN  SelectSeq(values, near)

(* strictly: METKIT_LANGUAGE_STRICT_MODE.  Failed if it throws, Unknown for the empty text. *)
BestMatch(name, values, fail, fullMatch, aliases, strictly) ==
    LET best  == Best(name, values, fullMatch)
        names == {Aliased(aliases, best[i]) : i \in DOMAIN best}
        none  == IF fail THEN Failed ELSE Unknown
    IN  IF Contains(values, name) THEN Found(Aliased(aliases, name))
        ELSE IF best = <<>> \/ (Len(best) = 1 /\ IsWhole(best[1])) THEN none
        ELSE IF Len(best) = 1 /\ strictly THEN Failed
        ELSE IF Cardinality(names) = 1 THEN Found(Aliased(aliases, best[1]))
        ELSE none
------------------------------------------------------------------------------
(* Rule.  An alias that several identifiers have goes to the one in whose     *)
(* list it comes first, and to the first of those.                            *)

Aliases(ids, id) == FlattenSeq([i \in DOMAIN ids |-> IF ids[i].id = id THEN ids[i].aliases ELSE <<>>])

(* The place of an alias in the list of each identifier *)
Places(list, ids, alias) ==
    UNION {{<<i, j>> : j \in {k \in DOMAIN Aliases(ids, list[i]) : Aliases(ids, list[i])[k] = alias}} : i \in DOMAIN list}

Owner(list, ids, alias) ==
    CHOOSE p \in Places(list, ids, alias) :
        \A q \in Places(list, ids, alias) : p[2] < q[2] \/ (p[2] = q[2] /\ p[1] <= q[1])

Mapping(list, ids) ==
    [alias \in UNION {ToSet(Aliases(ids, list[i])) : i \in DOMAIN list} |-> Whole(list[Owner(list, ids, alias)[1]])]

(* values_: every identifier, and every alias that was not taken when it came *)
Listed(list, ids) ==
    LET taken(i, j)  == \E q \in Places(list, ids, Aliases(ids, list[i])[j]) :
                            (q[1] < i \/ (q[1] = i /\ q[2] < j)) /\ q[2] <= j
        new(i) == LET als == Aliases(ids, list[i])
                      free(j) == ~taken(i, j)
                  IN  [k \in 1 .. Len(SelectSeq([j \in DOMAIN als |-> j], free)) |->
                          als[SelectSeq([j \in DOMAIN als |-> j], free)[k]]]
    IN  FlattenSeq([i \in DOMAIN list |-> <<Whole(list[i])>> \o new(i)])

(* The context is a set of [key, vals]. *)
Rule(context, list, ids) ==
    [context |-> context, list |-> list, values |-> Listed(list, ids), mapping |-> Mapping(list, ids)]

(* Rule::lookup.  default is the rule of all identifiers; without one (legacy) it is empty. *)
Lookup(rule, default, v, fail, strictly) ==
    LET table == IF v.form = "dotted" /\ v.table # 128 THEN v.table ELSE 0
        param == IF v.form = "dotted" THEN v.param ELSE IF IsWhole(v) THEN Value(v) ELSE 0
        id    == 1000 * table + param
    IN  IF param > 0
        THEN If(~(table > 0 /\ param >= 1000) /\ Contains(rule.list \o default.list, id), Whole(id))
        ELSE IF v.form # "name" THEN Failed
        ELSE LET own == BestMatch(v, rule.values, FALSE, TRUE, rule.mapping, strictly)
             IN  IF own # Unknown THEN own
                 ELSE BestMatch(v, default.values, fail, FALSE, default.mapping, strictly)
------------------------------------------------------------------------------
(* init: the rules of params.yaml and params-static.yaml, put together by     *)
(* their contexts, with those identifiers that have a name one would ask for  *)
(* by context; and one rule for all that is left.                             *)

Empty == Rule({}, <<>>, <<>>)

Associated(ids, shortnames) == {ids[i].id : i \in {k \in DOMAIN ids : ToSet(ids[k].aliases) \cap shortnames # {}}}

RulesOf(merged, ids, shortnames, mode) ==
    LET inContext(id) == mode = "legacy" \/ id \in Associated(ids, shortnames)
        list(m)  == SelectSeq(m.list, inContext)
        kept(m)  == mode = "legacy" \/ list(m) # <<>>
        rules    == SelectSeq(merged, kept)
    IN  IF mode = "raw" THEN <<Empty>>
        ELSE [i \in DOMAIN rules |-> Rule(rules[i].context, list(rules[i]), ids)]
             \o (IF mode = "legacy" THEN <<>> ELSE <<Empty>>)

DefaultRule(ids, mode) ==
    IF mode = "legacy" THEN Empty ELSE Rule({}, [i \in DOMAIN ids |-> ids[i].id], ids)

------------------------------------------------------------------------------
(* TypeParam::pass2.  Of a list, only the first value counts for a context. *)

Fits(rule, request, partial) ==
    \A m \in rule.context :
        IF request[m.key] = <<>> THEN partial ELSE request[m.key][1] \in m.vals

LookupAll(rule, default, values, strictly) ==
    LET found == [i \in DOMAIN values |-> Lookup(rule, default, values[i], TRUE, strictly)]
    IN  If(\A i \in DOMAIN found : found[i] # Failed, [i \in DOMAIN found |-> found[i][1]])

(* Without a rule, the first one that does not contradict the request and knows a value, if the verb allows it *)
Rules(rules, default, values, request, firstRule, strictly) ==
    LET fits(rule)  == Fits(rule, request, FALSE)
        knows(rule) == /\ Fits(rule, request, TRUE)
                       /\ \E i \in DOMAIN values : Lookup(rule, default, values[i], TRUE, strictly) # Failed
    IN  IF SelectSeq(rules, fits) # <<>> THEN SelectSeq(rules, fits)
        ELSE IF firstRule THEN SelectSeq(rules, knows) ELSE <<>>

ResolveParams(rules, default, values, request, firstRule, strictly) ==
    LET found == Rules(rules, default, values, request, firstRule, strictly)
    IN  IF values = <<Word("all")>> THEN Found(values)
        ELSE IF found = <<>> THEN Failed
        ELSE LookupAll(found[1], default, values, strictly)
=============================================================================
