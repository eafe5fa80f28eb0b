--------------------------- MODULE MCMarsExpansion ---------------------------
(* MarsExpansion for TLC: a fragment of language.yaml and modifiers.yaml whose
   rules meet one another, with the types of its keys, and requests that make
   them do so. *)
EXTENDS MarsExpansion, TLC
T == INSTANCE ParamNames
A == INSTANCE AxisMatch

class    == 1
type     == 2
stream   == 3
levtype  == 4
date     == 5
step     == 6
levelist == 7
param    == 8
model    == 9
optimise == 10

W(w)    == T!Word(w)
I(i)    == T!Whole(i)
Off     == W("off")
All     == W("all")
BothVerbs == {"retrieve", "list"}

Include(k, v) == [key |-> k, kind |-> "include", vals |-> {W(w) : w \in v}]
Exclude(k, v) == [key |-> k, kind |-> "exclude", vals |-> {W(w) : w \in v}]
If(rules)       == [verbs |-> BothVerbs, rules |-> rules]
Retrieve(rules) == [verbs |-> {"retrieve"}, rules |-> rules]
List(rules)     == [verbs |-> {"list"}, rules |-> rules]

DefaultRules ==
    {[key |-> class,    vals |-> <<W("od")>>,   context |-> If({})],
     [key |-> type,     vals |-> <<W("an")>>,   context |-> If({})],
     [key |-> type,     vals |-> <<W("an")>>,   context |-> List({Exclude(class, {"rd"})})],
     [key |-> stream,   vals |-> <<W("enfo")>>, context |-> If({Include(class, {"ti"})})],
     [key |-> stream,   vals |-> <<W("oper")>>, context |-> If({Exclude(class, {"ti"})})],
     [key |-> stream,   vals |-> <<W("oper")>>, context |-> List({Exclude(class, {"rd"})})],
     [key |-> levtype,  vals |-> <<W("pl")>>,   context |-> If({Exclude(stream, {"wave"})})],
     [key |-> levtype,  vals |-> <<W("sfc")>>,  context |-> If({Include(stream, {"wave"})})],
     [key |-> date,     vals |-> <<I(-1)>>,     context |-> If({})],
     [key |-> step,     vals |-> <<I(0)>>,      context |-> If({})],
     [key |-> levelist, vals |-> <<I(1000), I(850)>>, context |-> If({Include(levtype, {"pl"})})],
     [key |-> levelist, vals |-> <<I(1)>>,      context |-> If({Include(levtype, {"ml"})})],
     [key |-> param,    vals |-> <<I(129)>>,    context |-> If({})],
     [key |-> model,    vals |-> <<W("aifs-single-mse")>>, context |-> Retrieve({Include(class, {"ai"})})],
     [key |-> optimise, vals |-> <<Off>>,       context |-> If({})]}

SetRules ==
    {[key |-> stream, vals |-> <<W("oper")>>, context |-> Retrieve({Include(stream, {"e1", "ssmi"})})],
     [key |-> stream, vals |-> <<W("oper")>>, context |-> If({Include(class, {"ti"}), Include(type, {"fc"})})]}

UnsetRules ==
    {[key |-> k, context |-> If({Include(type, {"ob"})})] : k \in {levtype, step, levelist, param}}
    \cup {[key |-> levelist, context |-> If({Include(levtype, {"sfc"})})],
          [key |-> model, context |-> If({Include(class, {"ml", "ur", "rr"})})]}
------------------------------------------------------------------------------
(* The types *)

Base        == [ranges |-> FALSE, multiple |-> FALSE, by |-> I(1), uppercase |-> FALSE]
Enum(names) == [type |-> "enum", entries |-> [i \in DOMAIN names |->
                    [names |-> [j \in DOMAIN names[i] |-> W(names[i][j])], group |-> <<>>]]] @@ Base

Today     == T!ConvertDate(20240615)
OneModel  == Enum(<<<<"ecmf">>, <<"ifs">>, <<"lam">>, <<"aifs-single-mse">>>>)
LamModel  == Enum(<<<<"lam">>, <<"global", "glob">>>>)
TypesOf == [k \in 1 .. 10 |->
    CASE k = class    -> Enum(<<<<"od">>, <<"ti", "tigge">>, <<"ai">>, <<"rr">>>>)
      [] k = type     -> Enum(<<<<"an", "analysis">>, <<"fc", "forecast">>, <<"ob", "observations">>>>)
      [] k = stream   -> Enum(<<<<"oper">>, <<"enfo">>, <<"wave">>, <<"e1">>>>)
      [] k = levtype  -> [type |-> "mixed", types |-> <<
                             [context |-> {}, is |-> Enum(<<<<"ml">>, <<"pl">>, <<"sfc", "surface">>>>)],
                             [context |-> {}, is |-> [type |-> "integer", range |-> <<>>] @@ Base]>>] @@ Base
      [] k = date     -> [[type |-> "date", today |-> Today] @@ Base EXCEPT !.ranges = TRUE, !.multiple = TRUE]
      [] k = step     -> [[type |-> "range"] @@ Base EXCEPT !.ranges = TRUE, !.multiple = TRUE, !.by = I(12)]
      [] k = levelist -> [[type |-> "float"] @@ Base EXCEPT !.ranges = TRUE, !.multiple = TRUE]
      [] k = param    -> [[type |-> "param"] @@ Base EXCEPT !.multiple = TRUE]
      [] k = model    -> [type |-> "mixed", types |-> <<
                             [context |-> {[key |-> class, vals |-> {W("ti")}]}, is |-> LamModel],
                             [context |-> {}, is |-> OneModel]>>] @@ Base
      [] k = optimise -> Enum(<<<<"on">>, <<"off">>>>)]

(* The parameters: two have the name tp, and the rules tell them apart. *)
t      == T!Name(<<"t">>)
tp     == T!Name(<<"t", "p">>)
trate  == T!Name(<<"t", "p", "rate">>)
Ids    == <<[id |-> 129, aliases |-> <<T!Name(<<"z">>)>>], [id |-> 130, aliases |-> <<t>>],
            [id |-> 228, aliases |-> <<tp>>], [id |-> 228228, aliases |-> <<tp>>],
            [id |-> 260048, aliases |-> <<trate>>]>>
Merged == <<[context |-> {[key |-> class, vals |-> {W("ai")}], [key |-> type, vals |-> {W("fc")}],
                          [key |-> stream, vals |-> {W("oper")}], [key |-> levtype, vals |-> {W("sfc")}]},
             list |-> <<228228>>]>>
ParamRules  == T!RulesOf(Merged, Ids, {tp, trate, t}, "new")
ParamFallBack == T!DefaultRule(Ids, "new")

Absent == [k \in 1 .. 10 |-> <<>>]
Known(list) == IF list = T!Failed THEN <<>> ELSE list[1] \o <<>>
ReadBy(k, list, request) == Known(T!ExpandList(TypesOf[k], list, request))
Rain == [Absent EXCEPT ![class] = <<W("ai")>>, ![type] = <<W("fc")>>, ![stream] = <<W("oper")>>, ![levtype] = <<W("sfc")>>]
ParamsIn(list, request) == Known(T!ResolveParams(ParamRules, ParamFallBack, list, request, FALSE, TRUE))
------------------------------------------------------------------------------
(* The requests *)

Asking(keys) == [k \in 1 .. 10 |-> IF k \in DOMAIN keys THEN keys[k] ELSE <<>>]

Crossing ==
    {Asking(class :> a @@ type :> b @@ stream :> c @@ levtype :> d) :
        a \in {<<>>, <<W("tigge")>>}, b \in {<<>>, <<W("forecast")>>, <<W("ob")>>},
        c \in {<<>>, <<Off>>, <<W("wave")>>}, d \in {<<>>, <<W("surface")>>}}

Chosen ==
    {Asking(class :> <<W("ai")>> @@ type :> <<W("fc")>> @@ stream :> <<W("oper")>> @@ levtype :> <<W("sfc")>> @@ param :> <<tp>>),
     Asking(class :> <<W("ai")>> @@ stream :> <<W("e1")>> @@ param :> <<tp, t>> @@ model :> <<W("ifs")>>),
     Asking(class :> <<W("tigge")>> @@ model :> <<W("glob")>> @@ param :> <<t>>),
     Asking(model :> <<W("glob")>>),
     Asking(class :> <<Off>> @@ model :> <<W("lam")>> @@ optimise :> <<Off>>),
     Asking(class :> <<W("rr")>> @@ model :> <<W("ifs")>>),
     Asking(param :> <<T!Dotted(228, 228)>> @@ step :> <<I(0), T!to, I(24)>>),
     Asking(param :> <<T!Name(<<"q">>)>>),
     Asking(param :> <<All>> @@ levelist :> <<All>>),
     Asking(levtype :> <<I(3)>> @@ levelist :> <<I(500), T!to, I(300), T!by, I(100)>> @@ date :> <<I(-5)>>),
     Asking(levelist :> <<T!Number(10000, 4, 1)>> @@ date :> <<W("february")>>),
     Asking(type :> <<W("ob")>> @@ step :> <<T!Span(I(6), I(1))>>),
     Asking(type :> <<W("ob")>> @@ levelist :> <<I(500)>>),
     Asking(class :> <<W("tigge")>> @@ optimise :> <<W("perhaps")>>),
     Asking(date :> <<Off>> @@ step :> <<T!Units(5400, FALSE)>> @@ optimise :> <<W("on")>>)}

SomeRequests == Crossing \cup Chosen

(* What the types make of these lists: some stay, some change, the others are refused. *)

Days(n)   == T!Day(Today + n, FALSE)
Numbers(list) == [i \in DOMAIN list |-> I(list[i])]
Ranged(a, b, more) == <<I(a), T!to, I(b)>> \o more

Stay == <<
    {<<W(w)>> : w \in {"od", "ti", "ai", "rr"}}, {<<W(w)>> : w \in {"an", "fc", "ob"}},
    {<<W(w)>> : w \in {"oper", "enfo", "wave", "e1"}}, {<<W("ml")>>, <<W("pl")>>, <<W("sfc")>>, <<I(3)>>},
    {<<Days(-1)>>, <<Days(-5)>>, <<W("feb")>>}, {<<I(0)>>, Numbers(<<0, 12, 24>>), <<T!Units(5400, TRUE)>>},
    {Numbers(l) : l \in {<<1>>, <<500>>, <<1000>>, <<1000, 850>>, <<500, 400, 300>>}},
    {<<tp>>, <<tp, t>>, <<t>>, <<T!Name(<<"q">>)>>, <<T!Dotted(228, 228)>>}
    \cup {Numbers(l) : l \in {<<129>>, <<130>>, <<228>>, <<228228>>, <<228, 130>>}},
    {<<W(w)>> : w \in {"ifs", "lam", "aifs-single-mse"}}, {<<W("on")>>}>>

Change == <<
    {<<<<W("tigge")>>, <<W("ti")>>>>}, {<<<<W("forecast")>>, <<W("fc")>>>>}, {}, {<<<<W("surface")>>, <<W("sfc")>>>>},
    {<<<<I(-1)>>, <<Days(-1)>>>>, <<<<I(-5)>>, <<Days(-5)>>>>, <<<<W("february")>>, <<W("feb")>>>>},
    {<<Ranged(0, 24, <<>>), Numbers(<<0, 12, 24>>)>>, <<<<T!Units(5400, FALSE)>>, <<T!Units(5400, TRUE)>>>>},
    {<<Ranged(500, 300, <<T!by, I(100)>>), Numbers(<<500, 400, 300>>)>>, <<<<T!Number(10000, 4, 1)>>, <<I(1000)>>>>},
    {}, {}, {}>>

(* The models of class ti, and those of any other, which it has, too *)
LamStay   == {<<W(w)>> : w \in {"lam", "global", "ifs", "aifs-single-mse"}}
LamChange == {<<<<W("glob")>>, <<W("global")>>>>}

(* pass2 of param: in the context of the one rule, t is taken for tp misspelled. *)
ParamChange == {<<<<tp>>, <<I(228)>>>>, <<<<T!Dotted(228, 228)>>, <<I(228228)>>>>,
                <<<<t>>, <<I(130)>>>>, <<<<tp, t>>, <<I(228), I(130)>>>>}
RainChange  == {<<<<tp>>, <<I(228228)>>>>, <<<<T!Dotted(228, 228)>>, <<I(228228)>>>>}
ParamStay == {<<All>>} \cup {Numbers(l) : l \in {<<129>>, <<130>>, <<228>>, <<228228>>, <<228, 130>>}}

SomeLists ==
    {<<>>, <<Off>>, <<All>>} \cup {<<W(w)>> : w \in {"global", "rd", "ssmi", "ur"}} \cup {<<I(228228), I(130)>>}
    \cup UNION {Stay[k] \cup {c[2] : c \in Change[k]} \cup {r[k] : r \in SomeRequests} : k \in 1 .. 10}
    \cup {r.vals : r \in DefaultRules \cup SetRules}

Making(stay, change) ==
    [l \in SomeLists |-> IF l \in stay THEN l
                         ELSE IF \E c \in change : c[1] = l THEN (CHOOSE c \in change : c[1] = l)[2] ELSE <<>>]
Always(stay, change) == [context |-> If({}), of |-> Making(stay, change)]

First(k, v)  == [key |-> k, kind |-> "first", vals |-> {W(v)}]
RainContext  == If({First(class, "ai"), First(type, "fc"), First(stream, "oper"), First(levtype, "sfc")})

SomeReadings == [k \in 1 .. 10 |->
    IF k = model THEN <<[context |-> If({Include(class, {"ti"})}), of |-> Making(LamStay, LamChange)],
                        Always(Stay[k], Change[k])>>
    ELSE <<Always(Stay[k], Change[k])>>]

SomeResolvers == [k \in 1 .. 10 |->
    CASE k = date  -> <<Always(SomeLists \ {<<>>, <<I(-1)>>}, Change[k])>>
      [] k = param -> <<[context |-> RainContext, of |-> Making(ParamStay, RainChange)],
                        Always(ParamStay, ParamChange)>>
      [] OTHER     -> <<>>]
------------------------------------------------------------------------------
(* They are what the types say. *)

Ti == [Absent EXCEPT ![class] = <<W("ti")>>]
Looked(k) ==
    ({r[k] : r \in SomeRequests} \cup Stay[k] \cup {r.vals : r \in {q \in DefaultRules : q.key = k}})
    \ {<<>>, <<Off>>, <<All>>}

ASSUME ReadAsTheTypesDo ==
    \A k \in 1 .. 10 : \A l \in Looked(k) :
        /\ Making(Stay[k], Change[k])[l] = ReadBy(k, l, Absent)
        /\ k = model => Making(LamStay, LamChange)[l] = ReadBy(k, l, Ti)

ASSUME ResolvedAsTheTypesDo ==
    \A l \in Looked(param) \cup {<<All>>} :
        /\ Making(ParamStay, RainChange)[l] = ParamsIn(l, Rain)
        /\ Making(ParamStay, ParamChange)[l] = ParamsIn(l, Absent)
------------------------------------------------------------------------------
(* The examples of test_type_levelist.cc, test_step.cc, test_time.cc,         *)
(* test_date.cc, test_param_axis.cc and test_steprange_axis.cc that reach     *)
(* every branch of the types and of the matching                              *)

FloatType == [type |-> "float", ranges |-> TRUE, multiple |-> TRUE, by |-> I(1)]
StepType  == [FloatType EXCEPT !.type = "range", !.by = I(12)]
TimeType  == [FloatType EXCEPT !.type = "time", !.by = T!Units(6 * 3600, TRUE)]
DateType  == [today |-> Today] @@ [FloatType EXCEPT !.type = "date"]
On(yyyymmdd) == T!Day(T!ConvertDate(yyyymmdd), FALSE)
Span(a, b) == T!Span(I(a), I(b))
Minutes(n) == T!Units(60 * n, TRUE)

Reads(is, list, expected) == T!ExpandList(is, list, Absent) = T!Found(expected)
Refuses(is, list)         == T!ExpandList(is, list, Absent) = T!Failed

ASSUME RangesOfLevels ==
    /\ Reads(FloatType, Ranged(4, 18, <<T!by, I(4)>>), Numbers(<<4, 8, 12, 16>>))
    /\ Reads(FloatType, Ranged(20, 4, <<T!by, I(4)>>), Numbers(<<20, 16, 12, 8, 4>>))
    /\ Reads(FloatType, Ranged(10, 4, <<T!by, I(-2)>>), Numbers(<<10, 8, 6, 4>>))
    /\ Reads(FloatType, Ranged(0, -1, <<T!by, T!Number(-5, 1, 1)>>), <<I(0), T!Number(-5, 1, 1), I(-1)>>)
    /\ Reads(FloatType, Numbers(<<4, 8, 4>>), Numbers(<<4, 8, 4>>))
    /\ Refuses(FloatType, Ranged(4, 20, <<T!by, I(0)>>)) /\ Refuses(FloatType, Ranged(4, 10, <<T!by, I(-4)>>))

ASSUME StepsAndTimes ==
    /\ Reads(StepType, <<Minutes(30), Minutes(60), Minutes(90), T!Units(7200, FALSE)>>, <<Minutes(30), I(1), Minutes(90), I(2)>>)
    /\ Reads(StepType, <<Span(0, 3), T!to, Span(9, 12), T!by, I(3)>>, <<Span(0, 3), Span(3, 6), Span(6, 9), Span(9, 12)>>)
    /\ Reads(StepType, <<Span(0, 3), T!to, Span(0, 12), T!by, I(3)>>, <<Span(0, 3)>>)
    /\ Refuses(StepType, <<I(-1)>>) /\ Refuses(StepType, <<Span(2, 1)>>)
    /\ Reads(TimeType, Ranged(0, 18, <<>>), [i \in 1 .. 4 |-> T!Number(6000 * (i - 1), 4, 0)])
    /\ Reads(TimeType, <<Minutes(1)>>, <<T!Number(10, 4, 0)>>)
    /\ Refuses(TimeType, <<I(675)>>) /\ Refuses(TimeType, <<I(25)>>)

ASSUME DatesAndMonths ==
    /\ Reads(DateType, <<On(20140227), T!to, On(20140301)>>, <<On(20140227), On(20140228), On(20140301)>>)
    /\ Reads(DateType, Ranged(-5, -1, <<T!by, I(2)>>), <<Days(-5), Days(-3), Days(-1)>>)
    /\ Reads(DateType, <<T!MonthDay(I(1), 1, TRUE)>>, <<T!MonthDay(W("jan"), 1, FALSE)>>)
    /\ Reads(DateType, <<T!YearDay(2018, 41)>>, <<On(20180210)>>)
    /\ Refuses(DateType, <<W("abc")>>)

Wind(table) == [u |-> A!Param(table, 131), v |-> A!Param(table, 132), vo |-> A!Param(table, 138), d |-> A!Param(table, 155)]
Plain(table) ==
    LET p(n) == A!Param(0, 1000 * table + n) IN [u |-> p(131), v |-> p(132), vo |-> p(138), d |-> p(155)]
Families   == <<Plain(0), Plain(129), Plain(171), Plain(200), Wind(128), Wind(129), Wind(171), Wind(200)>>
DropTables == <<140, 150, 151, 160, 162, 170, 180, 190>>
P(list)    == [i \in DOMAIN list |-> A!Param(0, list[i])]

(* Parameters asked for, those there are, and those it ends with, strictly and not *)
Ends(user, axis, mode, found, fields) ==
    LET matches == A!Normalise(Families, DropTables, axis, user, mode)
    IN  /\ {f[1] : f \in {matches[i].found : i \in DOMAIN matches} \ {<<>>}} = A!InAxis(found)
        /\ A!AskedFor(matches) = A!InAxis(found) \cup A!InAxis(fields)
        /\ A!WindConversion(matches) <=> fields # <<>>
Asks(user, axis, strictly, found, fields) ==
    /\ Ends(user, axis, "any table", found, fields)
    /\ IF strictly THEN Ends(user, axis, "strict", found, fields) ELSE Ends(user, axis, "strict", <<>>, <<>>)

ASSUME WindsAreMatched ==
    /\ Asks(P(<<131, 132>>), P(<<138, 155>>), TRUE, P(<<131, 132>>), P(<<138, 155>>))
    /\ Asks(P(<<131, 132>>), P(<<131, 132, 138, 155>>), TRUE, P(<<131, 132>>), <<>>)
    /\ Asks(<<A!Param(128, 131), A!Param(128, 132)>>, P(<<138, 155>>), TRUE, P(<<131, 132>>), P(<<138, 155>>))
    /\ Asks(P(<<131>>), <<Wind(128).vo, Wind(128).d>>, TRUE, <<Wind(128).u>>, <<Wind(128).vo, Wind(128).d>>)
    /\ Asks(P(<<131, 132>>), P(<<129138, 129155>>), FALSE, P(<<129131, 129132>>), P(<<129138, 129155>>))
    /\ Asks(<<A!Param(0, 131), A!Param(129, 132)>>, P(<<138, 155, 129138, 129155>>), TRUE,
                P(<<131, 129132>>), P(<<138, 155, 129138, 129155>>))
    /\ Asks(P(<<210131, 132>>), P(<<138, 155, 210131>>), TRUE, P(<<210131, 132>>), P(<<138, 155>>))
    /\ Asks(P(<<132>>), P(<<160131, 160138, 160155>>), FALSE, P(<<160132>>), P(<<160138, 160155>>))
    /\ Asks(P(<<131>>), P(<<160131, 160138, 160155>>), FALSE, P(<<160131>>), <<>>)
    /\ Asks(P(<<132>>), P(<<120138, 120155, 170138, 170155>>), FALSE, P(<<170132>>), P(<<170138, 170155>>))

ASSUME TablesAreMatched ==
    /\ Asks(P(<<145, 151145>>), <<A!Param(128, 145), A!Param(151, 145)>>, TRUE, <<A!Param(128, 145), A!Param(151, 145)>>, <<>>)
    /\ Asks(P(<<145>>), <<A!Param(151, 145)>>, FALSE, <<A!Param(151, 145)>>, <<>>)
    /\ Asks(P(<<129>>), P(<<140129>>), FALSE, P(<<140129>>), <<>>)
    /\ Asks(P(<<129>>), P(<<210129>>), FALSE, P(<<210129>>), <<>>)
    /\ Ends(P(<<129>>), P(<<210129>>), "loose", <<>>, <<>>)
    /\ Asks(P(<<128145>>), <<A!Param(128, 145), A!Param(151, 145)>>, TRUE, <<A!Param(128, 145)>>, <<>>)

ASSUME StepsAreMatched ==
    /\ A!NormaliseSteps(<<<<0, 24>>, <<24, 48>>>>, <<<<0, 24>>, <<24, 48>>, <<3, 9>>>>) = <<<<<<0, 24>>>>, <<<<24, 48>>>>, <<>>>>
    /\ A!NormaliseSteps(<<<<1, 1>>, <<0, 1>>, <<0, 24>>, <<25, 25>>>>, <<<<1, 1>>, <<2, 2>>, <<24, 24>>, <<25, 25>>>>)
           = <<<<<<1, 1>>, <<0, 1>>>>, <<>>, <<<<0, 24>>>>, <<<<25, 25>>>>>>
    /\ A!NormaliseSteps(<<<<1, 1>>, <<2, 2>>>>, <<<<2, 24>>>>) = <<<<<<2, 2>>>>>>
------------------------------------------------------------------------------
(* Requests as values: split and merge, filter and match, the stream, JSON.   *)

DayOfDate(v) == IF v > 0 THEN v % 100 ELSE -1
Q == INSTANCE MarsRequest WITH DayOf <- DayOfDate, Numerals <- {"1", "."}

Valued(name, values) == [name |-> name, values |-> values, category |-> "data"]
Verb(params)         == [verb |-> "retrieve", params |-> params]
Archived ==
    Verb(<<Valued("date", <<20240131, 20240201, -1, 20240301>>), Valued("step", <<0, 6, 12>>),
           Valued("expver", <<1>>), Valued("target", <<>>), Valued("param", <<129, 130>>)>>)
Samples == {Archived, Verb(<<>>), Q!UnsetValues(Archived, "step"), Q!SetValue(Archived, "level", 500),
            Q!SetValue(Archived, "date", -1), Q!Subset(Archived, {"step", "target"})}

SetOf(s) == {s[i] : i \in DOMAIN s}
Names(r) == SetOf(Q!GetParams(r))
Choices(r) ==
    LET names == {n \in Names(r) : Q!CountValues(r, n) > 0}
        vals(n) == SetOf(Q!ValuesOf(r, n, TRUE)[1])
    IN  {f \in [names -> UNION {vals(n) : n \in names}] : \A n \in names : f[n] \in vals(n)}

SplitKeys == {<<>>, <<"step">>, <<"date", "step">>, <<"param", "target", "date">>, <<"expver", "number">>}

(* The requests of a split have one value for each of the keys, and each field
   of the request is in one of them (MarsRequest::split). *)
ASSUME SplitCoversOnce ==
    \A r \in Samples, keys \in SplitKeys :
        LET parts == Q!Split(r, keys) IN
        /\ UNION {Choices(q) : q \in SetOf(parts)} = Choices(r)
        /\ \A i, j \in DOMAIN parts : i # j => Choices(parts[i]) \cap Choices(parts[j]) = {}
        /\ \A q \in SetOf(parts), k \in SetOf(keys) : Q!CountValues(q, k) <= 1

(* Merging the parts of a split in their order gives the request back. *)
ASSUME MergedAgain ==
    \A r \in Samples, keys \in SplitKeys :
        LET parts == Q!Split(r, keys)
            whole[i \in DOMAIN parts] ==
                IF i = 1 THEN parts[1] ELSE Q!Merge(whole[i - 1], parts[i])
        IN  whole[Len(parts)] = r

(* A request that is sent is the one that is read, but for the types. *)
ASSUME StreamKeepsRequests ==
    \A r \in Samples :
        LET q == Q!FromStream(Q!ToStream(r)) IN
        /\ q.verb = r.verb
        /\ [i \in DOMAIN q.params |-> <<q.params[i].name, q.params[i].values>>]
             = [i \in DOMAIN r.params |-> <<r.params[i].name, r.params[i].values>>]

(* So is one that goes through JSON, with single values in lists or not. *)
ASSUME JsonKeepsRequests ==
    \A r \in Samples, array \in BOOLEAN :
        LET q == Q!FromJson(r.verb, Q!Json(r, array, {"date", "step"})) IN
        /\ Names(q) = Names(r)
        /\ \A n \in Names(r) : Q!ValuesOf(q, n, FALSE) = Q!ValuesOf(r, n, FALSE)

Patterns == {Verb(<<>>), Verb(<<Valued("step", <<6, 24>>)>>), Verb(<<Valued("step", <<24>>)>>),
             Verb(<<Valued("param", <<130>>), Valued("step", <<12, 6>>)>>),
             Verb(<<Valued("date", <<-1>>), Valued("step", <<6>>)>>)}

(* A request passes a filter on parameters it has just when it matches it, and
   what is left of it matches in every value (filter, matches). *)
ASSUME FilterAgreesWithMatches ==
    \A r \in Samples, p \in Patterns :
        Names(p) \subseteq Names(r) =>
            LET left == Q!Filter(r, p) IN
            /\ left.ok <=> Q!Matches(r, p)
            /\ left.ok => \A n \in Names(p) :
                   SetOf(Q!ValuesOf(left.request, n, TRUE)[1]) \subseteq SetOf(Q!ValuesOf(p, n, TRUE)[1])

(* A filter by days keeps the dates that have one (TypeDate). *)
ASSUME DatesOfDays ==
    LET left == Q!Filter(Archived, Verb(<<Valued("day", <<1>>)>>)) IN
    left.ok /\ Q!ValuesOf(left.request, "date", FALSE) = <<<<20240201, 20240301>>>>
-------------------------------------------------------------------------------
(* Requests as texts.                                                         *)

TextValues ==
    {<<"z">>, <<"1">>, <<>>, <<"a", " ", "b">>, <<"a", " ", " ", "b">>, <<"a", "/", "b">>, <<"'">>,
     <<"a", "\"">>, <<"a", "\\">>, <<"a", "\\", "/">>}
TextParam(name, values) == [name |-> <<name>>, values |-> values, category |-> Q!NoCategory]
TextRequest(params)     == [verb |-> <<"retrieve">>, params |-> params]
Texts ==
    {TextRequest(<<>>), TextRequest(<<TextParam("param", <<>>)>>)} \cup
    {TextRequest(<<TextParam("param", <<v, w>>)>>) : v, w \in TextValues} \cup
    {TextRequest(<<TextParam("param", <<v>>), TextParam("step", <<w>>)>>) : v, w \in TextValues}

(* The values that quoted() writes so that parseString() finds them again: it
   escapes neither a quote nor a backslash. *)
SurvivesText(v) == ~ \E i \in DOMAIN v : v[i] \in {"\"", "\\"}
HasText(r) ==
    /\ r.params # <<>>
    /\ \A p \in SetOf(r.params) : p.values # <<>> /\ \A v \in SetOf(p.values) : SurvivesText(v)

(* What dump() writes parse() reads as the same request, but for a request
   without parameters (the comma after its verb calls for one), a parameter
   without values (it comes back with an empty one) and those values. *)
ASSUME DumpIsReadBack ==
    \A r \in Texts : Q!Parse(Q!Dump(r)) = <<<<r>>>> <=> HasText(r)

(* Requests on lines of their own are read one by one, but after an empty
   value, which takes the next verb for itself, as any unquoted value does with
   the next word of its line. *)
ASSUME RequestsOfAFile ==
    \A r \in {x \in Texts : HasText(x)}, v \in {<<"z">>, <<"a", "/", "b">>} :
        LET q      == TextRequest(<<TextParam("step", <<v>>)>>)
            params == r.params[Len(r.params)]
            last   == params.values[Len(params.values)]
            apart(mark) == Q!Parse(Q!Dump(r) \o <<mark>> \o Q!Dump(q)) = <<<<r, q>>>>
        IN  /\ apart("newline") <=> last # <<>>
            /\ apart(" ") <=> (last # <<>> /\ Q!Quoted(last) # last)

(* A key given twice has the later values, and a full stop after a quoted value
   ends the request, after a word it is part of it. *)
ASSUME KeysAndStops ==
    /\ Q!Parse(<<"retrieve", ",", "a", "=", "z", ",", "a", "=", "1">>) =
           <<<<TextRequest(<<TextParam("a", <<<<"1">>>>)>>)>>>>
    /\ Q!Parse(<<"retrieve", ",", "a", "=", "\"", "z", "\"", ".">>) =
           <<<<TextRequest(<<TextParam("a", <<<<"z">>>>)>>)>>>>
    /\ Q!Parse(<<"retrieve", ",", "a", "=", "z", " ", ".">>) =
           <<<<TextRequest(<<TextParam("a", <<<<"z", " ", ".">>>>)>>)>>>>
    /\ Q!Parse(<<"1", ",", "a", "=", "z">>) = <<>>
=============================================================================
