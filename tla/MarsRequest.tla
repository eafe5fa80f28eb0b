------------------------------ MODULE MarsRequest ------------------------------
(***************************************************************************)
(* metkit::mars::MarsRequest as a value: a verb and a list of parameters   *)
(* with distinct names, each a list of values and the category of its type *)
(* (a parameter nobody gave a type is of TypeAny, which has none).         *)
(*                                                                         *)
(* What may throw returns a sequence: <<v>> for v, <<>> for the exception. *)
(***************************************************************************)
EXTENDS Naturals, Sequences
LOCAL INSTANCE SequencesExt

CONSTANTS
    DayOf(_),           \* the day of a date, or -1 (TypeDate)
    Numerals            \* the words that do not start with a letter, "." among them

NoCategory == "none"

Find(r, name)        == SelectInSeq(r.params, LAMBDA p : p.name = name)
HasName(r, name)     == Find(r, name) # 0
GetParams(r)         == [i \in DOMAIN r.params |-> r.params[i].name]
CountValues(r, name) == IF HasName(r, name) THEN Len(r.params[Find(r, name)].values) ELSE 0
IsValue(r, name, v)  == HasName(r, name) /\ r.params[Find(r, name)].values = <<v>>

ValuesOf(r, name, emptyOk) ==
    IF HasName(r, name) THEN <<r.params[Find(r, name)].values>>
    ELSE IF emptyOk THEN << <<>> >> ELSE <<>>
----------------------------------------------------------------------------
(* Setting and unsetting.                                                  *)

\* A parameter takes the place of the one of its name, or goes to the end.
Put(r, p) ==
    [r EXCEPT !.params = IF HasName(r, p.name) THEN [@ EXCEPT ![Find(r, p.name)] = p]
                         ELSE Append(@, p)]

SetValuesTyped(r, type, values) ==
    Put(r, [name |-> type.name, values |-> values, category |-> type.category])

\* The values change and the type stays.
SetValues(r, name, values) ==
    Put(r, [name |-> name, values |-> values,
            category |-> IF HasName(r, name) THEN r.params[Find(r, name)].category
                         ELSE NoCategory])

SetValue(r, name, value) == SetValues(r, name, <<value>>)

UnsetValues(r, name) ==
    IF HasName(r, name) THEN [r EXCEPT !.params = RemoveAt(@, Find(r, name))] ELSE r

Subset(r, keys)      == [r EXCEPT !.params = SelectSeq(@, LAMBDA p : p.name \in keys)]
Extract(r, category) == [r EXCEPT !.params = SelectSeq(@, LAMBDA p : p.category = category)]
----------------------------------------------------------------------------
(* merge, matches and filter.                                              *)

\* The values of q that p does not have, after its own.
MergeParameter(p, q) ==
    [p EXCEPT !.values = @ \o SelectSeq(q.values, LAMBDA v : v \notin ToSet(p.values))]

Merge(r, other) ==
    LET merged(p) == IF HasName(other, p.name)
                     THEN MergeParameter(p, other.params[Find(other, p.name)]) ELSE p
    IN  [r EXCEPT !.params = [i \in DOMAIN @ |-> merged(@[i])]]

\* Every parameter of the pattern is there and has one of the values.
Matches(r, pattern) ==
    \A p \in ToSet(pattern.params) :
        /\ HasName(r, p.name)
        /\ ToSet(r.params[Find(r, p.name)].values) \cap ToSet(p.values) # {}

\* What is left of the values of a parameter: of the dates also the days must
\* be wanted.
Kept(p, wanted) ==
    LET days  == IF p.name = "date" THEN ValuesOf(wanted, "day", FALSE) ELSE <<>>
        names == ValuesOf(wanted, p.name, FALSE)
        dated == IF days = <<>> THEN p.values
                 ELSE SelectSeq(p.values, LAMBDA v : DayOf(v) # -1 /\ DayOf(v) \in ToSet(days[1]))
    IN  IF names = <<>> THEN dated ELSE SelectSeq(dated, LAMBDA v : v \in ToSet(names[1]))

\* The parameters are filtered in order, up to the first that loses all its
\* values; filter() answers whether there is none such.
Filter(r, wanted) ==
    LET touched(p) == HasName(wanted, p.name) \/ (p.name = "date" /\ HasName(wanted, "day"))
        lost == {i \in DOMAIN r.params : touched(r.params[i]) /\ Kept(r.params[i], wanted) = <<>>}
        left(i, p) == IF \A j \in lost : i <= j
                      THEN [p EXCEPT !.values = Kept(p, wanted)] ELSE p
    IN  [ok      |-> lost = {},
         request |-> [r EXCEPT !.params = [i \in DOMAIN @ |-> left(i, @[i])]]]
----------------------------------------------------------------------------
(* split: one request for every choice of a value for each of the keys.    *)

\* Every request of the list, once for every value of the key.
ExpandAlongKey(requests, key, values) ==
    FlattenSeq([i \in DOMAIN requests |->
                   [k \in DOMAIN values |-> SetValue(requests[i], key, values[k])]])

Split(r, keys) ==
    LET used == SelectSeq(keys, LAMBDA k : CountValues(r, k) # 0)
        along[i \in 0 .. Len(used)] ==
            IF i = 0 THEN <<r>>
            ELSE ExpandAlongKey(along[i - 1], used[i], ValuesOf(r, used[i], TRUE)[1])
    IN  along[Len(used)]
----------------------------------------------------------------------------
(* The stream between processes, and the JSON form.                        *)

ToStream(r) ==
    <<r.verb, Len(r.params)>> \o
    FlattenSeq([i \in DOMAIN r.params |->
                   <<r.params[i].name, Len(r.params[i].values)>> \o r.params[i].values])

\* The types do not travel.
FromStream(s) ==
    LET read[i \in 0 .. s[2]] ==
            IF i = 0 THEN [at |-> 3, params |-> <<>>]
            ELSE LET at    == read[i - 1].at
                     count == s[at + 1]
                 IN  [at     |-> at + 2 + count,
                      params |-> Append(read[i - 1].params,
                                        [name     |-> s[at],
                                         values   |-> SubSeq(s, at + 2, at + 1 + count),
                                         category |-> NoCategory])]
    IN  [verb |-> s[1], params |-> read[s[2]].params]

\* A value stands alone where it is the only one, unless lists are asked for
\* (array) and the type of the parameter is one of those that take several.
Json(r, array, multiple) ==
    [name \in ToSet(GetParams(r)) |->
        LET values == ValuesOf(r, name, TRUE)[1]
        IN  IF Len(values) # 1 \/ (array /\ name \in multiple)
            THEN [list |-> values] ELSE [scalar |-> values[1]]]

\* The parameters come in the order of their names, which is left out here.
FromJson(verb, json) ==
    LET names == SetToSeq(DOMAIN json)
    IN  [verb   |-> verb,
         params |-> [i \in DOMAIN names |->
                        [name     |-> names[i],
                         values   |-> LET v == json[names[i]]
                                      IN  IF DOMAIN v = {"list"} THEN v.list ELSE <<v.scalar>>,
                         category |-> NoCategory]]]
----------------------------------------------------------------------------
(* A request as text: how MarsRequest::dump writes it and how MarsParser   *)
(* reads it.                                                               *)
(*                                                                         *)
(* A text is a sequence of marks and of words, the longest runs of         *)
(* characters that may stand without quotes, so two words never touch.     *)
(* The names, verbs and values of a request are texts.  The comments of a  *)
(* text are blanks to the stream below the parser, which skips both.       *)

Quotes      == {"\"", "'"}
Blanks      == {" ", "newline"}
EndOfText   == "end"
InIndent(c) == c \notin {",", "=", "/", "\\", EndOfText} \cup Quotes \cup Blanks

\* What a parser returns: <<[at, value]>>, or nothing where it throws.
Read(at, value)  == <<[at |-> at, value |-> value]>>
Refuse           == <<>>
Then(read, F(_)) == IF read = Refuse THEN Refuse ELSE F(read[1])
InFront(x, read) == Then(read, LAMBDA rest : Read(rest.at, <<x>> \o rest.value))

At(t, i)      == IF i <= Len(t) THEN t[i] ELSE EndOfText
Past(t, i, s) == CHOOSE j \in i .. Len(t) + 1 :
                    At(t, j) \notin s /\ \A k \in i .. j - 1 : t[k] \in s
Peek(t, i)    == Past(t, i, Blanks)

\* After a backslash come the quotes, a slash, a backslash or the letter of a
\* control character, which is not modelled.
ParseString(t, start) ==
    LET string[i \in start + 1 .. Len(t) + 2] ==
            IF i > Len(t) THEN Refuse
            ELSE IF t[i] = t[start] THEN Read(i + 1, <<>>)
            ELSE IF t[i] # "\\" THEN InFront(t[i], string[i + 1])
            ELSE IF At(t, i + 1) \in {"/", "\\"} \cup Quotes
            THEN InFront(t[i + 1], string[i + 2]) ELSE Refuse
    IN  string[start + 1]

\* The words of a line, one blank between them; there may be none.
ParseIndents(t, start) ==
    LET indents[i \in 1 .. Len(t) + 1] ==
            LET j == Past(t, i + 1, {" "})
            IN  IF ~InIndent(At(t, i)) THEN Read(i, <<>>)
                ELSE IF InIndent(At(t, j)) THEN InFront(t[i], InFront(" ", indents[j]))
                ELSE Read(j, <<t[i]>>)
    IN  indents[Peek(t, start)]

ParseValue(t, i) ==
    IF At(t, Peek(t, i)) \in Quotes THEN ParseString(t, Peek(t, i)) ELSE ParseIndents(t, i)

\* Items from a place on, as long as the mark comes before another.
ParseList(t, start, Item(_), mark) ==
    LET items[i \in 1 .. Len(t) + 1] ==
            Then(Item(i), LAMBDA item :
                LET next == Peek(t, item.at)
                IN  IF At(t, next) = mark THEN InFront(item.value, items[next + 1])
                    ELSE Read(next, <<item.value>>))
    IN  items[start]

ParseValues(t, i) == ParseList(t, i, LAMBDA j : ParseValue(t, j), "/")

ParseAssignment(t, i) ==
    Then(ParseIndents(t, i), LAMBDA key :
        IF At(t, Peek(t, key.at)) # "=" THEN Refuse
        ELSE Then(ParseValues(t, Peek(t, key.at) + 1), LAMBDA v :
                 Read(v.at, [key |-> key.value, values |-> v.value])))

ParseVerb(t, i) ==
    LET j == Peek(t, i)
    IN  IF InIndent(At(t, j)) /\ At(t, j) \notin Numerals THEN Read(j + 1, <<t[j]>>) ELSE Refuse

\* A key that comes twice has the values it comes with last.
ParseRequest(t, i) ==
    Then(ParseVerb(t, i), LAMBDA verb :
        LET bare    == [verb |-> verb.value, params |-> <<>>]
            comma   == Peek(t, verb.at)
            list    == IF At(t, comma) = "," THEN ParseList(t, comma + 1, LAMBDA j : ParseAssignment(t, j), ",")
                       ELSE Read(comma, <<>>)
        IN  Then(list, LAMBDA a :
                Read(IF At(t, a.at) = "." THEN a.at + 1 ELSE a.at,
                     FoldLeft(LAMBDA r, p : SetValues(r, p.key, p.values), bare, a.value))))

Parse(t) ==
    LET requests[i \in 1 .. Len(t) + 1] ==
            IF At(t, Peek(t, i)) = EndOfText THEN Read(i, <<>>)
            ELSE Then(ParseRequest(t, i), LAMBDA r : InFront(r.value, requests[r.at]))
    IN  Then(requests[1], LAMBDA all : <<all.value>>)
----------------------------------------------------------------------------
(* Writing.                                                                *)

Quoted(value) ==
    IF \A i \in DOMAIN value : InIndent(value[i]) THEN value ELSE <<"\"">> \o value \o <<"\"">>

Joined(texts, mark) ==
    FlattenSeq([i \in DOMAIN texts |-> IF i = 1 THEN texts[i] ELSE <<mark>> \o texts[i]])

\* The comma is there even where no parameter follows.
Dump(r) ==
    LET values(p) == Joined([i \in DOMAIN p.values |-> Quoted(p.values[i])], "/")
    IN  r.verb \o <<",">> \o
        Joined([i \in DOMAIN r.params |-> r.params[i].name \o <<"=">> \o values(r.params[i])], ",")
=============================================================================
