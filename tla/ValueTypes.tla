------------------------------ MODULE ValueTypes ------------------------------
(***************************************************************************)
(* What the types of the MARS language make of the values a request gives  *)
(* for a key: metkit::mars::Type::expand and the classes derived from it,  *)
(* with the lists `from to last by step' of TypeToByList.                  *)
(*                                                                         *)
(* A text is a record of what the types can tell of its spelling, never    *)
(* its letters.  Expansion of one text is Failed when it throws, Unknown   *)
(* when it says that it cannot, and otherwise Found(the new text).         *)
(* What eckit makes of the text of a time or a date is its business:       *)
(* TimeOf and the dates are modelled from how metkit uses them.            *)
(***************************************************************************)
EXTENDS ProductTime, SequencesExt, FiniteSets

Word(w)  == [form |-> "word", word |-> w, upper |-> FALSE]
Upper(v) == IF v.form = "word" THEN [v EXCEPT !.upper = TRUE] ELSE v
Lower(v) == IF v.form = "word" THEN [v EXCEPT !.upper = FALSE] ELSE v

(* A decimal number, in tenths, with `width' digits before the point and `places' after it. *)
Number(tenths, width, places) == [form |-> "number", tenths |-> tenths, width |-> width, places |-> places]

Digits(n)  == CHOOSE d \in 1 .. 9 : n < 10 ^ d /\ (d = 1 \/ n >= 10 ^ (d - 1))
Size(n)    == IF n < 0 THEN -n ELSE n
Whole(n)   == Number(10 * n, Digits(Size(n)), 0)
Tenths(n)  == Number(n, Digits(Size(n) \div 10), IF n % 10 = 0 THEN 0 ELSE 1)
IsWhole(v) == v.form = "number" /\ v.places = 0
Value(v)   == v.tenths \div 10

(* Hours, minutes and seconds with their letters, in the largest units or not (1h30m, 90m). *)
Units(seconds, largest) == [form |-> "units", seconds |-> seconds, largest |-> largest]
Span(from, to)          == [form |-> "span", from |-> from, to |-> to]
Quantile(num, den)      == [form |-> "quantile", num |-> num, den |-> den]
Day(day, dashed)        == [form |-> "day", day |-> day, dashed |-> dashed]
YearDay(year, n)        == [form |-> "yearday", year |-> year, n |-> n]
MonthDay(month, n, padded) == [form |-> "monthday", month |-> month, n |-> n, padded |-> padded]

Unknown == Found([form |-> "unknown"])
to      == Word("to")
by      == Word("by")
------------------------------------------------------------------------------
(* Types of words *)

ExpandLowercase(v) == Found(Lower(v))

(* Four characters at least: a word is taken to have them. *)
ExpandExpver(v) ==
    IF Lower(v) \in {Word("all"), Word("any")} THEN Found(Lower(v))
    ELSE IF v.form = "number" /\ v.width < 4 THEN Found([v EXCEPT !.width = 4])
    ELSE Found(v)

ExpandRegex(t, v) ==
    IF v \notin t.matching THEN Unknown ELSE Found(IF t.uppercase THEN Upper(v) ELSE v)

(* An entry has its names, the canonical one first, and the entries of its group. *)
Entries(t) == FlattenSeq([i \in DOMAIN t.entries |-> <<t.entries[i]>> \o t.entries[i].group])

Entry(t, v) ==
    LET known == {i \in DOMAIN Entries(t) : Contains(Entries(t)[i].names, Lower(v))}
    IN  IF known = {} THEN 0 ELSE CHOOSE i \in known : \A j \in known : j <= i

FirstName(t, i) == LET name == Entries(t)[i].names[1] IN IF t.uppercase THEN Upper(name) ELSE name

ExpandEnum(t, v) == IF Entry(t, v) = 0 THEN Unknown ELSE Found(FirstName(t, Entry(t, v)))

HasGroups(t) == t.type = "enum" /\ \E i \in DOMAIN t.entries : t.entries[i].group # <<>>

(* TypeEnum::group: an entry without a group is its own. *)
Group(t, v) ==
    LET e    == Entries(t)[Entry(t, v)]
        name(n) == IF t.uppercase THEN Upper(n) ELSE n
    IN  IF e.group = <<>> THEN <<name(e.names[1])>>
        ELSE LET names == [i \in DOMAIN e.group |-> name(e.group[i].names[1])]
                 firstOf(i) == \A j \in 1 .. i - 1 : names[j] # names[i]
                 kept == SelectSeq([i \in DOMAIN names |-> i], firstOf)
             IN  [i \in DOMAIN kept |-> names[kept[i]]]
------------------------------------------------------------------------------
(* Numbers *)

ExpandInteger(t, v) ==
    IF IsWhole(v) /\ (t.range = <<>> \/ (t.range[1] <= Value(v) /\ Value(v) <= t.range[2]))
    THEN Found(Whole(Value(v))) ELSE Unknown

(* Zeros are stripped from both ends, but not behind a sign: -05 stays. *)
ExpandFloat(v) ==
    IF v.form # "number" THEN Unknown
    ELSE Found([v EXCEPT
        !.width  = IF v.tenths < 0 THEN @ ELSE IF v.tenths \in 1 .. 9 THEN 0
                   ELSE Digits(v.tenths \div 10),
        !.places = IF v.tenths % 10 = 0 THEN 0 ELSE 1])

ExpandQuantile(t, v) ==
    IF /\ v.form = "quantile" /\ 0 <= v.num /\ v.num <= v.den
       /\ v.den \in t.denominators
    THEN Found(v) ELSE Failed
------------------------------------------------------------------------------
(* Times and steps.  Digits alone are hours where times are extended. *)

TimeOf(v, extended) ==
    CASE v.form = "units"                              -> Found(v.seconds)
      [] IsWhole(v) /\ v.tenths < 0                    -> Failed
      [] IsWhole(v) /\ (extended \/ v.width <= 2)      -> Found(3600 * Value(v))
      [] IsWhole(v) /\ ~extended /\ v.width \in 3 .. 4 ->
             If(Value(v) % 100 < 60, 3600 * (Value(v) \div 100) + 60 * (Value(v) % 100))
      [] OTHER                                         -> Failed

(* hhmm *)
ExpandTime(v) ==
    LET time == TimeOf(v, FALSE)
    IN  IF time = Failed \/ time[1] % 60 # 0 \/ time[1] >= SecondsPerDay THEN Failed
        ELSE Found(Number(10 * (100 * (time[1] \div 3600) + ((time[1] \div 60) % 60)), 4, 0))

(* StepRange::StepRange, in seconds *)
StepRange(v) ==
    LET from == TimeOf(IF v.form = "span" THEN v.from ELSE v, TRUE)
        last == TimeOf(IF v.form = "span" THEN v.to ELSE v, TRUE)
    IN  IF from = Failed \/ last = Failed THEN Failed ELSE If(from[1] <= last[1], <<from[1], last[1]>>)

(* canonical: whole hours are a number, other times have their letters *)
Canonical(seconds) ==
    IF seconds % 3600 = 0 THEN Whole(seconds \div 3600) ELSE Units(seconds, TRUE)

StepText(step) ==
    IF step[1] = step[2] THEN Canonical(step[1]) ELSE Span(Canonical(step[1]), Canonical(step[2]))

ExpandRange(v) == IF StepRange(v) = Failed THEN Failed ELSE Found(StepText(StepRange(v)[1]))
------------------------------------------------------------------------------
(* Dates *)

Months == <<"jan", "feb", "mar", "apr", "may", "jun", "jul", "aug", "sep", "oct", "nov", "dec">>
LongNames == <<"january", "february", "march", "april", "may", "june", "july", "august",
               "september", "october", "november", "december">>

(* month(): a number is a place in the year, a word is known by its first three letters *)
Month(v) ==
    LET m == IF IsWhole(v) THEN {Value(v)} \cap 1 .. 12
             ELSE IF v.form = "word" THEN {i \in 1 .. 12 : v.word \in {Months[i], LongNames[i]}} ELSE {}
    IN  IF m = {} THEN Failed ELSE Found(Word(Months[CHOOSE i \in m : TRUE]))

(* A text that begins with `0' or `-' *)
Relative(v) == IsWhole(v) /\ (v.tenths <= 0 \/ v.width > Digits(Value(v)))

ExpandDate(t, v) ==
    CASE Relative(v)          -> Found(IF v.tenths <= 0 THEN Day(t.today + Value(v), FALSE) ELSE v)
      [] v.form = "yearday"   -> If(v.n \in 1 .. (IF IsLeap(v.year) THEN 366 ELSE 365),
                                    Day(FirstDay(12 * v.year) + v.n - 1, FALSE))
      [] v.form = "monthday"  -> IF Month(v.month) = Failed THEN Failed
                                 ELSE Found(MonthDay(Month(v.month)[1], v.n, FALSE))
      [] v.form = "day"       -> Found(Day(v.day, FALSE))
      [] v.form = "word" \/ (~Relative(v) /\ IsWhole(v) /\ v.width <= 2) -> Month(v)
      [] OTHER                -> Failed
------------------------------------------------------------------------------
(* TypesFactory::build, TypeMixed: the first member whose context holds and   *)
(* that can; a member that throws ends it for all.                            *)

ExpandPlain(t, v) ==
    CASE t.type = "any"       -> Found(v)
      [] t.type = "lowercase" -> ExpandLowercase(v)
      [] t.type = "expver"    -> ExpandExpver(v)
      [] t.type = "regex"     -> ExpandRegex(t, v)
      [] t.type = "enum"      -> ExpandEnum(t, v)
      [] t.type = "integer"   -> ExpandInteger(t, v)
      [] t.type = "float"     -> ExpandFloat(v)
      [] t.type = "quantile"  -> ExpandQuantile(t, v)
      [] t.type = "time"      -> ExpandTime(v)
      [] t.type = "range"     -> ExpandRange(v)
      [] t.type = "date"      -> ExpandDate(t, v)
      [] t.type = "param"     -> Found(v)

ExpandMixed(t, v, request) ==
    LET holds(m) == \A rule \in m.context : \E i \in DOMAIN request[rule.key] : request[rule.key][i] \in rule.vals
        able == {i \in DOMAIN t.types : holds(t.types[i]) /\ ExpandPlain(t.types[i].is, v) # Unknown}
    IN  IF able = {} THEN Unknown
        ELSE ExpandPlain(t.types[CHOOSE i \in able : \A j \in able : i <= j].is, v)

ExpandOne(t, v, request) ==
    IF t.type = "mixed" THEN ExpandMixed(t, v, request) ELSE ExpandPlain(t, v)

Tidy(t, v, request) ==
    LET expanded == ExpandOne(t, v, request) IN IF expanded = Unknown THEN Found(v) ELSE expanded
------------------------------------------------------------------------------
(* TypeToByList::expandRanges.  An element is the pair of numbers that its    *)
(* class compares and moves: twice the same one, but for steps and quantiles. *)

Element(t, v) ==
    CASE t.type = "range"    -> StepRange(v)
      [] t.type = "quantile" -> IF v.form = "quantile" THEN Found(<<v.num, v.den>>) ELSE Failed
      [] t.type = "time"     -> LET s == TimeOf(v, FALSE) IN IF s = Failed THEN Failed ELSE Found(<<s[1], s[1]>>)
      [] t.type = "date"     -> IF v.form = "day" THEN Found(<<v.day, v.day>>) ELSE Failed
      [] t.type = "integer"  -> If(IsWhole(v), <<Value(v), Value(v)>>)
      [] t.type = "float"    -> IF v.form = "number" THEN Found(<<v.tenths, v.tenths>>) ELSE Failed

Text(t, e) ==
    CASE t.type = "range"    -> StepText(e)
      [] t.type = "quantile" -> Quantile(e[1], e[2])
      [] t.type = "time"     -> Units(e[1], TRUE)
      [] t.type = "date"     -> Day(e[1], FALSE)
      [] t.type = "integer"  -> Whole(e[1])
      [] t.type = "float"    -> Tenths(e[1])

Step(t, v) ==
    CASE t.type \in {"range", "time"} -> TimeOf(v, t.type = "range")
      [] t.type = "float"             -> IF v.form = "number" THEN Found(v.tenths) ELSE Failed
      [] OTHER                        -> If(IsWhole(v), Value(v))

(* += and -=, which throw for a quantile over 1 and for a time out of the day *)
Move(t, e, n) ==
    CASE t.type = "quantile" -> If(0 <= e[1] + n /\ e[1] + n <= e[2], <<e[1] + n, e[2]>>)
      [] t.type = "time"     -> If(e[1] + n \in 0 .. SecondsPerDay - 1, <<e[1] + n, e[2] + n>>)
      [] OTHER               -> Found(<<e[1] + n, e[2] + n>>)

Less(a, b) == a[1] < b[1] \/ (a[1] = b[1] /\ a[2] < b[2])

(* The loop: from j on, until it is at the end or would be past it *)
RECURSIVE Climb(_, _, _, _, _, _, _)
Climb(t, j, n, from, last, lastText, request) ==
    LET next == Move(t, j, n)
        text == Tidy(t, Text(t, next[1]), request)
    IN  IF j = last \/ next = Failed \/ text = Failed THEN <<>>
        ELSE IF /\ (Less(from, last) /\ Less(last, next[1])) \/ (Less(last, from) /\ Less(next[1], last))
                /\ text[1] # lastText
        THEN <<>>
        ELSE text \o Climb(t, next[1], n, from, last, lastText, request)

(* What `to' adds to the list; the first value is in it already. *)
Added(t, fromText, lastText, step, request) ==
    LET from == Element(t, fromText)
        last == Element(t, lastText)
        n    == Step(t, step)
    IN  IF from = Failed \/ last = Failed \/ n = Failed THEN Failed
        ELSE IF n[1] = 0 \/ (t.type = "quantile" /\ from[1][2] # last[1][2]) THEN Failed
        ELSE IF Less(from[1], last[1]) /\ n[1] < 0 THEN Failed
        ELSE LET up == (Less(from[1], last[1]) /\ n[1] > 0) \/ (Less(last[1], from[1]) /\ n[1] < 0)
             IN  Found(Climb(t, from[1], IF up THEN n[1] ELSE -n[1], from[1], last[1], lastText, request))

RECURSIVE ToByList(_, _, _, _, _)
ToByList(t, values, i, new, request) ==
    IF i > Len(values) THEN Found(new)
    ELSE IF Lower(values[i]) # to
    THEN LET v == Tidy(t, values[i], request)
         IN  IF v = Failed THEN Failed ELSE ToByList(t, values, i + 1, new \o v, request)
    ELSE IF new = <<>> \/ Len(values) <= i THEN Failed
    ELSE LET stepped == i + 2 <= Len(values) /\ Lower(values[i + 2]) = by
             from  == Tidy(t, values[i - 1], request)
             last  == Tidy(t, values[i + 1], request)
         IN  IF from = Failed \/ last = Failed \/ (stepped /\ Len(values) < i + 3) THEN Failed
             ELSE LET more == Added(t, from[1], last[1], IF stepped THEN values[i + 3] ELSE t.by, request)
                  IN  IF more = Failed THEN Failed
                      ELSE ToByList(t, values, IF stepped THEN i + 4 ELSE i + 2, new \o more[1], request)
------------------------------------------------------------------------------
(* Type::expand of a list.  A list with ranges is tidied, and then expanded   *)
(* like any other.  Repeated values stay, but for those of groups: the set    *)
(* that a type without duplicates looks them up in is only filled for groups. *)

Once(list) ==
    LET firsts == {i \in DOMAIN list : \A j \in 1 .. i - 1 : list[j] # list[i]}
        isFirst(i) == i \in firsts
        kept == SelectSeq([i \in DOMAIN list |-> i], isFirst)
    IN  [i \in DOMAIN kept |-> list[kept[i]]]

ExpandList(t, values, request) ==
    LET listed == IF t.ranges /\ Len(values) > 1 THEN ToByList(t, values, 1, <<>>, request) ELSE Found(values)
        each   == [i \in DOMAIN listed[1] |-> ExpandOne(t, listed[1][i], request)]
        texts  == [i \in DOMAIN each |-> each[i][1]]
        new    == IF HasGroups(t) THEN Once(FlattenSeq([i \in DOMAIN texts |-> Group(t, texts[i])])) ELSE texts
    IN  IF listed = Failed THEN Failed
        ELSE IF \E i \in DOMAIN each : each[i] \in {Failed, Unknown} THEN Failed
        ELSE If(t.multiple \/ Len(new) <= 1, new)
------------------------------------------------------------------------------
(* Type::filter, MarsRequest::filter: what is left of a list when a filter    *)
(* request says which values are wanted, or which days of the month.          *)

Filter(wanted, list) == LET keep(v) == Contains(wanted, v) IN SelectSeq(list, keep)

(* day(): the day of the month, or -1 where the text has none *)
DayOfMonth(t, v) ==
    LET in(day) == day - FirstDay(MonthOf(day)) + 1 IN
    CASE Relative(v)         -> IF v.tenths <= 0 THEN in(t.today + Value(v)) ELSE -1
      [] v.form = "yearday"  -> in(FirstDay(12 * v.year) + v.n - 1)
      [] v.form = "monthday" -> v.n
      [] v.form = "day"      -> in(v.day)
      [] OTHER               -> -1

FilterByDay(t, days, list) ==
    LET keep(v) == DayOfMonth(t, v) \in days \ {-1} IN SelectSeq(list, keep)
=============================================================================
