--------------------------- MODULE RequestDictionary ---------------------------
(***************************************************************************)
(* metkit::mars::MarsRequest as the dictionary of a conversion             *)
(* (dict_traits of grib2mars and of mars2mars, which are alike): its       *)
(* values are texts, and are read and written as numbers by the converter  *)
(* of their key.  A request is a function from its keywords to their       *)
(* lists of values.                                                        *)
(*                                                                         *)
(* A text is the numbers in it with their widths in digits, what separates *)
(* them (":" or "-", or nothing where there is one number), and what       *)
(* follows the last: a unit, or the whole of a word that has no number.    *)
(***************************************************************************)
EXTENDS MarsRules, FiniteSets

Blank                      == ""
Part(n, width)             == [n |-> n, width |-> width]
Text(parts, sep, unit)     == [parts |-> parts, sep |-> sep, unit |-> unit]
Word(word)                 == Text(<<>>, Blank, word)
Plain(n, width)            == Text(<<Part(n, width)>>, Blank, Blank)

PowersOfTen  == {10, 100, 1000, 10000, 100000, 1000000, 10000000, 100000000}
DigitsOf(n)  == 1 + Cardinality({p \in PowersOfTen : p <= n})
----------------------------------------------------------------------------
(* Texts to numbers.                                                       *)

\* A sign is a separator with nothing before it.
ParsePlainLong(t) ==
    IF t.unit # Blank THEN Failed
    ELSE IF Len(t.parts) = 1 THEN If(t.parts[1].width > 0, t.parts[1].n)
    ELSE If(t.sep = "-" /\ Len(t.parts) = 2 /\ t.parts[1].width = 0 /\ t.parts[2].width > 0,
            -t.parts[2].n)

\* A number without a unit is one of hours.
ParseHours(t) ==
    IF t.unit \in {"m", "s"} THEN Failed
    ELSE ParsePlainLong(IF t.unit = "h" THEN Text(t.parts, t.sep, Blank) ELSE t)

LeapYear(year) == (year % 4 = 0 /\ year % 100 # 0) \/ year % 400 = 0
MonthLength(year, month) ==
    CASE month = 2 -> IF LeapYear(year) THEN 29 ELSE 28
      [] month \in {4, 6, 9, 11} -> 30
      [] month \in {1, 3, 5, 7, 8, 10, 12} -> 31
      [] OTHER -> 0

YYYYMMDDOk(n) ==
    LET year  == n \div 10000
        month == (n \div 100) % 100
        day   == n % 100
    IN  year > 0 /\ month \in 1 .. 12 /\ day >= 1 /\ day <= MonthLength(year, month)

YYYYMMDD(year, month, day) == year * 10000 + month * 100 + day
CheckedDate(n) == If(YYYYMMDDOk(n), n)

\* yyyymmdd and yyyy-mm-dd
MarsDateToLong(t) ==
    LET p == t.parts
    IN  IF t.unit # Blank THEN Failed
        ELSE IF Len(p) = 1
        THEN IF p[1].width = 8 THEN CheckedDate(p[1].n) ELSE Failed
        ELSE IF /\ t.sep = "-" /\ Len(p) = 3
                /\ p[1].width = 4 /\ p[2].width = 2 /\ p[3].width = 2
        THEN CheckedDate(YYYYMMDD(p[1].n, p[2].n, p[3].n)) ELSE Failed

\* hhmmss
HH(n) == n \div 10000
MM(n) == (n \div 100) % 100
SS(n) == n % 100
HHMM00(hh, mm) == hh * 10000 + mm * 100
MakeHHMMSS(hh, mm, ss) ==
    If(hh \in 0 .. 23 /\ mm \in 0 .. 59 /\ ss = 0, HHMM00(hh, mm))

\* hh:mm and hh:mm:ss, or with dashes
ParseSeparatedTime(t) ==
    IF ~(Len(t.parts) \in {2, 3} /\ \A i \in DOMAIN t.parts : t.parts[i].width > 0) THEN Failed
    ELSE MakeHHMMSS(t.parts[1].n, t.parts[2].n, IF Len(t.parts) = 3 THEN t.parts[3].n ELSE 0)

\* h, hmm or hmmss with one digit or two for the hour, by how many there are.
ParseCompactTime(n, width) ==
    IF width \in 1 .. 2 THEN MakeHHMMSS(n, 0, 0)
    ELSE IF width \in 3 .. 4 THEN MakeHHMMSS(n \div 100, n % 100, 0)
    ELSE IF width \in 5 .. 6
    THEN MakeHHMMSS(HH(n), MM(n), SS(n)) ELSE Failed

MarsTimeToLong(t) ==
    IF t.unit # Blank THEN Failed
    ELSE IF t.sep # Blank THEN ParseSeparatedTime(t)
    ELSE IF Len(t.parts) # 1 THEN Failed
    ELSE ParseCompactTime(t.parts[1].n, t.parts[1].width)
----------------------------------------------------------------------------
(* Numbers to texts.                                                       *)

PlainLongText(n) ==
    IF n >= 0 THEN Plain(n, DigitsOf(n))
    ELSE Text(<<Part(0, 0), Part(-n, DigitsOf(-n))>>, "-", Blank)

LongToHours(n) == Text(PlainLongText(n).parts, PlainLongText(n).sep, "h")

EightDigits(n) == 10000000 <= n /\ n <= 99999999
LongToMarsDate(n) ==
    IF ~EightDigits(n) THEN Failed
    ELSE If(YYYYMMDDOk(n), Plain(n, 8))

\* The time of a request has hours and minutes, and no seconds.
TimeOfDay(n) == 0 <= n /\ n <= 235959
LongToMarsTime(n) ==
    IF ~TimeOfDay(n) THEN Failed
    ELSE IF MakeHHMMSS(HH(n), MM(n), SS(n)) = Failed THEN Failed
    ELSE Found(Plain(n \div 100, 4))
----------------------------------------------------------------------------
(* The converters of the keys; a key without one is no number.             *)

PlainKeys == {"param", "levelist", "chem"}
HourKeys  == {"step", "timespan"}
DateKeys  == {"date", "hdate"}
TimeKeys  == {"time", "htime"}
LongKeys  == PlainKeys \cup HourKeys \cup DateKeys \cup TimeKeys
DoubleKeys == {"wavelength"}

ConvertToLong(k, t) ==
    IF k \in PlainKeys THEN ParsePlainLong(t)
    ELSE IF k \in HourKeys THEN ParseHours(t)
    ELSE IF k \in DateKeys THEN MarsDateToLong(t)
    ELSE IF k \in TimeKeys THEN MarsTimeToLong(t)
    ELSE Failed

ConvertFromLong(k, n) ==
    IF k \in PlainKeys THEN Found(PlainLongText(n))
    ELSE IF k \in HourKeys THEN Found(LongToHours(n))
    ELSE IF k \in DateKeys THEN LongToMarsDate(n)
    ELSE IF k \in TimeKeys THEN LongToMarsTime(n)
    ELSE Failed

\* The wavelengths of the rules are whole numbers.
ConvertToDouble(k, t)   == IF k \in DoubleKeys THEN ParsePlainLong(t) ELSE Failed
ConvertFromDouble(k, n) == IF k \in DoubleKeys THEN Found(PlainLongText(n)) ELSE Failed
----------------------------------------------------------------------------
(* The accesses.  Where get_or_throw throws, get_opt has nothing: an       *)
(* optional keyword that cannot be read counts as absent.                  *)

IsMissing(mars, k) == ~Has(mars, k) \/ mars[k] = <<>>
Scalar(mars, k)    == If(Has(mars, k) /\ Len(mars[k]) = 1, mars[k][1])

ReadText(mars, k)   == Scalar(mars, k)
ReadLong(mars, k)   == IF Scalar(mars, k) = Failed THEN Failed
                       ELSE ConvertToLong(k, Scalar(mars, k)[1])
ReadDouble(mars, k) == IF Scalar(mars, k) = Failed THEN Failed
                       ELSE ConvertToDouble(k, Scalar(mars, k)[1])

Assign(mars, k, t)  == [x \in {k} |-> <<t>>] ++ mars
SetMissing(mars, k) == [x \in DOMAIN mars \ {k} |-> mars[x]]

SetText(mars, k, t)   == Found(Assign(mars, k, t))
SetLong(mars, k, n)   == IF ConvertFromLong(k, n) = Failed THEN Failed
                         ELSE Found(Assign(mars, k, ConvertFromLong(k, n)[1]))
SetDouble(mars, k, x) == IF ConvertFromDouble(k, x) = Failed THEN Failed
                         ELSE Found(Assign(mars, k, ConvertFromDouble(k, x)[1]))

SetOrIgnore(mars, outcome) == IF outcome = Failed THEN mars ELSE outcome[1]
----------------------------------------------------------------------------
(* A request that grib2mars fills, and Mars2Mars::convert<MarsRequest>.    *)

\* The keywords that the rules set as strings; the others they set as numbers.
StringKeys ==
    {"class", "stream", "type", "expver", "domain", "levtype", "origin", "packing", "grid",
     "stattype", "activity", "dataset", "experiment", "resolution", "model"}

\* The text of what a rule sets: a string, a duration in hours as a number or
\* as a string, a wavelength, or another number.
Printed(k, v) ==
    IF k \in StringKeys THEN Found(Word(v))
    ELSE IF k \in HourKeys
    THEN IF v.u = "number" THEN ConvertFromLong(k, v.n)
         ELSE IF v.u = "h" THEN Found(LongToHours(v.n)) ELSE Found(Word(v.u))
    ELSE IF k \in DoubleKeys
    THEN IF v.type = "double" THEN ConvertFromDouble(k, v.value) ELSE ConvertFromLong(k, v.value)
    ELSE ConvertFromLong(k, v)

\* <<request>>, or Failed where one of the values cannot be set.
Fill(values) ==
    LET texts == [k \in DOMAIN values |-> Printed(k, values[k])]
    IN  If(Succeeds(texts), [k \in DOMAIN values |-> <<texts[k][1]>>])

\* What the rules of mars2mars read of a request, as far as it can be read.
RuleKeys == {"stream", "levtype", "param", "levelist"}
ReadByRules(mars) ==
    LET read == [k \in RuleKeys |->
                    IF k \in LongKeys THEN ReadLong(mars, k)
                    ELSE IF ReadText(mars, k) = Failed THEN Failed
                    ELSE Found(ReadText(mars, k)[1].unit)]
    IN  [k \in {x \in RuleKeys : read[x] # Failed} |-> read[k][1]]

(* mutant: what the request has stays, and only what is new is set *)
ConvertRequestKeeping(mars) ==
    LET in     == ReadByRules(mars)
        writes == Fill(Applied(Rules(in), NoKeys).mars)
    IN  IF ~({"stream", "param"} \subseteq DOMAIN in) THEN Failed
        ELSE IF writes = Failed THEN Failed ELSE Found(mars ++ writes[1])

\* A copy of the request, and over it what the rules set.
ConvertRequest(mars) ==
    LET in     == ReadByRules(mars)
        writes == Fill(Applied(Rules(in), NoKeys).mars)
    IN  IF ~({"stream", "param"} \subseteq DOMAIN in) THEN Failed
        ELSE IF writes = Failed THEN Failed ELSE Found(writes[1] ++ mars)
=============================================================================
