------------------------------ MODULE ProductTime ------------------------------
(***************************************************************************)
(* The times of a product, as mars2grib deduces them from a MARS request:  *)
(* backend/deductions/productTime.h (which keys are read and when they are *)
(* refused), detail/ProductTime.h (the immutable ProductTime and what its  *)
(* factory insists on), detail/StatType.h, typeOfStatisticalProcessing.h,  *)
(* and the statistics descriptor that is built from it.                    *)
(*                                                                         *)
(* Dates and times are the numbers of MARS (20240301, 120000).  A duration *)
(* is [n, u]: the digits and the unit letter of the string, or the unit    *)
(* "number" for a value that is not a string.  A stattype is its sequence  *)
(* of <<period, operation>> blocks.                                        *)
(* What throws is a predicate here: X is defined only where XOk holds.     *)
(***************************************************************************)
EXTENDS Dictionary
----------------------------------------------------------------------------
(* The calendar: eckit::Date and eckit::DateTime.  A day is counted from   *)
(* the first of January of year 0, a month from January of year 0.         *)

IsLeap(y) == y % 4 = 0 /\ (y % 100 # 0 \/ y % 400 = 0)

DaysInMonth(y, mo) ==
    IF mo = 2 THEN (IF IsLeap(y) THEN 29 ELSE 28)
              ELSE IF mo \in {4, 6, 9, 11} THEN 30 ELSE 31

DaysBefore == <<0, 31, 59, 90, 120, 151, 181, 212, 243, 273, 304, 334>>

FirstDay(mi) ==
    LET y  == mi \div 12
        mo == (mi % 12) + 1
    IN  365 * y + (y + 3) \div 4 - (y + 99) \div 100 + (y + 399) \div 400
        + DaysBefore[mo] + (IF mo > 2 /\ IsLeap(y) THEN 1 ELSE 0)

MonthOf(day) ==
    CHOOSE mi \in ((day * 12) \div 366 - 1) .. ((day * 12) \div 365 + 1) :
        FirstDay(mi) <= day /\ day < FirstDay(mi + 1)

SecondsPerDay == 86400

DateTime == [day : Nat, sec : 0 .. SecondsPerDay - 1]

Before(a, b) == a.day < b.day \/ (a.day = b.day /\ a.sec < b.sec)

(* The seconds from a to b, in days and seconds: see Hours below.          *)
Elapsed(a, b) == [day |-> b.day - a.day, sec |-> b.sec - a.sec]
WholeHours(e) == e.sec % 3600 = 0
Hours(e)      == e.day * 24 + e.sec \div 3600

AddSeconds(t, n) ==
    [day |-> t.day + (t.sec + n) \div SecondsPerDay,
     sec |-> (t.sec + n) % SecondsPerDay]
----------------------------------------------------------------------------
(* Conversions of the values of MARS keys.                                 *)

DateOk(d) ==
    LET mo == (d \div 100) % 100
    IN  /\ mo \in 1 .. 12
        /\ d % 100 \in 1 .. DaysInMonth(d \div 10000, mo)

ConvertDate(d) ==
    FirstDay(12 * (d \div 10000) + ((d \div 100) % 100) - 1) + (d % 100) - 1

TimeOk(t) == /\ t \div 10000 \in 0 .. 23
             /\ (t \div 100) % 100 \in 0 .. 59
             /\ t % 100 \in 0 .. 59

ConvertTime(t) == 3600 * (t \div 10000) + 60 * ((t \div 100) % 100) + (t % 100)

UnitSeconds == [number |-> 3600, h |-> 3600, m |-> 60, s |-> 1, d |-> 86400]

DurationOk(d) == d.u \in DOMAIN UnitSeconds
ToSeconds(d)  == d.n * UnitSeconds[d.u]

(* parse_StatType: one or two blocks, each period at most once, a month    *)
(* before the day it is made of.                                           *)
StatTypeOk(blocks) ==
    /\ Len(blocks) \in {1, 2}
    /\ \A i \in 1 .. Len(blocks) : /\ blocks[i][1] \in {"mo", "da"}
                                   /\ blocks[i][2] \in {"av", "mn", "mx", "sd"}
    /\ Len(blocks) = 2 => blocks[1][1] = "mo" /\ blocks[2][1] = "da"

Unit == [mo |-> "month", da |-> "day"]

DecodePeriod(block) == [unit |-> Unit[block[1]], count |-> 1]
----------------------------------------------------------------------------
(* resolve_ProductTime_or_throw: from the request to a ProductTimeInput.   *)

Nothing == [day |-> -1, sec |-> 0]      \* an optional DateTime without a value

LabelOk(m) ==
    \/ /\ Has(m, "date") /\ Has(m, "time")
       /\ DateOk(m.date) /\ TimeOk(m.time)
    \/ /\ ~Has(m, "date") /\ ~Has(m, "time")
       /\ Has(m, "fcyear") /\ Has(m, "fcmonth")

FirstOfForecastMonth(m) ==
    [day |-> FirstDay(12 * m.fcyear + m.fcmonth - 1), sec |-> 0]

Label(m) == IF Has(m, "date")
            THEN [day |-> ConvertDate(m.date), sec |-> ConvertTime(m.time)]
            ELSE FirstOfForecastMonth(m)

InitialConditionsOk(m) ==
    /\ Has(m, "htime") => Has(m, "hdate") /\ TimeOk(m.htime)
    /\ Has(m, "hdate") => DateOk(m.hdate)

InitialConditions(m) ==
    IF ~Has(m, "hdate") THEN Nothing
    ELSE [day |-> ConvertDate(m.hdate),
          sec |-> IF Has(m, "htime") THEN ConvertTime(m.htime) ELSE 0]

ReferenceOk(m) ==
    /\ Has(m, "fcyear") <=> Has(m, "fcmonth")
    /\ Has(m, "fcmonth") => m.fcmonth \in 1 .. 12

Reference(m) == IF Has(m, "fcyear") THEN FirstOfForecastMonth(m) ELSE Nothing

StepInSeconds(m) == IF Has(m, "step") THEN ToSeconds(m.step) ELSE 0

TimespanKind(m) == IF ~Has(m, "timespan")    THEN "Missing"
                   ELSE IF m.timespan.u = "none" THEN "None" ELSE "Duration"

Timespan(m) == IF TimespanKind(m) = "Duration"
               THEN [unit |-> "second", count |-> ToSeconds(m.timespan)]
               ELSE [unit |-> "second", count |-> 0]

StattypeWindows(m) ==
    IF Has(m, "stattype")
    THEN [i \in 1 .. Len(m.stattype) |-> DecodePeriod(m.stattype[i])]
    ELSE <<>>

RequiresFakeDoubleLoop(class, stream) ==
    \/ class = "e6" /\ stream \in {"sttd", "stte"}
    \/ class \in {"od", "rd", "c3"} /\ stream \in {"sfmd", "shmd"}
    \/ class \in {"gh", "eh"} /\ stream \in {"msmm", "rfsd"}

(* The representation of a single loop is the one its class and stream are *)
(* archived with, standard or fakeDoubleLoop, and no other.                *)
LoopPolicyOk(m) ==
    LET nStat == Len(StattypeWindows(m))
        standard == TimespanKind(m) = "Duration" /\ nStat = 0
        fake     == TimespanKind(m) = "None" /\ nStat = 1
    IN  standard \/ fake =>
            /\ Has(m, "class") /\ Has(m, "stream")
            /\ fake <=> RequiresFakeDoubleLoop(m.class, m.stream)

(* timeIncrementInSeconds_opt: 0 in the auxiliary dictionary is no value,  *)
(* and 0 is what stands for no value here.                                 *)
TimeIncrement(misc) ==
    IF Has(misc, "timeIncrementInSeconds") THEN misc.timeIncrementInSeconds ELSE 0

IncrementOk(misc) == TimeIncrement(misc) >= 0

(* The increment is only read for a product with a window.                 *)
ReadsIncrement(m) == \/ TimespanKind(m) = "Duration"
                     \/ TimespanKind(m) = "None" /\ Len(StattypeWindows(m)) = 1

Increment(m, misc) == IF ReadsIncrement(m) THEN TimeIncrement(misc) ELSE 0

InputOk(m, misc) ==
    /\ LabelOk(m) /\ InitialConditionsOk(m) /\ ReferenceOk(m)
    /\ Has(m, "step") => DurationOk(m.step)
    /\ TimespanKind(m) = "Duration" => DurationOk(m.timespan)
    /\ Has(m, "stattype") => StatTypeOk(m.stattype)
    /\ LoopPolicyOk(m)
    /\ ReadsIncrement(m) => IncrementOk(misc)

ProductTimeInput(m, misc) ==
    [label     |-> Label(m),
     initial   |-> InitialConditions(m),
     reference |-> Reference(m),
     step      |-> StepInSeconds(m),
     kind      |-> TimespanKind(m),
     timespan  |-> Timespan(m),
     stattype  |-> StattypeWindows(m),
     increment |-> Increment(m, misc)]
----------------------------------------------------------------------------
(* make_ProductTime_or_throw: the windows, outermost first, and the checks *)

MaxStatisticalWindows == 3

ValueOr(t, default) == IF t = Nothing THEN default ELSE t

InitialConditionsOf(in) == ValueOr(in.initial, in.label)
ReferenceOf(in)         == ValueOr(in.reference, InitialConditionsOf(in))
WindowEnd(in)           == AddSeconds(ReferenceOf(in), in.step)

WindowsOk(in) ==
    \/ in.kind = "Missing" /\ Len(in.stattype) = 0
    \/ in.kind = "Duration" /\ Len(in.stattype) + 1 <= MaxStatisticalWindows
    \/ in.kind = "None" /\ Len(in.stattype) = 1

Windows(in) == IF in.kind = "Duration" THEN Append(in.stattype, in.timespan)
                                       ELSE in.stattype

AtMidnight(t)          == t.sec = 0
FirstOfMonthMidnight(t) == AtMidnight(t) /\ t.day = FirstDay(MonthOf(t.day))

AlignmentOk(w, end) ==
    /\ w.unit = "day"   => AtMidnight(end)
    /\ w.unit = "month" => FirstOfMonthMidnight(end)

SubtractSeconds(t, n) == AddSeconds(t, -n)
SubtractDays(t, n)    == [day |-> t.day - n, sec |-> 0]
SubtractMonths(t, n)  == [day |-> FirstDay(MonthOf(t.day) - n), sec |-> 0]

SubtractWindow(t, w) ==
    CASE w.unit = "second" -> SubtractSeconds(t, w.count)
      [] w.unit = "day"    -> SubtractDays(t, w.count)
      [] w.unit = "month"  -> SubtractMonths(t, w.count)

WindowStart(in) == IF Windows(in) = <<>> THEN WindowEnd(in)
                   ELSE SubtractWindow(WindowEnd(in), Windows(in)[1])

MakeOk(in) ==
    /\ ~Before(ReferenceOf(in), InitialConditionsOf(in))
    /\ WindowsOk(in)
    /\ \A i \in DOMAIN Windows(in) :
          /\ Windows(in)[i].count > 0
          /\ Windows(in)[i].unit \in {"second", "day", "month"}
    /\ Windows(in) # <<>> => AlignmentOk(Windows(in)[1], WindowEnd(in))
    /\ ~Before(WindowEnd(in), WindowStart(in))
    /\ in.increment >= 0
    /\ Len(Windows(in)) >= 2 => in.increment # 0
    /\ (WindowStart(in) = WindowEnd(in)) <=> (Windows(in) = <<>>)
    /\ (Windows(in) = <<>>) <=> (in.increment = 0)

Make(in) ==
    [label       |-> in.label,
     initial     |-> InitialConditionsOf(in),
     reference   |-> ReferenceOf(in),
     windowStart |-> WindowStart(in),
     windowEnd   |-> WindowEnd(in),
     windows     |-> Windows(in),
     increment   |-> in.increment]

ProductTimeOk(m, misc) ==
    InputOk(m, misc) /\ MakeOk(ProductTimeInput(m, misc))

ProductTime(m, misc) == Make(ProductTimeInput(m, misc))
----------------------------------------------------------------------------
(* compute_StatisticalProcessing: the loops of the product, in hours.      *)

(* previousMonthLengthHours of the month that contains t: every fourth     *)
(* year has a 29th of February here.                                       *)
PreviousMonthLengthHours(t) ==
    LET y  == MonthOf(t.day) \div 12
        mo == (MonthOf(t.day) % 12) + 1
    IN  24 * (CASE mo \in {1, 2, 4, 6, 8, 9, 11} -> 31
                [] mo \in {5, 7, 10, 12} -> 30
                [] mo = 3 -> IF y % 4 = 0 THEN 29 ELSE 28)

WindowLengthOk(w) == w.unit = "second" => w.count % 3600 = 0

WindowLengthInHours(w, end) ==
    CASE w.unit = "second" -> w.count \div 3600
      [] w.unit = "day"    -> w.count * 24
      [] w.unit = "month"  -> w.count * PreviousMonthLengthHours(end)

(* The operation of each loop: those of stattype, then the one of the      *)
(* parameter; with timespan=none the two must be the same operation.       *)
TypesOk(m, inner) ==
    /\ Has(m, "stattype") => StatTypeOk(m.stattype)
    /\ Has(m, "stattype") /\ TimespanKind(m) = "None" => m.stattype[1][2] = inner

TypesOfProcessing(m, inner) ==
    IF Has(m, "stattype") /\ TimespanKind(m) = "Duration"
    THEN Append([i \in 1 .. Len(m.stattype) |-> m.stattype[i][2]], inner)
    ELSE <<inner>>

DescriptorOk(pt, types) ==
    /\ Len(types) = Len(pt.windows)
    /\ \A i \in DOMAIN pt.windows : WindowLengthOk(pt.windows[i])

MissingIncrement == -1

Descriptor(pt, types) ==
    LET n      == Len(pt.windows)
        len(i) == WindowLengthInHours(pt.windows[i], pt.windowEnd)
        hack   == n = 1 /\ pt.increment = 0
    IN  [types      |-> types,
         lengths    |-> [i \in 1 .. n |-> len(i)],
         increments |-> [i \in 1 .. n |->
                           IF i < n THEN len(i + 1) * 3600
                           ELSE IF hack THEN MissingIncrement ELSE pt.increment]]
=============================================================================
