---------------------------- MODULE GribTimesProofs ----------------------------
(***************************************************************************)
(* The times of a message, for any request: what a reader adds up from its *)
(* reference date, forecast time and length of interval is the start of    *)
(* the forecast plus the step.  First the arithmetic, for every date, step *)
(* and window of seconds or days; then that it is the arithmetic of whole  *)
(* messages: of all the concepts that encode() runs, row by row, one       *)
(* writes each of the keys of the times.                                   *)
(***************************************************************************)
EXTENDS GribMessage, SequenceTheorems, TLAPS
----------------------------------------------------------------------------
(* AfterRows is defined by recursion over five rows: such a function       *)
(* exists, as it can be written out.                                       *)
LEMMA RowByRow ==
    ASSUME NEW layout, NEW r
    PROVE  /\ AfterRows(layout, r)[0] = AfterRow(layout, 0, r, Found(EmptyMessage))
           /\ \A row \in 1 .. Runtime + 1 :
                 AfterRows(layout, r)[row] = AfterRow(layout, row, r, AfterRows(layout, r)[row - 1])
<1> DEFINE SampleSoFar(f, row) == IF row = 0 THEN Found(EmptyMessage) ELSE f[row - 1]
           F(f) == [row \in Rows |-> AfterRow(layout, row, r, SampleSoFar(f, row))]
           v0 == AfterRow(layout, 0, r, Found(EmptyMessage))
           v1 == AfterRow(layout, 1, r, v0)
           v2 == AfterRow(layout, 2, r, v1)
           v3 == AfterRow(layout, 3, r, v2)
           v4 == AfterRow(layout, 4, r, v3)
           V  == [row \in Rows |-> IF row = 0 THEN v0 ELSE IF row = 1 THEN v1
                                   ELSE IF row = 2 THEN v2 ELSE IF row = 3 THEN v3 ELSE v4]
<1>0. Rows = 0 .. 4 /\ Runtime + 1 = 4
  BY DEF Rows, Runtime
<1>1. V = F(V)
  <2> SUFFICES ASSUME NEW row \in Rows
               PROVE  V[row] = AfterRow(layout, row, r, SampleSoFar(V, row))
    OBVIOUS
  <2>1. CASE row = 0
    BY <2>1
  <2>2. CASE row = 1
    BY <2>2, <1>0
  <2>3. CASE row = 2
    BY <2>3, <1>0
  <2>4. CASE row = 3
    BY <2>4, <1>0
  <2>5. CASE row = 4
    BY <2>5, <1>0
  <2> QED
    BY <1>0, <2>1, <2>2, <2>3, <2>4, <2>5
<1>2. AfterRows(layout, r) = CHOOSE f : f = F(f)
  BY DEF AfterRows
<1>3. AfterRows(layout, r) = F(AfterRows(layout, r))
  <2> HIDE DEF F, V
  <2> QED
    BY <1>1, <1>2
<1>4. ASSUME NEW row \in Rows
      PROVE  AfterRows(layout, r)[row] = AfterRow(layout, row, r, SampleSoFar(AfterRows(layout, r), row))
  BY <1>3
<1>5. AfterRows(layout, r)[0] = AfterRow(layout, 0, r, Found(EmptyMessage))
  BY <1>0, <1>4
<1>6. ASSUME NEW row \in 1 .. Runtime + 1
      PROVE  AfterRows(layout, r)[row] = AfterRow(layout, row, r, AfterRows(layout, r)[row - 1])
  BY <1>0, <1>4, row \in Rows, row # 0
<1> QED
  BY <1>5, <1>6

LEMMA NoMessageWithoutLayout ==
    ASSUME NEW r, NEW row \in Rows
    PROVE  AfterRows(<<>>, r)[row] = Failed
<1>1. AfterRow(<<>>, row, r, AfterRows(<<>>, r)[row - 1]) = Failed
  BY DEF AfterRow
<1>2. AfterRow(<<>>, 0, r, Found(EmptyMessage)) = Failed
  BY DEF AfterRow
<1>3. row = 0 \/ row \in 1 .. Runtime + 1
  BY DEF Rows, Runtime
<1> QED
  BY <1>1, <1>2, <1>3, RowByRow

(* A failed row fails all rows behind it.                                  *)
LEMMA FailedStays ==
    ASSUME NEW layout, NEW r, NEW row \in 0 .. Runtime, AfterRows(layout, r)[row] = Failed
    PROVE  AfterRows(layout, r)[Runtime + 1] = Failed
<1>1. ASSUME NEW i \in 1 .. Runtime + 1, AfterRows(layout, r)[i - 1] = Failed
      PROVE  AfterRows(layout, r)[i] = Failed
  <2>1. AfterRows(layout, r)[i] = AfterRow(layout, i, r, Failed)
    BY <1>1, RowByRow
  <2> QED
    BY <2>1 DEF AfterRow
<1> DEFINE fails(i) == AfterRows(layout, r)[i] = Failed
<1>2. fails(0) => fails(1)
  BY <1>1 DEF Runtime
<1>3. fails(1) => fails(2)
  BY <1>1 DEF Runtime
<1>4. fails(2) => fails(3)
  BY <1>1 DEF Runtime
<1>5. fails(3) => fails(4)
  BY <1>1 DEF Runtime
<1> QED
  BY <1>2, <1>3, <1>4, <1>5 DEF Runtime

LEMMA RowResult ==
    ASSUME NEW layout, NEW row, NEW r, NEW before, AfterRow(layout, row, r, before) # Failed
    PROVE  AfterRow(layout, row, r, before) = Found(AfterRow(layout, row, r, before)[1])
BY DEF AfterRow, If, Failed, Found
----------------------------------------------------------------------------

Instants == {t \in [day : Int, sec : Int] : 0 <= t.sec /\ t.sec < SecondsPerDay}

\* The seconds of a time since the first day.
Total(t) == SecondsPerDay * t.day + t.sec
----------------------------------------------------------------------------
LEMMA Parts ==
    ASSUME NEW t \in Instants
    PROVE  /\ t = [day |-> t.day, sec |-> t.sec]
           /\ t.day \in Int /\ t.sec \in Int /\ 0 <= t.sec /\ t.sec < SecondsPerDay
BY DEF Instants

LEMMA IsInstant ==
    ASSUME NEW d \in Int, NEW s \in Int, 0 <= s, s < SecondsPerDay
    PROVE  [day |-> d, sec |-> s] \in Instants
BY DEF Instants

LEMMA Division ==
    ASSUME NEW k \in Int
    PROVE  /\ k \div SecondsPerDay \in Int /\ k % SecondsPerDay \in Int
           /\ 0 <= k % SecondsPerDay /\ k % SecondsPerDay < SecondsPerDay
           /\ k = SecondsPerDay * (k \div SecondsPerDay) + (k % SecondsPerDay)
BY DEF SecondsPerDay

LEMMA AddSecondsAdds ==
    ASSUME NEW t \in Instants, NEW n \in Int
    PROVE  AddSeconds(t, n) \in Instants /\ Total(AddSeconds(t, n)) = Total(t) + n
<1> DEFINE k == t.sec + n
           q == k \div SecondsPerDay
           p == k % SecondsPerDay
<1>1. t.day \in Int /\ t.sec \in Int /\ k \in Int
  BY Parts
<1>2. /\ q \in Int /\ p \in Int /\ 0 <= p /\ p < SecondsPerDay
      /\ k = SecondsPerDay * q + p
  BY <1>1, Division
<1>3. AddSeconds(t, n) = [day |-> t.day + q, sec |-> p]
  BY DEF AddSeconds
<1>4. [day |-> t.day + q, sec |-> p] \in Instants
  <2> HIDE DEF q, p, k
  <2> QED
    BY <1>1, <1>2, IsInstant
<1>5. SecondsPerDay * (t.day + q) + p = SecondsPerDay * t.day + t.sec + n
  <2> HIDE DEF q, p
  <2> QED
    BY <1>1, <1>2 DEF SecondsPerDay
<1> QED
  <2> HIDE DEF q, p, k
  <2> QED
    BY <1>3, <1>4, <1>5 DEF Total

LEMMA LaterDay ==
    ASSUME NEW a \in Instants, NEW b \in Instants, a.day < b.day
    PROVE  Total(a) < Total(b)
<1>1. a.day \in Int /\ b.day \in Int /\ a.sec \in Int /\ b.sec \in Int
      /\ 0 <= a.sec /\ a.sec < SecondsPerDay /\ 0 <= b.sec /\ b.sec < SecondsPerDay
  BY Parts
<1>2. PICK n \in Nat : b.day = a.day + 1 + n
  <2>1. b.day - a.day - 1 \in Nat /\ b.day = a.day + 1 + (b.day - a.day - 1)
    BY <1>1
  <2> QED
    BY <2>1
<1>3. 86400 * b.day = 86400 * a.day + 86400 + 86400 * n
  BY <1>1, <1>2
<1>4. 86400 * a.day + a.sec < 86400 * b.day + b.sec
  BY <1>1, <1>2, <1>3 DEF SecondsPerDay
<1> QED
  BY <1>4 DEF Total, SecondsPerDay

LEMMA TotalIsInjective ==
    ASSUME NEW a \in Instants, NEW b \in Instants, Total(a) = Total(b)
    PROVE  a = b
<1>1. a.day \in Int /\ b.day \in Int /\ a.sec \in Int /\ b.sec \in Int
  BY Parts
<1>2. Total(a) \in Int
  BY <1>1 DEF Total, SecondsPerDay
<1>3. ~(a.day < b.day) /\ ~(b.day < a.day)
  BY <1>2, LaterDay
<1>4. a.day = b.day
  BY <1>1, <1>3
<1>5. a.sec = b.sec
  BY <1>1, <1>4 DEF Total, SecondsPerDay
<1> QED
  BY <1>4, <1>5, Parts

(* Hours counts whole hours exactly, over the bounds of days too.          *)
LEMMA HoursAreExact ==
    ASSUME NEW a \in Instants, NEW b \in Instants, WholeHours(Elapsed(a, b))
    PROVE  /\ Hours(Elapsed(a, b)) \in Int
           /\ 3600 * Hours(Elapsed(a, b)) = Total(b) - Total(a)
<1> DEFINE k == b.sec - a.sec
           q == k \div 3600
<1>1. a.day \in Int /\ b.day \in Int /\ a.sec \in Int /\ b.sec \in Int /\ k \in Int
  BY Parts
<1>2. k % 3600 = 0
  BY DEF WholeHours, Elapsed
<1>3. q \in Int /\ k = 3600 * q
  BY <1>1, <1>2
<1>4. Hours(Elapsed(a, b)) = (b.day - a.day) * 24 + q
  BY DEF Hours, Elapsed
<1>5. b.sec = a.sec + 3600 * q
  BY <1>1, <1>3
<1>6. 3600 * ((b.day - a.day) * 24 + q) = (86400 * b.day + b.sec) - (86400 * a.day + a.sec)
  <2> HIDE DEF q, k
  <2> QED
    BY <1>1, <1>3, <1>5
<1> QED
  <2> HIDE DEF q, k
  <2> QED
    BY <1>1, <1>3, <1>4, <1>6 DEF Total, SecondsPerDay
----------------------------------------------------------------------------
(* The values of a request, and the times made of them.                    *)

TypedRequest(m) ==
    /\ \A k \in {"date", "time", "hdate", "htime", "fcyear", "fcmonth"} : Has(m, k) => m[k] \in Nat
    /\ \A k \in {"step", "timespan"} : Has(m, k) => m[k].n \in Int

LEMMA DaysBeforeType == \A mo \in 1 .. 12 : DaysBefore[mo] \in Nat
BY DEF DaysBefore

LEMMA FirstDayType ==
    ASSUME NEW mi \in Nat
    PROVE  FirstDay(mi) \in Nat
<1> DEFINE y  == mi \div 12
           mo == (mi % 12) + 1
           leap == IF mo > 2 /\ IsLeap(y) THEN 1 ELSE 0
<1>1. y \in Nat /\ mo \in 1 .. 12 /\ leap \in Nat
  OBVIOUS
<1>2. DaysBefore[mo] \in Nat
  BY <1>1, DaysBeforeType
<1>3. FirstDay(mi) = 365 * y + (y + 3) \div 4 - (y + 99) \div 100 + (y + 399) \div 400
                       + DaysBefore[mo] + leap
  BY DEF FirstDay
<1>4. 365 * y + (y + 3) \div 4 - (y + 99) \div 100 + (y + 399) \div 400 \in Nat
  <2> HIDE DEF y
  <2> QED
    BY <1>1
<1> QED
  <2> HIDE DEF y, mo, leap
  <2> QED
    BY <1>1, <1>2, <1>3, <1>4

LEMMA DateType ==
    ASSUME NEW d \in Nat, DateOk(d)
    PROVE  ConvertDate(d) \in Nat
<1>1. (d \div 100) % 100 \in 1 .. 12 /\ d % 100 \in Nat /\ 1 <= d % 100
  BY DEF DateOk
<1>2. 12 * (d \div 10000) + ((d \div 100) % 100) - 1 \in Nat
  BY <1>1
<1> DEFINE first == FirstDay(12 * (d \div 10000) + ((d \div 100) % 100) - 1)
<1>3. first \in Nat
  BY <1>2, FirstDayType
<1>4. ConvertDate(d) = first + (d % 100) - 1
  BY DEF ConvertDate
<1> QED
  <2> HIDE DEF first
  <2> QED
    BY <1>1, <1>3, <1>4

LEMMA TimeOfDayType ==
    ASSUME NEW t \in Int, TimeOk(t)
    PROVE  ConvertTime(t) \in Int /\ 0 <= ConvertTime(t) /\ ConvertTime(t) < 86400
BY DEF TimeOk, ConvertTime

(* An optional time is told from none by its day.                          *)
LEMMA ForecastMonth ==
    ASSUME NEW m, TypedRequest(m), NEW misc, InputOk(m, misc), Has(m, "fcyear")
    PROVE  FirstOfForecastMonth(m) \in Instants /\ FirstOfForecastMonth(m) # Nothing
<1>1. Has(m, "fcmonth") /\ m.fcmonth \in 1 .. 12 /\ m.fcyear \in Nat
  BY DEF InputOk, ReferenceOk, TypedRequest
<1>2. 12 * m.fcyear + m.fcmonth - 1 \in Nat
  BY <1>1
<1>3. FirstDay(12 * m.fcyear + m.fcmonth - 1) \in Nat
  BY <1>2, FirstDayType
<1>4. 0 < SecondsPerDay
  BY DEF SecondsPerDay
<1> QED
  BY <1>3, <1>4, IsInstant DEF FirstOfForecastMonth, Nothing

LEMMA Hindcast ==
    ASSUME NEW m, TypedRequest(m), NEW misc, InputOk(m, misc), Has(m, "hdate")
    PROVE  InitialConditions(m) \in Instants /\ InitialConditions(m) # Nothing
<1> DEFINE s == IF Has(m, "htime") THEN ConvertTime(m.htime) ELSE 0
<1>1. s \in Int /\ 0 <= s /\ s < 86400
  BY TimeOfDayType DEF TypedRequest, InputOk, InitialConditionsOk
<1>2. s < SecondsPerDay
  BY <1>1 DEF SecondsPerDay
<1>3. ConvertDate(m.hdate) \in Nat
  BY DateType DEF TypedRequest, InputOk, InitialConditionsOk
<1>4. InitialConditions(m) = [day |-> ConvertDate(m.hdate), sec |-> s]
  BY DEF InitialConditions
<1> QED
  BY <1>1, <1>2, <1>3, <1>4, IsInstant DEF Nothing

LEMMA Labelled ==
    ASSUME NEW m, TypedRequest(m), NEW misc, InputOk(m, misc), ~Has(m, "fcyear")
    PROVE  Label(m) \in Instants
<1>1. Has(m, "date") /\ Has(m, "time") /\ TimeOk(m.time) /\ DateOk(m.date)
  BY DEF InputOk, LabelOk
<1>2. m.date \in Nat /\ m.time \in Nat
  BY <1>1 DEF TypedRequest
<1>3. ConvertDate(m.date) \in Nat
  BY <1>1, <1>2, DateType
<1>4. ConvertTime(m.time) \in Int /\ 0 <= ConvertTime(m.time) /\ ConvertTime(m.time) < SecondsPerDay
  BY <1>1, <1>2, TimeOfDayType DEF SecondsPerDay
<1> QED
  BY <1>1, <1>3, <1>4, IsInstant DEF Label

LEMMA EndIsRequested ==
    ASSUME NEW m, TypedRequest(m), NEW misc, InputOk(m, misc)
    PROVE  /\ StartOfForecast(m) \in Instants
           /\ ReferenceOf(ProductTimeInput(m, misc)) = StartOfForecast(m)
           /\ WindowEnd(ProductTimeInput(m, misc)) = RequestedTime(m)
<1> DEFINE in == ProductTimeInput(m, misc)
<1>1. /\ in.label = Label(m) /\ in.initial = InitialConditions(m)
      /\ in.reference = Reference(m) /\ in.step = StepInSeconds(m)
  BY DEF ProductTimeInput
<1>2. StartOfForecast(m) \in Instants /\ ReferenceOf(in) = StartOfForecast(m)
  <2> HIDE DEF in
  <2>1. CASE Has(m, "fcyear")
    <3>1. StartOfForecast(m) = FirstOfForecastMonth(m)
      BY <2>1 DEF StartOfForecast
    <3> QED
      BY <1>1, <2>1, <3>1, ForecastMonth DEF ReferenceOf, ValueOr, Reference
  <2>2. CASE ~Has(m, "fcyear") /\ Has(m, "hdate")
    <3>1. StartOfForecast(m) = InitialConditions(m)
      BY <2>2 DEF StartOfForecast
    <3> QED
      BY <1>1, <2>2, <3>1, Hindcast DEF ReferenceOf, ValueOr, Reference, InitialConditionsOf
  <2>3. CASE ~Has(m, "fcyear") /\ ~Has(m, "hdate")
    <3>1. StartOfForecast(m) = Label(m)
      BY <2>3 DEF StartOfForecast
    <3>2. InitialConditions(m) = Nothing
      BY <2>3 DEF InitialConditions
    <3> QED
      BY <1>1, <2>3, <3>1, <3>2, Labelled DEF ReferenceOf, ValueOr, Reference, InitialConditionsOf
  <2> QED
    BY <2>1, <2>2, <2>3
<1> QED
  BY <1>1, <1>2 DEF WindowEnd, RequestedTime

LEMMA StepType ==
    ASSUME NEW m, TypedRequest(m), NEW misc, InputOk(m, misc)
    PROVE  StepInSeconds(m) \in Int /\ Timespan(m).count \in Int
<1>1. \A u \in DOMAIN UnitSeconds : UnitSeconds[u] \in Int
  BY DEF UnitSeconds
<1>2. ASSUME NEW n \in Int, NEW u \in DOMAIN UnitSeconds PROVE n * UnitSeconds[u] \in Int
  BY <1>1
<1>3. StepInSeconds(m) \in Int
  BY <1>2 DEF StepInSeconds, InputOk, DurationOk, ToSeconds, TypedRequest
<1>4. CASE TimespanKind(m) = "Duration"
  <2>1. Has(m, "timespan") /\ DurationOk(m.timespan)
    BY <1>4 DEF TimespanKind, InputOk
  <2>2. ToSeconds(m.timespan) \in Int
    BY <1>2, <2>1 DEF DurationOk, ToSeconds, TypedRequest
  <2> QED
    BY <1>3, <1>4, <2>2 DEF Timespan
<1>5. CASE TimespanKind(m) # "Duration"
  BY <1>3, <1>5 DEF Timespan
<1> QED
  BY <1>4, <1>5

TypedWindows == [unit : {"second", "day", "month"}, count : Int]

(* Blocks of a stattype are days or months, and one of each at most.       *)
LEMMA StattypeType ==
    ASSUME NEW m, NEW misc, InputOk(m, misc)
    PROVE  StattypeWindows(m) \in Seq(TypedWindows)
<1>1. CASE Has(m, "stattype")
  <2> DEFINE n == Len(m.stattype)
             f == [i \in 1 .. n |-> DecodePeriod(m.stattype[i])]
  <2>1. n \in {1, 2} /\ \A i \in 1 .. n : m.stattype[i][1] \in {"mo", "da"}
    BY <1>1 DEF InputOk, StatTypeOk
  <2>2. \A i \in 1 .. n : DecodePeriod(m.stattype[i]) \in TypedWindows
    BY <2>1 DEF DecodePeriod, Unit, TypedWindows
  <2>3. n \in Nat /\ \A i \in 1 .. n : f[i] \in TypedWindows
    BY <2>1, <2>2
  <2>4. f \in Seq(TypedWindows)
    <3> HIDE DEF n
    <3> QED
      BY <2>3, IsASeq
  <2> QED
    BY <1>1, <2>4 DEF StattypeWindows
<1>2. CASE ~Has(m, "stattype")
  <2>1. StattypeWindows(m) = << >>
    BY <1>2 DEF StattypeWindows
  <2> QED
    BY <2>1
<1> QED
  BY <1>1, <1>2

LEMMA WindowTypes ==
    ASSUME NEW m, TypedRequest(m), NEW misc, InputOk(m, misc)
    PROVE  Windows(ProductTimeInput(m, misc)) \in Seq(TypedWindows)
<1> DEFINE in == ProductTimeInput(m, misc)
<1>1. in.stattype = StattypeWindows(m) /\ in.timespan = Timespan(m)
  BY DEF ProductTimeInput
<1>2. Timespan(m) \in TypedWindows
  <2>1. Timespan(m) = [unit |-> "second", count |-> Timespan(m).count]
    BY DEF Timespan
  <2>2. Timespan(m).count \in Int
    BY StepType
  <2> QED
    BY <2>1, <2>2 DEF TypedWindows
<1>3. StattypeWindows(m) \in Seq(TypedWindows)
  BY StattypeType
<1>4. Append(StattypeWindows(m), Timespan(m)) \in Seq(TypedWindows)
  BY <1>2, <1>3
<1> QED
  BY <1>1, <1>3, <1>4 DEF Windows
----------------------------------------------------------------------------
(* The length of a window of seconds or days is what lies between its ends.*)
LEMMA LengthIsExact ==
    ASSUME NEW end \in Instants, NEW w \in TypedWindows, w.unit # "month",
           AlignmentOk(w, end), WindowLengthOk(w)
    PROVE  /\ SubtractWindow(end, w) \in Instants
           /\ WindowLengthInHours(w, end) \in Int
           /\ 3600 * WindowLengthInHours(w, end) = Total(end) - Total(SubtractWindow(end, w))
<1> DEFINE n == w.count
           start == SubtractWindow(end, w)
           length == WindowLengthInHours(w, end)
<1>1. n \in Int /\ w.unit \in {"second", "day"}
  BY DEF TypedWindows
<1>2. end.day \in Int /\ end.sec \in Int
  BY Parts
<1>3. Total(end) \in Int
  BY <1>2 DEF Total, SecondsPerDay
<1>4. CASE w.unit = "second"
  <2>1. start = AddSeconds(end, -n) /\ length = n \div 3600 /\ n % 3600 = 0
    BY <1>4 DEF SubtractWindow, SubtractSeconds, WindowLengthInHours, WindowLengthOk
  <2>2. start \in Instants /\ Total(start) = Total(end) + (-n)
    <3>1. -n \in Int
      BY <1>1
    <3> QED
      BY <2>1, <3>1, AddSecondsAdds
  <2>3. length \in Int /\ 3600 * length = n
    <3> HIDE DEF n, length
    <3> QED
      BY <1>1, <2>1
  <2> HIDE DEF n, length, start
  <2>4. 3600 * length = Total(end) - Total(start)
    BY <1>1, <1>3, <2>2, <2>3
  <2> QED
    BY <2>2, <2>3, <2>4 DEF length, start
<1>5. CASE w.unit = "day"
  <2>1. start = [day |-> end.day - n, sec |-> 0] /\ length = n * 24 /\ end.sec = 0
    BY <1>5 DEF SubtractWindow, SubtractDays, WindowLengthInHours, AlignmentOk, AtMidnight
  <2> HIDE DEF n, length, start
  <2>2. start \in Instants
    BY <1>1, <1>2, <2>1, IsInstant DEF SecondsPerDay
  <2>3. length \in Int /\ 3600 * length = 86400 * n
    BY <1>1, <2>1
  <2>4. Total(start) = 86400 * (end.day - n) /\ Total(end) = 86400 * end.day
    BY <1>1, <1>2, <2>1 DEF Total, SecondsPerDay
  <2>5. 3600 * length = Total(end) - Total(start)
    BY <1>1, <1>2, <2>3, <2>4
  <2> QED
    BY <2>2, <2>3, <2>5 DEF length, start
<1> QED
  BY <1>1, <1>4, <1>5

(* What the three concepts of time write, and only when nothing is refused.*)

DatedBy(out, c) ==
    \/ /\ ~Has(out, "modelVersionDate")
       /\ ReferenceTimeOp(Runtime, 1, "Standard", c) =
              [significanceOfReferenceTime |-> Found(out.significanceOfReferenceTime),
               referenceDate |-> Found(out.referenceDate)]
    \/ /\ Has(out, "modelVersionDate")
       /\ ReferenceTimeOp(Runtime, 4, "Reforecast", c) =
              [modelVersionDate |-> Found(out.modelVersionDate)]

AtInstant(out, c) ==
    /\ ~Has(out, "lengthOfTimeRange")
    /\ PointInTimeOp(Runtime, c) = [forecastTime |-> Found(out.forecastTime)]

OverInterval(out, v, c) ==
    /\ Has(out, "lengthOfTimeRange")
    /\ StatisticsOp(Preset, v, c) =
           [typeOfStatisticalProcessing |-> Found(out.typeOfStatisticalProcessing),
            lengthOfTimeRange |-> Found(out.lengthOfTimeRange),
            timeIncrement |-> Found(out.timeIncrement)]
    /\ StatisticsOp(Runtime, v, c) =
           [forecastTime |-> Found(out.forecastTime),
            endOfOverallTimeInterval |-> Found(out.endOfOverallTimeInterval)]

NoMonths(m) == Has(m, "stattype") => m.stattype[1][1] # "mo"

(* Hours and the seconds of a whole number of them.                        *)
LEMMA HoursAfter ==
    ASSUME NEW from \in Instants, NEW to \in Instants, NEW h, Found(h) = ForecastTime(from, to)
    PROVE  h \in Int /\ 3600 * h = Total(to) - Total(from)
<1>1. WholeHours(Elapsed(from, to)) /\ h = Hours(Elapsed(from, to))
  BY DEF ForecastTime, Found, If, Failed
<1> QED
  BY <1>1, HoursAreExact

LEMMA AddTheDifference ==
    ASSUME NEW from \in Instants, NEW to \in Instants, NEW n \in Int, n = Total(to) - Total(from)
    PROVE  AddSeconds(from, n) = to
<1>1. Total(from) \in Int /\ Total(to) \in Int
  BY Parts DEF Total, SecondsPerDay
<1>2. AddSeconds(from, n) \in Instants /\ Total(AddSeconds(from, n)) = Total(to)
  BY <1>1, AddSecondsAdds
<1> QED
  BY <1>2, TotalIsInjective

LEMMA DatedByReference ==
    ASSUME NEW out, NEW c, DatedBy(out, c)
    PROVE  /\ ProductTimeOk(c.m, c.misc)
           /\ ProductTime(c.m, c.misc).reference =
                 IF Has(out, "modelVersionDate") THEN out.modelVersionDate ELSE out.referenceDate
<1> DEFINE pt == ProductTime(c.m, c.misc)
<1>1. CASE ~Has(out, "modelVersionDate")
  <2>1. ReferenceTimeOp(Runtime, 1, "Standard", c) =
            [significanceOfReferenceTime |-> Found(out.significanceOfReferenceTime),
             referenceDate |-> Found(out.referenceDate)]
    BY <1>1 DEF DatedBy
  <2>2. ReferenceTimeOp(Runtime, 1, "Standard", c) # Refused
    BY <2>1 DEF Refused
  <2>3. ProductTimeOk(c.m, c.misc)
    BY <2>2 DEF ReferenceTimeOp, Runtime
  <2>4. ReferenceTimeOp(Runtime, 1, "Standard", c) =
            [significanceOfReferenceTime |-> ResolveSignificanceOfReferenceTime(c.m),
             referenceDate |-> Found(pt.reference)]
    BY <2>3 DEF ReferenceTimeOp, Runtime
  <2>5. Found(pt.reference) = Found(out.referenceDate)
    BY <2>1, <2>4
  <2> QED
    BY <1>1, <2>3, <2>5 DEF Found
<1>2. CASE Has(out, "modelVersionDate")
  <2>1. ReferenceTimeOp(Runtime, 4, "Reforecast", c) = [modelVersionDate |-> Found(out.modelVersionDate)]
    BY <1>2 DEF DatedBy
  <2>2. ReferenceTimeOp(Runtime, 4, "Reforecast", c) # Refused
    BY <2>1 DEF Refused
  <2>3. ProductTimeOk(c.m, c.misc)
    BY <2>2 DEF ReferenceTimeOp, Runtime
  <2>4. ReferenceTimeOp(Runtime, 4, "Reforecast", c) = [modelVersionDate |-> Found(pt.reference)]
    BY <2>2, <2>3 DEF ReferenceTimeOp, Runtime, Checked
  <2>5. Found(pt.reference) = Found(out.modelVersionDate)
    BY <2>1, <2>4
  <2> QED
    BY <1>2, <2>3, <2>5 DEF Found
<1> QED
  BY <1>1, <1>2

LEMMA ProductTimeEnds ==
    ASSUME NEW m, TypedRequest(m), NEW misc, ProductTimeOk(m, misc)
    PROVE  /\ ProductTime(m, misc).reference \in Instants
           /\ ProductTime(m, misc).windowEnd \in Instants
           /\ ProductTime(m, misc).windowEnd = RequestedTime(m)
<1>1. InputOk(m, misc)
  BY DEF ProductTimeOk
<1>2. /\ ProductTime(m, misc).reference = StartOfForecast(m)
      /\ ProductTime(m, misc).windowEnd = RequestedTime(m)
  BY <1>1, EndIsRequested DEF ProductTime, Make
<1>3. StartOfForecast(m) \in Instants
  BY <1>1, EndIsRequested
<1>4. RequestedTime(m) \in Instants
  BY <1>1, <1>3, StepType, AddSecondsAdds DEF RequestedTime
<1> QED
  BY <1>2, <1>3, <1>4

LEMMA FirstWindow ==
    ASSUME NEW m, TypedRequest(m), NEW misc, InputOk(m, misc), NoMonths(m),
           NEW w, Len(Windows(ProductTimeInput(m, misc))) # 0, w = Windows(ProductTimeInput(m, misc))[1]
    PROVE  w \in TypedWindows /\ w.unit # "month"
<1> DEFINE in == ProductTimeInput(m, misc)
           st == StattypeWindows(m)
<1>1. in.stattype = st /\ in.timespan = Timespan(m)
  BY DEF ProductTimeInput
<1>2. Windows(in) \in Seq(TypedWindows) /\ st \in Seq(TypedWindows)
  BY WindowTypes, StattypeType
<1>3. w \in TypedWindows
  <2> HIDE DEF in
  <2>1. 1 \in 1 .. Len(Windows(in))
    BY <1>2, LenProperties DEF in
  <2>2. w = Windows(in)[1]
    BY DEF in
  <2> QED
    BY <1>2, <2>1, <2>2, ElementOfSeq
<1>4. Timespan(m).unit = "second"
  BY DEF Timespan
<1>5. ASSUME st # << >>
      PROVE  st[1].unit # "month" /\ Len(st) >= 1
  <2>1. Has(m, "stattype")
    BY <1>5 DEF StattypeWindows
  <2>2. m.stattype[1][1] \in {"mo", "da"} /\ m.stattype[1][1] # "mo" /\ Len(m.stattype) \in {1, 2}
    BY <2>1 DEF InputOk, StatTypeOk, NoMonths
  <2>3. st = [i \in 1 .. Len(m.stattype) |-> DecodePeriod(m.stattype[i])]
    BY <2>1 DEF StattypeWindows
  <2>4. st[1] = DecodePeriod(m.stattype[1])
    BY <2>2, <2>3
  <2>5. st[1].unit = "day"
    BY <2>2, <2>4 DEF DecodePeriod, Unit
  <2>6. Len(st) >= 1
    BY <1>2, <1>5
  <2> QED
    BY <2>5, <2>6
<1>6. CASE st = << >>
  <2> HIDE DEF st
  <2>1. Windows(in) = Append(<< >>, Timespan(m)) \/ Windows(in) = << >>
    BY <1>1, <1>6 DEF Windows
  <2>2. Windows(in) = <<Timespan(m)>>
    BY <2>1
  <2> QED
    BY <1>3, <1>4, <2>2
<1>7. CASE st # << >>
  <2> HIDE DEF st
  <2>1. Windows(in) = Append(st, Timespan(m)) \/ Windows(in) = st
    BY <1>1 DEF Windows
  <2>2. w = st[1]
    BY <1>2, <1>5, <1>7, <2>1
  <2> QED
    BY <1>3, <1>5, <1>7, <2>2
<1> QED
  BY <1>6, <1>7

(* There is an operation for the inner loop at least.                      *)
LEMMA SomeOperation ==
    ASSUME NEW m, NEW inner, TypesOk(m, inner)
    PROVE  Len(TypesOfProcessing(m, inner)) >= 1
<1> DEFINE n == Len(m.stattype)
           f == [i \in 1 .. n |-> m.stattype[i][2]]
<1>1. CASE Has(m, "stattype") /\ TimespanKind(m) = "Duration"
  <2>1. n \in {1, 2} /\ \A i \in 1 .. n : m.stattype[i][2] \in {"av", "mn", "mx", "sd"}
    BY <1>1 DEF TypesOk, StatTypeOk
  <2>2. f \in Seq({"av", "mn", "mx", "sd", inner})
    <3>1. n \in Nat /\ \A i \in 1 .. n : m.stattype[i][2] \in {"av", "mn", "mx", "sd", inner}
      BY <2>1
    <3> HIDE DEF n
    <3> QED
      BY <3>1, IsASeq
  <2>3. Len(Append(f, inner)) = Len(f) + 1 /\ Len(f) \in Nat
    <3> HIDE DEF f, n
    <3> QED
      BY <2>2, AppendProperties, LenProperties
  <2>4. TypesOfProcessing(m, inner) = Append(f, inner)
    BY <1>1 DEF TypesOfProcessing
  <2> HIDE DEF f, n
  <2> QED
    BY <2>3, <2>4
<1>2. CASE ~(Has(m, "stattype") /\ TimespanKind(m) = "Duration")
  <2>1. TypesOfProcessing(m, inner) = <<inner>>
    BY <1>2 DEF TypesOfProcessing
  <2> QED
    BY <2>1
<1> QED
  BY <1>1, <1>2
----------------------------------------------------------------------------
(* A message of an instant says the time that was asked for                *)
(* (pointInTimeEncoding.h: the forecast time is the distance from the      *)
(* reference time to the end of the product).                              *)
THEOREM InstantIsAsRequested ==
    ASSUME NEW c, TypedRequest(c.m), NEW out, DatedBy(out, c), AtInstant(out, c)
    PROVE  MessageTime(out) = RequestedTime(c.m)
<1> DEFINE pt == ProductTime(c.m, c.misc)
           h  == out.forecastTime
<1>1. ProductTimeOk(c.m, c.misc)
  BY DatedByReference
<1>2. pt.reference \in Instants /\ pt.windowEnd \in Instants /\ pt.windowEnd = RequestedTime(c.m)
  BY <1>1, ProductTimeEnds
<1>3. Found(h) = ForecastTime(pt.reference, pt.windowEnd)
  <2>1. PointInTimeOp(Runtime, c) = [forecastTime |-> Found(h)]
    BY DEF AtInstant
  <2>2. PointInTimeOp(Runtime, c) # Refused
    BY <2>1 DEF Refused
  <2>3. PointInTimeOp(Runtime, c) = [forecastTime |-> ForecastTime(pt.reference, pt.windowEnd)]
    BY <1>1, <2>2 DEF PointInTimeOp, Runtime, Override, Allocate, Preset
  <2> QED
    BY <2>1, <2>3
<1>4. h \in Int /\ 3600 * h = Total(pt.windowEnd) - Total(pt.reference)
  BY <1>2, <1>3, HoursAfter
<1>5. OverallLength(out) = 0
  BY DEF AtInstant, OverallLength
<1>6. 3600 * (h + 0) \in Int /\ 3600 * (h + 0) = 3600 * h
  BY <1>4
<1>7. AddSeconds(pt.reference, 3600 * (h + 0)) = pt.windowEnd
  BY <1>2, <1>4, <1>6, AddTheDifference
<1>8. MessageTime(out) = AddSeconds(pt.reference, 3600 * (h + 0))
  BY <1>5, DatedByReference DEF MessageTime
<1> QED
  BY <1>2, <1>7, <1>8

(* A message of an interval ends at the time that was asked for: the       *)
(* forecast time of its start and the length, which are written by two     *)
(* stages from two ways of counting, and the end of the interval, which is *)
(* written apart (statisticsEncoding.h).                                   *)
THEOREM IntervalIsAsRequested ==
    ASSUME NEW c, TypedRequest(c.m), NoMonths(c.m), NEW out, NEW v,
           DatedBy(out, c), OverInterval(out, v, c)
    PROVE  /\ MessageTime(out) = RequestedTime(c.m)
           /\ out.endOfOverallTimeInterval = RequestedTime(c.m)
<1> DEFINE in == ProductTimeInput(c.m, c.misc)
           pt == ProductTime(c.m, c.misc)
           h  == out.forecastTime
           types == TypesOfProcessing(c.m, OperationOf[v])
           w  == pt.windows[1]
           length == WindowLengthInHours(w, pt.windowEnd)
<1>1. ProductTimeOk(c.m, c.misc)
  BY DatedByReference
<1>2. pt.reference \in Instants /\ pt.windowEnd \in Instants /\ pt.windowEnd = RequestedTime(c.m)
  BY <1>1, ProductTimeEnds
<1>3. /\ InputOk(c.m, c.misc) /\ MakeOk(in)
      /\ pt.windows = Windows(in) /\ pt.windowEnd = WindowEnd(in) /\ pt.windowStart = WindowStart(in)
  BY <1>1 DEF ProductTimeOk, ProductTime, Make
<1>4. /\ Found(h) = ForecastTime(pt.reference, pt.windowStart)
      /\ out.endOfOverallTimeInterval = pt.windowEnd
  <2>1. StatisticsOp(Runtime, v, c) =
            [forecastTime |-> Found(h),
             endOfOverallTimeInterval |-> Found(out.endOfOverallTimeInterval)]
    BY DEF OverInterval
  <2>2. StatisticsOp(Runtime, v, c) # Refused /\ StatisticsOp(Runtime, v, c) # NoWrites
    BY <2>1 DEF Refused, NoWrites
  <2>3. StatisticsOp(Runtime, v, c) = RuntimeStatistics(pt)
    BY <1>1, <2>2 DEF StatisticsOp, Runtime, Override, Allocate, Preset
  <2>4. RuntimeStatistics(pt) = [forecastTime |-> ForecastTime(pt.reference, pt.windowStart),
                                 endOfOverallTimeInterval |-> Found(pt.windowEnd)]
    BY <2>2, <2>3 DEF RuntimeStatistics
  <2>5. Found(h) = ForecastTime(pt.reference, pt.windowStart)
    BY <2>1, <2>3, <2>4
  <2>6. Found(out.endOfOverallTimeInterval) = Found(pt.windowEnd)
    BY <2>1, <2>3, <2>4
  <2> QED
    BY <2>5, <2>6 DEF Found
<1>5. /\ TypesOk(c.m, OperationOf[v]) /\ DescriptorOk(pt, types)
      /\ out.lengthOfTimeRange = Descriptor(pt, types).lengths
  <2>1. StatisticsOp(Preset, v, c) =
            [typeOfStatisticalProcessing |-> Found(out.typeOfStatisticalProcessing),
             lengthOfTimeRange |-> Found(out.lengthOfTimeRange),
             timeIncrement |-> Found(out.timeIncrement)]
    BY DEF OverInterval
  <2>2. StatisticsOp(Preset, v, c) # Refused /\ StatisticsOp(Preset, v, c) # NoWrites
    BY <2>1 DEF Refused, NoWrites
  <2>3. StatisticsOp(Preset, v, c) = PresetStatistics(pt, v, c)
    BY <1>1, <2>2 DEF StatisticsOp, Runtime, Override, Allocate, Preset
  <2>4. TypesOk(c.m, OperationOf[v]) /\ DescriptorOk(pt, types)
    BY <2>2, <2>3 DEF PresetStatistics
  <2>5. PresetStatistics(pt, v, c) =
            [typeOfStatisticalProcessing |-> Found(Descriptor(pt, types).types),
             lengthOfTimeRange |-> Found(Descriptor(pt, types).lengths),
             timeIncrement |-> Found(Descriptor(pt, types).increments)]
    BY <2>4 DEF PresetStatistics
  <2>6. Found(out.lengthOfTimeRange) = Found(Descriptor(pt, types).lengths)
    BY <2>1, <2>3, <2>5
  <2> QED
    BY <2>4, <2>6 DEF Found
<1>6. Len(pt.windows) \in Nat /\ Len(pt.windows) >= 1 /\ DOMAIN pt.windows = 1 .. Len(pt.windows)
  <2>1. Len(types) >= 1 /\ Len(types) = Len(pt.windows)
    BY <1>5, SomeOperation DEF DescriptorOk
  <2>2. pt.windows \in Seq(TypedWindows)
    BY <1>3, WindowTypes
  <2> HIDE DEF pt, types
  <2> QED
    BY <2>1, <2>2, LenProperties
<1>7. w \in TypedWindows /\ w.unit # "month"
  BY <1>3, <1>6, FirstWindow
<1>8. AlignmentOk(w, pt.windowEnd) /\ WindowLengthOk(w) /\ pt.windowStart = SubtractWindow(pt.windowEnd, w)
  <2>1. pt.windows # << >> /\ 1 \in DOMAIN pt.windows
    <3> HIDE DEF pt
    <3> QED
      BY <1>6
  <2>2. WindowLengthOk(w)
    BY <1>5, <2>1 DEF DescriptorOk
  <2>3. AlignmentOk(w, pt.windowEnd) /\ pt.windowStart = SubtractWindow(pt.windowEnd, w)
    BY <1>3, <2>1 DEF MakeOk, WindowStart
  <2> QED
    BY <2>2, <2>3
<1>9. /\ pt.windowStart \in Instants /\ length \in Int
      /\ 3600 * length = Total(pt.windowEnd) - Total(pt.windowStart)
  BY <1>2, <1>7, <1>8, LengthIsExact
<1>10. h \in Int /\ 3600 * h = Total(pt.windowStart) - Total(pt.reference)
  BY <1>2, <1>4, <1>9, HoursAfter
<1>11. OverallLength(out) = length
  <2>1. Has(out, "lengthOfTimeRange")
    BY DEF OverInterval
  <2>2. Descriptor(pt, types).lengths = [i \in 1 .. Len(pt.windows) |->
                                            WindowLengthInHours(pt.windows[i], pt.windowEnd)]
    BY DEF Descriptor
  <2>3. Descriptor(pt, types).lengths[1] = length
    BY <1>6, <2>2
  <2> QED
    BY <1>5, <2>1, <2>3 DEF OverallLength
<1>12. 3600 * (h + length) \in Int /\ 3600 * (h + length) = Total(pt.windowEnd) - Total(pt.reference)
  <2>1. /\ Total(pt.windowEnd) \in Int /\ Total(pt.windowStart) \in Int
        /\ Total(pt.reference) \in Int
    BY <1>2, <1>9, Parts DEF Total, SecondsPerDay
  <2> HIDE DEF h, length, pt
  <2> QED
    BY <1>9, <1>10, <2>1
<1>13. AddSeconds(pt.reference, 3600 * (h + length)) = pt.windowEnd
  BY <1>2, <1>12, AddTheDifference
<1>14. MessageTime(out) = AddSeconds(pt.reference, 3600 * (h + length))
  BY <1>11, DatedByReference DEF MessageTime
<1> QED
  BY <1>2, <1>4, <1>13, <1>14
----------------------------------------------------------------------------
(* Which concept writes the keys of the times and the level, at which      *)
(* stage and in which section.                                             *)
ConceptNames == {"analysis", "composition", "dataType", "derived", "destine", "ensemble",
    "generatingProcess", "level", "longrange", "iteration", "mars", "nil", "origin", "packing",
    "param", "pointInTime", "referenceTime", "representation", "satellite", "shapeOfTheEarth",
    "statistics", "tables", "wave", "modelError", "brightnessTemperature", "strikeProbability",
    "referencePeriod"}
TimesAndLevel == {"level", "pointInTime", "referenceTime", "statistics"}
ClockKeys == {"forecastTime", "endOfOverallTimeInterval", "typeOfStatisticalProcessing",
    "lengthOfTimeRange", "timeIncrement", "significanceOfReferenceTime", "referenceDate",
        "modelVersionDate"}
LevelKeys == {"typeOfLevel", "level", "topLevel", "bottomLevel"}
Quiet(w) == /\ \A k \in ClockKeys \cup LevelKeys : k \notin DOMAIN w
            /\ "refused" \in DOMAIN w => w = Refused

(* A concept that is not of times or levels writes none of the watched     *)
(* keys.                                                                   *)
LEMMA OthersAreQuiet ==
    ASSUME NEW concept \in ConceptNames \ TimesAndLevel, NEW v, NEW stage, NEW s, NEW c
    PROVE  Quiet(Callback(concept, v, stage, s, c))
<1> USE DEF Quiet, ClockKeys, LevelKeys, Refused, NoWrites, Checked, ++
<1>1. Quiet(AnalysisConcept(stage, s, v, c))
  BY DEF AnalysisConcept, AnalysisApplicable, AnalysisOp
<1>2. Quiet(BrightnessTemperatureConcept(stage, s, v, c))
  BY DEF BrightnessTemperatureConcept, BrightnessTemperatureApplicable, BrightnessTemperatureOp
<1>3. Quiet(CompositionConcept(stage, s, v, c))
  BY DEF CompositionConcept, CompositionApplicable, CompositionOp
<1>4. Quiet(DataTypeConcept(stage, s, v, c))
  BY DEF DataTypeConcept, DataTypeApplicable, DataTypeOp
<1>5. Quiet(DerivedConcept(stage, s, v, c))
  BY DEF DerivedConcept, DerivedApplicable, DerivedOp
<1>6. Quiet(DestineConcept(stage, s, v, c))
  BY DEF DestineConcept, DestineApplicable, DestineOp, ClimateKeys
<1>7. Quiet(EnsembleConcept(stage, s, v, c))
  BY DEF EnsembleConcept, EnsembleApplicable, EnsembleOp
<1>8. Quiet(GeneratingProcessConcept(stage, s, v, c))
  BY DEF GeneratingProcessConcept, GeneratingProcessApplicable, GeneratingProcessOp, Optional
<1>9. Quiet(IterationConcept(stage, s, v, c))
  BY DEF IterationConcept, IterationApplicable, IterationOp, Optional
<1>10. Quiet(LongrangeConcept(stage, s, v, c))
  BY DEF LongrangeConcept, LongrangeApplicable, LongrangeOp
<1>11. Quiet(MarsConcept(stage, s, v, c))
  BY DEF MarsConcept, MarsApplicable, MarsOp
<1>12. Quiet(ModelErrorConcept(stage, s, v, c))
  BY DEF ModelErrorConcept, ModelErrorApplicable, ModelErrorOp
<1>13. Quiet(NilConcept(stage, s, v, c))
  BY DEF NilConcept
<1>14. Quiet(OriginConcept(stage, s, v, c))
  BY DEF OriginConcept, OriginApplicable, OriginOp
<1>15. Quiet(PackingConcept(stage, s, v, c))
  BY DEF PackingConcept, PackingApplicable, PackingOp, GriddedPacking, SpectralPacking
<1>16. Quiet(ParamConcept(stage, s, v, c))
  BY DEF ParamConcept, ParamApplicable, ParamOp
<1>17. Quiet(ReferencePeriodConcept(stage, s, v, c))
  BY DEF ReferencePeriodConcept
<1>18. Quiet(RepresentationConcept(stage, s, v, c))
  BY DEF RepresentationConcept, RepresentationApplicable, RepresentationOp,
      AllocateRepresentation, PresetRepresentation
<1>19. Quiet(SatelliteConcept(stage, s, v, c))
  BY DEF SatelliteConcept, SatelliteApplicable, SatelliteOp, SatelliteKeys
<1>20. Quiet(ShapeOfTheEarthConcept(stage, s, v, c))
  BY DEF ShapeOfTheEarthConcept, ShapeOfTheEarthApplicable, ShapeOfTheEarthOp
<1>21. Quiet(StrikeProbabilityConcept(stage, s, v, c))
  BY DEF StrikeProbabilityConcept
<1>22. Quiet(TablesConcept(stage, s, v, c))
  BY DEF TablesConcept, TablesApplicable, TablesOp
<1>23. Quiet(WaveConcept(stage, s, v, c))
  <2>1. ASSUME NEW min, NEW max
        PROVE  /\ Quiet(WavePeriodInterval(min, max))
               /\ "refused" \notin DOMAIN WavePeriodInterval(min, max)
    BY DEF WavePeriodInterval, OfInterval, Optional
  <2> HIDE DEF WavePeriodInterval
  <2> QED
    BY <2>1 DEF WaveConcept, WaveApplicable, WaveOp
<1> HIDE DEF Quiet, ClockKeys, LevelKeys, Refused, NoWrites, Checked, ++
<1> QED
  BY <1>1, <1>2, <1>3, <1>4, <1>5, <1>6, <1>7, <1>8, <1>9, <1>10, <1>11, <1>12, <1>13, <1>14,
      <1>15, <1>16, <1>17, <1>18, <1>19, <1>20, <1>21, <1>22, <1>23
  DEF ConceptNames, TimesAndLevel, Callback

(* What the four others write of the watched keys, and when.               *)
Level4(w, stage, s) ==
    s = ProductDefinitionSection /\ stage \in {Preset, Runtime} /\ DOMAIN w \subseteq LevelKeys

(* The level is written by the stages Preset and Runtime of section 4.     *)
LEMMA LevelWrites ==
    ASSUME NEW v, NEW stage, NEW s, NEW c
    PROVE  LET w == LevelConcept(stage, s, v, c) IN Quiet(w) \/ Level4(w, stage, s)
BY DEF LevelConcept, LevelApplicable, LevelOp, WriteLevel, FixedLevel, NoWrites, ++, Quiet,
    Level4, ClockKeys,
       LevelKeys, Refused

(* An instant writes the forecast time at Runtime.                         *)
LEMMA InstantWrites ==
    ASSUME NEW v, NEW stage \in Stages, NEW s, NEW c
    PROVE  LET w == PointInTimeConcept(stage, s, v, c)
           IN  Quiet(w) \/ (/\ s = ProductDefinitionSection /\ stage = Runtime
                            /\ DOMAIN w = {"forecastTime"})
BY DEF Stages, PointInTimeConcept, PointInTimeApplicable, PointInTimeOp, DataCutoffMissing,
    NoWrites, Quiet,
       ClockKeys, LevelKeys, Refused, Allocate, Preset, Override, Runtime

(* The reference date goes to section 1, that of a reforecast to section   *)
(* 4.                                                                      *)
LEMMA ReferenceWrites ==
    ASSUME NEW v, NEW stage, NEW s, NEW c
    PROVE  LET w == ReferenceTimeConcept(stage, s, v, c)
           IN  \/ Quiet(w)
               \/ /\ stage = Runtime /\ s = IdentificationSection
                  /\ DOMAIN w = {"significanceOfReferenceTime", "referenceDate"}
               \/ /\ stage = Runtime /\ s = ProductDefinitionSection /\ v = "Reforecast"
                  /\ DOMAIN w = {"modelVersionDate"}
BY DEF ReferenceTimeConcept, ReferenceTimeApplicable, ReferenceTimeOp, Checked, NoWrites, Quiet,
    ClockKeys,
       LevelKeys, Refused, IdentificationSection, ProductDefinitionSection

(* An interval writes its length at Preset, its start and end at Runtime.  *)
LEMMA IntervalWrites ==
    ASSUME NEW v, NEW stage \in Stages, NEW s, NEW c
    PROVE  LET w == StatisticsConcept(stage, s, v, c)
           IN  \/ Quiet(w)
               \/ /\ stage = Preset /\ s = ProductDefinitionSection
                  /\ DOMAIN w = {"typeOfStatisticalProcessing", "lengthOfTimeRange",
                         "timeIncrement"}
               \/ /\ stage = Runtime /\ s = ProductDefinitionSection
                  /\ DOMAIN w = {"forecastTime", "endOfOverallTimeInterval"}
BY DEF Stages, StatisticsConcept, StatisticsApplicable, StatisticsOp, AllocateStatistics,
    PresetStatistics,
       RuntimeStatistics, DataCutoffMissing, Checked, NoWrites, ++, Quiet, ClockKeys, LevelKeys,
           Refused,
       Allocate, Preset, Override, Runtime

(* The concept that writes a watched key.                                  *)
Owner(k, concept, v, stage, s) ==
    CASE k \in LevelKeys ->
           concept = "level" /\ stage \in {Preset, Runtime} /\ s = ProductDefinitionSection
      [] k = "forecastTime" ->
           /\ concept \in {"pointInTime", "statistics"} /\ stage = Runtime
           /\ s = ProductDefinitionSection
      [] k = "endOfOverallTimeInterval" ->
           concept = "statistics" /\ stage = Runtime /\ s = ProductDefinitionSection
      [] k \in {"typeOfStatisticalProcessing", "lengthOfTimeRange", "timeIncrement"} ->
           concept = "statistics" /\ stage = Preset /\ s = ProductDefinitionSection
      [] k \in {"significanceOfReferenceTime", "referenceDate"} ->
           concept = "referenceTime" /\ stage = Runtime /\ s = IdentificationSection
      [] k = "modelVersionDate" ->
           /\ concept = "referenceTime" /\ v = "Reforecast" /\ stage = Runtime
           /\ s = ProductDefinitionSection

(* Of all the concepts, only the owner of a watched key writes it, in its  *)
(* stage and section.                                                      *)
LEMMA OnlyOwners ==
    ASSUME NEW concept \in ConceptNames, NEW v, NEW stage \in Stages, NEW s, NEW c
    PROVE  LET w == Callback(concept, v, stage, s, c)
           IN  /\ "refused" \in DOMAIN w => w = Refused
               /\ \A k \in ClockKeys \cup LevelKeys :
                      k \in DOMAIN w => Owner(k, concept, v, stage, s)
<1> DEFINE w == Callback(concept, v, stage, s, c)
<1>1. CASE concept = "level"
  <2>1. w = LevelConcept(stage, s, v, c)
    BY <1>1 DEF Callback
  <2> QED
    BY <1>1, <2>1, LevelWrites DEF Quiet, Level4, ClockKeys, LevelKeys, Owner
<1>2. CASE concept = "pointInTime"
  <2>1. w = PointInTimeConcept(stage, s, v, c)
    BY <1>2 DEF Callback
  <2> QED
    BY <1>2, <2>1, InstantWrites DEF Quiet, ClockKeys, LevelKeys, Owner
<1>3. CASE concept = "referenceTime"
  <2>1. w = ReferenceTimeConcept(stage, s, v, c)
    BY <1>3 DEF Callback
  <2> QED
    BY <1>3, <2>1, ReferenceWrites DEF Quiet, ClockKeys, LevelKeys, Owner
<1>4. CASE concept = "statistics"
  <2>1. w = StatisticsConcept(stage, s, v, c)
    BY <1>4 DEF Callback
  <2> QED
    BY <1>4, <2>1, IntervalWrites DEF Quiet, ClockKeys, LevelKeys, Owner
<1>5. CASE concept \notin TimesAndLevel
  BY <1>5, OthersAreQuiet DEF Quiet
<1> QED
  BY <1>1, <1>2, <1>3, <1>4, <1>5 DEF TimesAndLevel

----------------------------------------------------------------------------
(* The cells of a row.                                                     *)
(* The callbacks of the table are those of the named concepts.             *)
LEMMA ConceptsNamed == \A c \in Concepts : c \in ConceptNames
BY DEF Concepts, ConceptIds, NConcepts, EntryName, AllConcepts, Entry, ConceptNames

CallOf(r, out) == [m |-> r.mars, misc |-> r.misc, out |-> out]

\* What the cell of a row for the concept p[2] of the section p[1] writes.
Cell(layout, row, p, r, out) ==
    Callback(p[2], layout[p[1]].variants[p[2]], row - 1, p[1], CallOf(r, out))

LEMMA LayoutShape ==
    ASSUME NEW v, LayoutFor(v) # <<>>
    PROVE  LayoutOk(v) /\ LayoutFor(v) = Layout(v) /\ DOMAIN LayoutFor(v) = Sections
BY DEF LayoutFor, Layout

(* A section of a layout has the variants of its key.                      *)
LEMMA VariantsOfSection ==
    ASSUME NEW v, LayoutFor(v) # <<>>, NEW s \in Sections
    PROVE  LayoutFor(v)[s].variants = [c \in Key(s, v) |-> v[c]]
<1>1. LayoutFor(v) = Layout(v)
  BY LayoutShape
<1> QED
  BY <1>1 DEF Layout

(* The plan runs the concepts of the keys of the sections, each with its   *)
(* variant.                                                                *)
LEMMA PlanIs ==
    ASSUME NEW v, LayoutFor(v) # <<>>, NEW p \in Plan(LayoutFor(v))
    PROVE  /\ p[1] \in Sections /\ p[2] \in Key(p[1], v) /\ p[2] \in ConceptNames
           /\ LayoutFor(v)[p[1]].variants[p[2]] = v[p[2]]
<1>1. PICK s \in Sections : p \in {s} \X DOMAIN LayoutFor(v)[s].variants
  BY DEF Plan
<1>2. LayoutFor(v)[s].variants = [c \in Key(s, v) |-> v[c]]
  BY VariantsOfSection
<1>3. p[1] = s /\ p[2] \in Key(s, v)
  BY <1>1, <1>2
<1>4. p[2] \in Concepts
  BY <1>3 DEF Key, Active
<1>5. p[2] \in ConceptNames
  BY <1>4, ConceptsNamed
<1> QED
  BY <1>2, <1>3, <1>5

LEMMA InPlan ==
    ASSUME NEW v, LayoutFor(v) # <<>>, NEW s \in Sections, NEW c \in Key(s, v)
    PROVE  <<s, c>> \in Plan(LayoutFor(v))
<1>1. LayoutFor(v)[s].variants = [d \in Key(s, v) |-> v[d]]
  BY VariantsOfSection
<1>2. c \in DOMAIN LayoutFor(v)[s].variants
  BY <1>1
<1> QED
  BY <1>2 DEF Plan

(* What a row writes is what its cells write together.                     *)
LEMMA RowIsItsCells ==
    ASSUME NEW layout, NEW row \in 1 .. Runtime + 1, NEW r, NEW out
    PROVE  RowWrites(layout, row, r, out) = Combine({Cell(layout, row, p, r,
               out) : p \in Plan(layout)})
<1> DEFINE A == {Callback(p[2], layout[p[1]].variants[p[2]], row - 1, p[1], c) :
                     p \in Plan(layout), c \in {CallOf(r, out)}}
           B == {Cell(layout, row, p, r, out) : p \in Plan(layout)}
<1>1. \A w : w \in A <=> w \in B
  BY DEF Cell
<1>2. RowWrites(layout, row, r, out) = Combine(A)
  BY row # 0 DEF RowWrites, CallOf
<1> HIDE DEF A, B
<1>3. A = B
  BY <1>1
<1> QED
  BY <1>2, <1>3 DEF B

(* What a row that is not refused leaves in the message: what its cells    *)
(* write, over what was there.                                             *)
LEMMA RowLeaves ==
    ASSUME NEW v, NEW layout, layout = LayoutFor(v), layout # <<>>,
           NEW row \in 1 .. Runtime + 1, NEW r, NEW out, NEW after,
           AfterRow(layout, row, r, Found(out)) = Found(after)
    PROVE  /\ \A p \in Plan(layout) : Cell(layout, row, p, r, out) # Refused
           /\ \A k : k \in DOMAIN after <=>
                 \/ k \in DOMAIN out
                 \/ \E p \in Plan(layout) : k \in DOMAIN Cell(layout, row, p, r, out)
           /\ \A k : (\E p \in Plan(layout) : k \in DOMAIN Cell(layout, row, p, r, out)) =>
                 \E p \in Plan(layout) : /\ k \in DOMAIN Cell(layout, row, p, r, out)
                                         /\ Cell(layout, row, p, r, out)[k] # Failed
                                         /\ after[k] = Cell(layout, row, p, r, out)[k][1]
           /\ \A k \in DOMAIN out :
                 (\A p \in Plan(layout) : k \notin DOMAIN Cell(layout, row, p, r, out)) =>
                     after[k] = out[k]
<1> DEFINE W == {Cell(layout, row, p, r, out) : p \in Plan(layout)}
           writes == Combine(W)
<1>1. RowWrites(layout, row, r, out) = writes
  BY RowIsItsCells
<1>2. Succeeds(writes) /\ after = Write(out, writes)
  BY <1>1 DEF AfterRow, If, Found, Failed
<1>3. DOMAIN writes = UNION {DOMAIN w : w \in W}
  BY DEF Combine
<1>4. ASSUME NEW k \in DOMAIN writes
      PROVE  \E w \in W : k \in DOMAIN w /\ writes[k] = w[k] /\ w[k] # Failed
  <2>1. writes[k] = (CHOOSE w \in W : k \in DOMAIN w)[k]
    BY <1>4 DEF Combine
  <2>2. \E w \in W : k \in DOMAIN w
    BY <1>3, <1>4
  <2>3. writes[k] # Failed
    BY <1>2 DEF Succeeds
  <2> QED
    BY <2>1, <2>2, <2>3
<1>5. DOMAIN after = DOMAIN writes \cup DOMAIN out
  BY <1>2 DEF Write, Values, ++
<1>6. \A k \in DOMAIN writes : after[k] = writes[k][1]
  BY <1>2, <1>5 DEF Write, Values, ++
<1>7. \A k \in DOMAIN out \ DOMAIN writes : after[k] = out[k]
  BY <1>2, <1>5 DEF Write, Values, ++
<1>8. \A k : k \in DOMAIN writes <=> \E p \in Plan(layout) : k \in DOMAIN Cell(layout, row, p, r,
          out)
  BY <1>3
<1>9. ASSUME NEW p \in Plan(layout), Cell(layout, row, p, r, out) = Refused PROVE FALSE
  <2>1. "refused" \in DOMAIN writes
    BY <1>8, <1>9 DEF Refused
  <2>2. PICK q \in Plan(layout) : /\ "refused" \in DOMAIN Cell(layout, row, q, r, out)
                                  /\ Cell(layout, row, q, r, out)["refused"] # Failed
    BY <1>4, <2>1
  <2>3. q[2] \in ConceptNames /\ row - 1 \in Stages
    BY PlanIs DEF Stages, Runtime
  <2>4. Cell(layout, row, q, r, out) = Refused
    BY <2>2, <2>3, OnlyOwners DEF Cell
  <2> QED
    BY <2>2, <2>4 DEF Refused
<1>10. \A k \in DOMAIN writes : \E p \in Plan(layout) :
          /\ k \in DOMAIN Cell(layout, row, p, r, out)
          /\ Cell(layout, row, p, r, out)[k] # Failed
          /\ after[k] = Cell(layout, row, p, r, out)[k][1]
  BY <1>4, <1>6
<1> HIDE DEF W, writes
<1> QED
  BY <1>5, <1>7, <1>8, <1>9, <1>10

----------------------------------------------------------------------------
(* A key of the times is written by one row and kept by the others.        *)
(* The message after a row of encode().                                    *)
Message(layout, r, row) == AfterRows(layout, r)[row][1]

(* When encode() ends with a message, so does each of its rows.            *)
LEMMA RowsOfEncode ==
    ASSUME NEW layout, NEW r, AfterRows(layout, r)[Runtime + 1] # Failed
    PROVE  /\ \A row \in Rows : AfterRows(layout, r)[row] = Found(Message(layout, r, row))
           /\ AfterRow(layout, 0, r, Found(EmptyMessage)) = Found(Message(layout, r, 0))
           /\ \A row \in 1 .. Runtime + 1 :
                 AfterRow(layout, row, r, Found(Message(layout, r, row - 1))) =
                     Found(Message(layout, r, row))
<1>1. ASSUME NEW row \in Rows PROVE AfterRows(layout, r)[row] # Failed
  <2>1. row \in 0 .. Runtime \/ row = Runtime + 1
    BY DEF Rows, Runtime
  <2> QED
    BY <2>1, FailedStays
<1>2. AfterRows(layout, r)[0] = AfterRow(layout, 0, r, Found(EmptyMessage))
  BY RowByRow
<1>3. ASSUME NEW row \in 1 .. Runtime + 1
      PROVE  AfterRows(layout, r)[row] = AfterRow(layout, row, r, AfterRows(layout, r)[row - 1])
  BY RowByRow
<1>4. ASSUME NEW row \in Rows PROVE AfterRows(layout, r)[row] = Found(Message(layout, r, row))
  <2>1. row = 0 \/ row \in 1 .. Runtime + 1
    BY DEF Rows, Runtime
  <2>2. CASE row = 0
    BY <1>1, <1>2, <2>2, RowResult DEF Message
  <2>3. CASE row \in 1 .. Runtime + 1
    BY <1>1, <1>3, <2>3, RowResult DEF Message
  <2> QED
    BY <2>1, <2>2, <2>3
<1>5. ASSUME NEW row \in 1 .. Runtime + 1
      PROVE  AfterRow(layout, row, r, Found(Message(layout, r, row - 1))) = Found(Message(layout,
                 r, row))
  <2>1. row \in Rows /\ row - 1 \in Rows
    BY DEF Rows, Runtime
  <2> QED
    BY <1>3, <1>4, <2>1
<1>6. AfterRow(layout, 0, r, Found(EmptyMessage)) = Found(Message(layout, r, 0))
  <2>1. 0 \in Rows
    BY DEF Rows, Runtime
  <2> QED
    BY <1>2, <1>4, <2>1
<1> QED
  BY <1>4, <1>5, <1>6

(* The initializers of the sections write none of the watched keys.        *)
LEMMA InitializersAreQuiet ==
    ASSUME NEW s \in Sections, NEW template, NEW k \in ClockKeys \cup LevelKeys
    PROVE  k \notin DOMAIN Initialize(s, template)
BY DEF Sections, Initialize, InitializeLocalUse, LocalUse, DestinELocalUse, InitializeGrid,
       InitializeProduct, InitializeData, NoWrites, ++, ClockKeys, LevelKeys

(* The message starts without any of the watched keys.                     *)
LEMMA FirstMessage ==
    ASSUME NEW layout, NEW r, AfterRows(layout, r)[Runtime + 1] # Failed,
           NEW k \in ClockKeys \cup LevelKeys
    PROVE  k \notin DOMAIN Message(layout, r, 0)
<1> DEFINE W == {Initialize(s, layout[s].template) : s \in Sections}
           writes == RowWrites(layout, 0, r, EmptyMessage)
<1>1. writes = Combine(W)
  BY DEF RowWrites
<1>2. k \notin DOMAIN writes
  BY <1>1, InitializersAreQuiet DEF Combine
<1>3. AfterRow(layout, 0, r, Found(EmptyMessage)) = Found(Message(layout, r, 0))
  BY RowsOfEncode
<1>4. Message(layout, r, 0) = Write(EmptyMessage, writes)
  <2> HIDE DEF writes
  <2> QED
    BY <1>3 DEF AfterRow, If, Found, Failed, writes
<1> QED
  BY <1>2, <1>4 DEF Write, Values, EmptyMessage, NoKeys, ++

(* The row of the plan at which a key of the times is written.             *)
RowOf(k) == IF k \in {"typeOfStatisticalProcessing", "lengthOfTimeRange", "timeIncrement"}
            THEN Preset + 1 ELSE Runtime + 1

(* The rows of other stages leave a key of the times as it was.            *)
LEMMA NotInOtherRows ==
    ASSUME NEW v, NEW layout, layout = LayoutFor(v), layout # <<>>, NEW r,
           AfterRows(layout, r)[Runtime + 1] # Failed,
           NEW k \in ClockKeys, NEW row \in 1 .. Runtime + 1, row # RowOf(k)
    PROVE  /\ k \in DOMAIN Message(layout, r, row) <=> k \in DOMAIN Message(layout, r, row - 1)
           /\ k \in DOMAIN Message(layout, r, row) =>
                 Message(layout, r, row)[k] = Message(layout, r, row - 1)[k]
<1> DEFINE before == Message(layout, r, row - 1)
<1>1. AfterRow(layout, row, r, Found(before)) = Found(Message(layout, r, row))
  BY RowsOfEncode
<1>2. ASSUME NEW p \in Plan(layout) PROVE k \notin DOMAIN Cell(layout, row, p, r, before)
  <2>1. p[2] \in ConceptNames /\ row - 1 \in Stages
    BY PlanIs DEF Stages, Runtime
  <2>2. k \in DOMAIN Cell(layout, row, p, r, before) =>
            Owner(k, p[2], layout[p[1]].variants[p[2]], row - 1, p[1])
    BY <2>1, OnlyOwners DEF Cell
  <2>3. ASSUME NEW concept, NEW w, NEW s, Owner(k, concept, w, row - 1, s) PROVE FALSE
    <3>1. row \in {1, 2, 3, 4}
      BY DEF Runtime
    <3>2. CASE k \in {"typeOfStatisticalProcessing", "lengthOfTimeRange", "timeIncrement"}
      <4>1. row - 1 = Preset
        BY <2>3, <3>2 DEF Owner, LevelKeys
      <4> QED
        BY <3>1, <3>2, <4>1 DEF RowOf, Preset, Runtime
    <3>3. CASE k \notin {"typeOfStatisticalProcessing", "lengthOfTimeRange", "timeIncrement"}
      <4>1. row - 1 = Runtime
        BY <2>3, <3>3 DEF Owner, LevelKeys, ClockKeys
      <4> QED
        BY <3>1, <3>3, <4>1 DEF RowOf, Preset, Runtime
    <3> QED
      BY <3>2, <3>3
  <2> QED
    BY <2>2, <2>3
<1> HIDE DEF before
<1> QED
  BY <1>1, <1>2, RowLeaves DEF before

(* So a key of the times is in the message when, and as, a cell of its row *)
(* has written it.                                                         *)
LEMMA WrittenOnce ==
    ASSUME NEW v, NEW layout, layout = LayoutFor(v), layout # <<>>, NEW r,
           AfterRows(layout, r)[Runtime + 1] # Failed, NEW k \in ClockKeys
    PROVE  /\ k \in DOMAIN Message(layout, r, Runtime + 1) <=>
                 \E p \in Plan(layout) :
                     k \in DOMAIN Cell(layout, RowOf(k), p, r, Message(layout, r, RowOf(k) - 1))
           /\ k \in DOMAIN Message(layout, r, Runtime + 1) =>
                 \E p \in Plan(layout) :
                     LET w == Cell(layout, RowOf(k), p, r, Message(layout, r, RowOf(k) - 1))
                     IN  /\ k \in DOMAIN w /\ w[k] # Failed
                         /\ Message(layout, r, Runtime + 1)[k] = w[k][1]
<1> DEFINE M(row) == Message(layout, r, row)
           W(p) == Cell(layout, RowOf(k), p, r, M(RowOf(k) - 1))
<1>0. Runtime + 1 = 4 /\ Preset + 1 = 2 /\ RowOf(k) \in {2, 4}
  BY DEF Runtime, Preset, RowOf
<1>1. k \notin DOMAIN M(0)
  BY FirstMessage
<1>2. ASSUME NEW row \in 1 .. 4, row # RowOf(k)
      PROVE  /\ k \in DOMAIN M(row) <=> k \in DOMAIN M(row - 1)
             /\ k \in DOMAIN M(row) => M(row)[k] = M(row - 1)[k]
  BY <1>0, <1>2, NotInOtherRows
<1>3. k \notin DOMAIN M(RowOf(k) - 1)
  <2>1. k \notin DOMAIN M(1)
    BY <1>0, <1>1, <1>2, 1 # RowOf(k), 1 \in 1 .. 4
  <2>2. RowOf(k) = 4 => k \notin DOMAIN M(2)
    BY <1>2, <2>1, 2 \in 1 .. 4
  <2>3. RowOf(k) = 4 => k \notin DOMAIN M(3)
    BY <1>2, <2>2, 3 \in 1 .. 4
  <2> QED
    BY <1>0, <2>1, <2>3
<1>4. /\ k \in DOMAIN M(4) <=> k \in DOMAIN M(RowOf(k))
      /\ k \in DOMAIN M(4) => M(4)[k] = M(RowOf(k))[k]
  <2>1. CASE RowOf(k) = 4
    BY <2>1
  <2>2. CASE RowOf(k) = 2
    BY <1>2, <2>2, 3 \in 1 .. 4, 4 \in 1 .. 4
  <2> QED
    BY <1>0, <2>1, <2>2
<1>5. AfterRow(layout, RowOf(k), r, Found(M(RowOf(k) - 1))) = Found(M(RowOf(k)))
  BY <1>0, RowsOfEncode
<1>6. RowOf(k) \in 1 .. Runtime + 1
  BY <1>0
<1>7. /\ k \in DOMAIN M(RowOf(k)) <=> \E p \in Plan(layout) : k \in DOMAIN W(p)
      /\ (\E p \in Plan(layout) : k \in DOMAIN W(p)) =>
            \E p \in Plan(layout) : k \in DOMAIN W(p) /\ W(p)[k] # Failed /\ M(RowOf(k))[k] =
                W(p)[k][1]
  <2> HIDE DEF M
  <2> QED
    BY <1>3, <1>5, <1>6, RowLeaves
<1> QED
  BY <1>0, <1>4, <1>7

----------------------------------------------------------------------------
(* What the keys of the sections say of the times.                         *)
(* Section 4 is of an instant or of an interval, never of both or neither. *)
LEMMA ProductKey ==
    ASSUME NEW v, NEW key, NEW r \in Section4Recipes, Matches(r, key, v)
    PROVE  ("pointInTime" \in key) <=> ("statistics" \notin key)
BY DEF Section4Recipes, BasicRecipes, SpeciesRecipes, ReforecastRecipes, SourceRecipes,
       WaveRecipes, ProbabilityRecipes, RandomRecipes, Matches, Takes, Recipe, RecipeOf, Instant,
       OverTime, Product, OfSpecies, OfSpeciesMember, WaveOf, WaveMember, Individual, Probability, Reforecast, NoVariants

LEMMA KeyOfProduct ==
    ASSUME NEW v, LayoutFor(v) # <<>>
    PROVE  ("pointInTime" \in Key(4, v)) <=> ("statistics" \notin Key(4, v))
<1>1. PICK q \in SectionRecipes(4) : Matches(q, Key(4, v), v)
  BY LayoutShape DEF LayoutOk, Matching, Sections
<1>2. q \in Section4Recipes
  BY <1>1 DEF SectionRecipes
<1> QED
  BY <1>1, <1>2, ProductKey

(* Section 1 always has the reference time.                                *)
LEMMA KeyOfIdentification ==
    ASSUME NEW v, LayoutFor(v) # <<>>
    PROVE  Key(1, v) = {"origin", "tables", "referenceTime", "dataType"}
<1>1. PICK q \in SectionRecipes(1) : Matches(q, Key(1, v), v)
  BY LayoutShape DEF LayoutOk, Matching, Sections
<1>2. q = Recipe(0, {"origin", "tables", "referenceTime", "dataType"})
  BY <1>1 DEF SectionRecipes, Section1Recipes
<1> QED
  BY <1>1, <1>2 DEF Matches, Recipe, NoVariants

(* A reforecast is told in section 4 as well.                              *)
LEMMA MaskOfReforecast == CompressionMask(4, "referenceTime", "Reforecast")
<1>1. RecipeOf(60, Instant, Reforecast) \in SectionRecipes(4)
  BY DEF SectionRecipes, Section4Recipes, ReforecastRecipes
<1>2. Takes(RecipeOf(60, Instant, Reforecast), "referenceTime", "Reforecast")
  BY DEF Takes, RecipeOf, Reforecast
<1> QED
  BY <1>1, <1>2 DEF CompressionMask

(* A request that has a layout has the keys that every request must have.  *)
LEMMA RequiredOfLayout ==
    ASSUME NEW m, LayoutFor(Variants(m)) # <<>>
    PROVE  RequiredKeys \subseteq DOMAIN m
<1>1. "referenceTime" \in Concepts
  BY KeyOfIdentification DEF Key, Active
<1>2. Variants(m)["referenceTime"] # Throws
  BY <1>1, LayoutShape DEF LayoutOk, MatchersOk
<1> QED
  BY <1>1, <1>2 DEF Variants

(* What is written of the reference date is that of the request.           *)
LEMMA VariantOfReferenceTime ==
    ASSUME NEW m, LayoutFor(Variants(m)) # <<>>
    PROVE  /\ Variants(m)["referenceTime"] \in {"Standard", "Reforecast"}
           /\ Variants(m)["referenceTime"] = "Reforecast" => "referenceTime" \in Key(4, Variants(m))
<1> DEFINE v == Variants(m)
<1>1. "referenceTime" \in Active(v) /\ "referenceTime" \in Concepts
  BY KeyOfIdentification DEF Key, Active
<1>2. v["referenceTime"] # Throws
  BY <1>1, LayoutShape DEF LayoutOk, MatchersOk
<1>3. v["referenceTime"] = ReferenceTime(m)
  <2>1. CASE RequiredKeys \subseteq DOMAIN m
    BY <2>1 DEF Variants, ActiveVariants
  <2>2. CASE ~ RequiredKeys \subseteq DOMAIN m
    BY <1>1, <1>2, <2>2 DEF Variants
  <2> QED
    BY <2>1, <2>2
<1>4. v["referenceTime"] = "Reforecast" => "referenceTime" \in Key(4, v)
  BY <1>1, MaskOfReforecast DEF Key
<1> QED
  BY <1>3, <1>4 DEF ReferenceTime

----------------------------------------------------------------------------
(* The times of a message of encode() are those of an instant or of an     *)
(* interval.                                                               *)
(* What the two messages agree on that have the same times.                *)
SameTimes(out, final) ==
    \A k \in ClockKeys : /\ k \in DOMAIN out <=> k \in DOMAIN final
                         /\ k \in DOMAIN out => out[k] = final[k]

(* The cells that write the times of a message.                            *)
LEMMA DateCells ==
    ASSUME NEW r, NEW layout, layout = LayoutFor(Variants(r.mars)), layout # <<>>,
           AfterRows(layout, r)[Runtime + 1] # Failed,
           NEW out, SameTimes(out, Message(layout, r, Runtime + 1))
    PROVE  DatedBy(out, CallOf(r, Message(layout, r, Runtime)))
<1> DEFINE v == Variants(r.mars)
           vr == v["referenceTime"]
           before == Message(layout, r, Runtime)
           final == Message(layout, r, Runtime + 1)
           c == CallOf(r, before)
           W(p) == Cell(layout, Runtime + 1, p, r, before)
           one == <<1, "referenceTime">>
           four == <<4, "referenceTime">>
<1>0. /\ Runtime + 1 \in 1 .. Runtime + 1 /\ (Runtime + 1) - 1 = Runtime /\ Runtime \in Stages
      /\ Runtime = 3
  BY DEF Runtime, Stages
<1>1. one \in Plan(layout)
  <2>1. 1 \in Sections /\ "referenceTime" \in Key(1, v)
    BY KeyOfIdentification DEF Sections
  <2> QED
    BY <2>1, InPlan
<1>2. \A p \in Plan(layout) : W(p) # Refused
  BY <1>0, RowsOfEncode, RowLeaves
<1>3. \A p \in Plan(layout) : p[2] = "referenceTime" =>
          W(p) = ReferenceTimeConcept(Runtime, p[1], vr, c)
  BY <1>0, PlanIs DEF Cell, Callback
<1>4. vr \in {"Standard", "Reforecast"}
  BY VariantOfReferenceTime
<1>5. ASSUME NEW k \in ClockKeys, RowOf(k) = Runtime + 1
      PROVE  /\ k \in DOMAIN out <=> \E p \in Plan(layout) : k \in DOMAIN W(p)
             /\ k \in DOMAIN out => \E p \in Plan(layout) :
                    k \in DOMAIN W(p) /\ W(p)[k] # Failed /\ out[k] = W(p)[k][1]
  BY <1>0, <1>5, WrittenOnce DEF SameTimes
<1>6. ASSUME NEW p \in Plan(layout), NEW k \in ClockKeys, k \in DOMAIN W(p)
      PROVE  Owner(k, p[2], v[p[2]], Runtime, p[1])
  BY <1>0, <1>6, PlanIs, OnlyOwners DEF Cell
<1>7. W(one) = ReferenceTimeOp(Runtime, 1, vr, c) /\ W(one) # Refused
  BY <1>1, <1>2, <1>3, <1>4 DEF ReferenceTimeConcept, ReferenceTimeApplicable, IdentificationSection
<1>8. ProductTimeOk(c.m, c.misc)
  BY <1>7, <1>4 DEF ReferenceTimeOp
<1> DEFINE pt == ProductTime(c.m, c.misc)
           sig == ResolveSignificanceOfReferenceTime(c.m)
<1>9. CASE vr = "Standard"
  <2>1. W(one) = [significanceOfReferenceTime |-> sig, referenceDate |-> Found(pt.reference)]
    BY <1>7, <1>8, <1>9 DEF ReferenceTimeOp
  <2>2. "modelVersionDate" \notin DOMAIN out
    <3>1. "modelVersionDate" \in ClockKeys /\ RowOf("modelVersionDate") = Runtime + 1
      BY DEF ClockKeys, RowOf
    <3>2. ASSUME NEW p \in Plan(layout), "modelVersionDate" \in DOMAIN W(p) PROVE FALSE
      BY <1>6, <1>9, <3>1, <3>2 DEF Owner, LevelKeys
    <3> QED
      BY <1>5, <3>1, <3>2
  <2>3. ASSUME NEW k \in {"significanceOfReferenceTime", "referenceDate"}
        PROVE  W(one)[k] # Failed /\ out[k] = W(one)[k][1]
    <3>1. k \in ClockKeys /\ RowOf(k) = Runtime + 1 /\ k \in DOMAIN W(one)
      BY <2>1 DEF ClockKeys, RowOf
    <3>2. PICK p \in Plan(layout) : k \in DOMAIN W(p) /\ W(p)[k] # Failed /\ out[k] = W(p)[k][1]
      BY <1>1, <1>5, <3>1
    <3>3. p[2] = "referenceTime" /\ p[1] = 1
      BY <1>6, <3>1, <3>2 DEF Owner, LevelKeys, IdentificationSection
    <3>4. W(p) = W(one)
      BY <3>3 DEF Cell
    <3> QED
      BY <3>2, <3>4
  <2>4. sig = Found(sig[1])
    <3>1. sig # Failed
      BY <2>1, <2>3
    <3> QED
      BY <3>1 DEF ResolveSignificanceOfReferenceTime, If, Found, Failed
  <2>5. out["significanceOfReferenceTime"] = sig[1] /\ out["referenceDate"] = pt.reference
    BY <2>1, <2>3 DEF Found
  <2>6. ReferenceTimeOp(Runtime, 1, "Standard", c) =
            [significanceOfReferenceTime |-> Found(out.significanceOfReferenceTime),
             referenceDate |-> Found(out.referenceDate)]
    BY <1>7, <1>9, <2>1, <2>4, <2>5
  <2> QED
    BY <2>2, <2>6 DEF DatedBy, Has
<1>10. CASE vr = "Reforecast"
  <2>1. four \in Plan(layout)
    <3>1. 4 \in Sections /\ "referenceTime" \in Key(4, v)
      BY <1>10, VariantOfReferenceTime DEF Sections
    <3> QED
      BY <3>1, InPlan
  <2>2. W(four) = ReferenceTimeOp(Runtime, 4, "Reforecast", c) /\ W(four) # Refused
    BY <1>2, <1>3, <1>10, <2>1
        DEF ReferenceTimeConcept, ReferenceTimeApplicable, ProductDefinitionSection
  <2>3. W(four) = [modelVersionDate |-> Found(pt.reference)]
    BY <1>8, <2>2 DEF ReferenceTimeOp, Checked
  <2>4. "modelVersionDate" \in ClockKeys /\ RowOf("modelVersionDate") = Runtime + 1
    BY DEF ClockKeys, RowOf
  <2>5. "modelVersionDate" \in DOMAIN out
    BY <1>5, <2>1, <2>3, <2>4
  <2>6. PICK p \in Plan(layout) :
            "modelVersionDate" \in DOMAIN W(p) /\ out["modelVersionDate"] =
                W(p)["modelVersionDate"][1]
    BY <1>5, <2>4, <2>5
  <2>7. p[2] = "referenceTime" /\ p[1] = 4
    BY <1>6, <2>4, <2>6 DEF Owner, LevelKeys, ProductDefinitionSection
  <2>8. W(p) = W(four)
    BY <2>7 DEF Cell
  <2>9. out["modelVersionDate"] = pt.reference
    BY <2>3, <2>6, <2>8 DEF Found
  <2> QED
    BY <2>2, <2>3, <2>5, <2>9 DEF DatedBy, Has
<1> QED
  BY <1>4, <1>9, <1>10

LEMMA StatisticsIgnoreTheMessage ==
    ASSUME NEW v, NEW r, NEW out, NEW other
    PROVE  StatisticsOp(Preset, v, CallOf(r, out)) = StatisticsOp(Preset, v, CallOf(r, other))
BY DEF StatisticsOp, PresetStatistics, CallOf, Preset, Allocate, Runtime, Override

LEMMA TimeCells ==
    ASSUME NEW r, NEW layout, layout = LayoutFor(Variants(r.mars)), layout # <<>>,
           AfterRows(layout, r)[Runtime + 1] # Failed,
           NEW out, SameTimes(out, Message(layout, r, Runtime + 1)), Has(out, "forecastTime")
    PROVE  \/ AtInstant(out, CallOf(r, Message(layout, r, Runtime)))
           \/ \E v : OverInterval(out, v, CallOf(r, Message(layout, r, Runtime)))
<1> DEFINE v == Variants(r.mars)
           M(row) == Message(layout, r, row)
           c == CallOf(r, M(Runtime))
           W(row, p) == Cell(layout, row, p, r, M(row - 1))
           end == Runtime + 1
           early == Preset + 1
           mean == <<4, "statistics">>
<1>0. /\ end \in 1 .. Runtime + 1 /\ early \in 1 .. Runtime + 1
      /\ end - 1 = Runtime /\ early - 1 = Preset /\ Runtime \in Stages /\ Preset \in Stages
      /\ end = 4 /\ early = 2
  BY DEF Runtime, Preset, Stages
<1>1. \A row \in 1 .. Runtime + 1 : \A p \in Plan(layout) : W(row, p) # Refused
  BY RowsOfEncode, RowLeaves
<1>2. ASSUME NEW k \in ClockKeys
      PROVE  /\ k \in DOMAIN out <=> \E p \in Plan(layout) : k \in DOMAIN W(RowOf(k), p)
             /\ k \in DOMAIN out => \E p \in Plan(layout) :
                    /\ k \in DOMAIN W(RowOf(k), p) /\ W(RowOf(k), p)[k] # Failed
                    /\ out[k] = W(RowOf(k), p)[k][1]
  BY WrittenOnce DEF SameTimes
<1>3. ASSUME NEW row \in {early, end}, NEW p \in Plan(layout), NEW k \in ClockKeys,
          k \in DOMAIN W(row, p)
      PROVE  Owner(k, p[2], v[p[2]], row - 1, p[1])
  BY <1>0, <1>3, PlanIs, OnlyOwners DEF Cell
<1>4. PICK p \in Plan(layout) :
          /\ "forecastTime" \in DOMAIN W(end, p) /\ W(end, p)["forecastTime"] # Failed
          /\ out["forecastTime"] = W(end, p)["forecastTime"][1]
  <2>1. "forecastTime" \in ClockKeys /\ RowOf("forecastTime") = end
    BY DEF ClockKeys, RowOf
  <2> QED
    BY <1>2, <2>1 DEF Has
<1>5. p[2] \in {"pointInTime", "statistics"} /\ p[1] = 4
  BY <1>3, <1>4 DEF Owner, LevelKeys, ClockKeys, ProductDefinitionSection
<1>6. p[2] \in Key(4, v) /\ p[1] \in Sections /\ layout[p[1]].variants[p[2]] = v[p[2]]
  BY <1>5, PlanIs
<1>7. CASE p[2] = "pointInTime"
  <2>1. ~Has(out, "lengthOfTimeRange")
    <3>1. "lengthOfTimeRange" \in ClockKeys /\ RowOf("lengthOfTimeRange") = early
      BY DEF ClockKeys, RowOf
    <3>2. ASSUME NEW q \in Plan(layout), "lengthOfTimeRange" \in DOMAIN W(early, q) PROVE FALSE
      <4>1. q[2] = "statistics" /\ q[1] = 4
        BY <1>3, <3>1, <3>2 DEF Owner, LevelKeys, ProductDefinitionSection
      <4>2. "statistics" \in Key(4, v)
        BY <4>1, PlanIs
      <4> QED
        BY <1>6, <1>7, <4>2, KeyOfProduct
    <3> QED
      BY <1>2, <3>1, <3>2 DEF Has
  <2>2. W(end, p) = PointInTimeConcept(Runtime, 4, v["pointInTime"], c)
    BY <1>0, <1>5, <1>6, <1>7 DEF Cell, Callback
  <2>3. W(end, p) = PointInTimeOp(Runtime, c) /\ W(end, p) # Refused
    BY <1>0, <1>1, <2>2 DEF PointInTimeConcept, PointInTimeApplicable, ProductDefinitionSection
  <2> DEFINE pt == ProductTime(c.m, c.misc)
             step == ForecastTime(pt.reference, pt.windowEnd)
  <2>4. W(end, p) = [forecastTime |-> step] /\ step # Failed
    BY <2>3 DEF PointInTimeOp, Runtime, Allocate, Preset, Override
  <2>5. step = Found(step[1])
    BY <2>4 DEF ForecastTime, If, Found, Failed
  <2>6. out["forecastTime"] = step[1]
    BY <1>4, <2>4
  <2> QED
    BY <2>1, <2>3, <2>4, <2>5, <2>6 DEF AtInstant
<1>8. CASE p[2] = "statistics"
  <2> DEFINE vs == v["statistics"]
             first == W(early, mean)
             last == W(end, mean)
  <2>1. W(end, p) = last /\ mean \in Plan(layout)
    <3>1. <<4, "statistics">> \in Plan(layout)
      BY <1>5, <1>6, <1>8, InPlan
    <3> QED
      BY <1>5, <1>8, <3>1 DEF Cell
  <2>2. layout[4].variants["statistics"] = vs
    BY <1>5, <1>6, <1>8
  <2>3. last = StatisticsConcept(Runtime, 4, vs, c)
    BY <1>0, <2>2 DEF Cell, Callback
  <2>4. vs # "IndexProcessing" /\ last = StatisticsOp(Runtime, vs, c) /\ last # Refused
    BY <1>0, <1>1, <1>4, <2>1, <2>3
    DEF StatisticsConcept, StatisticsApplicable, ProductDefinitionSection, NoWrites
  <2> DEFINE c0 == CallOf(r, M(Preset))
  <2>5. first = StatisticsOp(Preset, vs, c0) /\ first # Refused
    <3>1. first = StatisticsConcept(Preset, 4, vs, c0)
      BY <1>0, <2>2 DEF Cell, Callback
    <3> QED
      BY <1>0, <1>1, <2>1, <2>4, <3>1
          DEF StatisticsConcept, StatisticsApplicable, ProductDefinitionSection
  <2> DEFINE pt == ProductTime(c.m, c.misc)
             types == TypesOfProcessing(c.m, OperationOf[vs])
             desc == Descriptor(pt, types)
  <2>6. first = [typeOfStatisticalProcessing |-> Found(desc.types),
                 lengthOfTimeRange |-> Found(desc.lengths),
                 timeIncrement |-> Found(desc.increments)]
    <3>1. c0.m = c.m /\ c0.misc = c.misc
      BY DEF CallOf
    <3> HIDE DEF c0, c
    <3>2. StatisticsOp(Preset, vs, c0) = PresetStatistics(pt, vs, c0)
      BY <2>4, <2>5, <3>1 DEF StatisticsOp, Preset, Allocate, Override, Runtime
    <3> QED
      BY <2>5, <3>1, <3>2 DEF PresetStatistics
  <2>7. last = [forecastTime |-> ForecastTime(pt.reference, pt.windowStart),
                endOfOverallTimeInterval |-> Found(pt.windowEnd)]
    BY <2>4 DEF StatisticsOp, RuntimeStatistics, Preset, Allocate, Override, Runtime
  <2>8. ASSUME NEW k \in {"typeOfStatisticalProcessing", "lengthOfTimeRange", "timeIncrement"}
        PROVE  k \in DOMAIN out /\ out[k] = first[k][1]
    <3>1. k \in ClockKeys /\ RowOf(k) = early /\ k \in DOMAIN first
      BY <2>6 DEF ClockKeys, RowOf
    <3>2. k \in DOMAIN out
      BY <1>2, <2>1, <3>1
    <3>3. PICK q \in Plan(layout) : k \in DOMAIN W(early, q) /\ out[k] = W(early, q)[k][1]
      BY <1>2, <3>1, <3>2
    <3>4. q[2] = "statistics" /\ q[1] = 4
      BY <1>3, <3>1, <3>3 DEF Owner, LevelKeys, ProductDefinitionSection
    <3>5. W(early, q) = first
      BY <3>4 DEF Cell
    <3> QED
      BY <3>2, <3>3, <3>5
  <2>9. ASSUME NEW k \in {"forecastTime", "endOfOverallTimeInterval"}
        PROVE  k \in DOMAIN out /\ out[k] = last[k][1] /\ last[k] # Failed
    <3>1. k \in ClockKeys /\ RowOf(k) = end /\ k \in DOMAIN last
      BY <2>7 DEF ClockKeys, RowOf
    <3>2. k \in DOMAIN out
      BY <1>2, <2>1, <3>1
    <3>3. PICK q \in Plan(layout) : k \in DOMAIN W(end, q) /\ W(end,
              q)[k] # Failed /\ out[k] = W(end, q)[k][1]
      BY <1>2, <3>1, <3>2
    <3>4. q[2] = "statistics" /\ q[1] = 4
      <4>1. q[1] = 4 /\ q[2] \in {"pointInTime", "statistics"}
        BY <1>3, <3>1, <3>3 DEF Owner, LevelKeys, ProductDefinitionSection
      <4>2. q[2] \in Key(4, v)
        BY <4>1, PlanIs
      <4> QED
        BY <1>5, <1>6, <1>8, <4>1, <4>2, KeyOfProduct
    <3>5. W(end, q) = last
      BY <3>4 DEF Cell
    <3> QED
      BY <3>2, <3>3, <3>5
  <2>10. StatisticsOp(Preset, vs, c) =
            [typeOfStatisticalProcessing |-> Found(out.typeOfStatisticalProcessing),
             lengthOfTimeRange |-> Found(out.lengthOfTimeRange),
             timeIncrement |-> Found(out.timeIncrement)]
    <3>1. StatisticsOp(Preset, vs, c) = first
      BY <2>5, StatisticsIgnoreTheMessage
    <3>2. /\ out["typeOfStatisticalProcessing"] = desc.types
          /\ out["lengthOfTimeRange"] = desc.lengths
          /\ out["timeIncrement"] = desc.increments
      BY <2>6, <2>8 DEF Found
    <3> QED
      BY <2>6, <3>1, <3>2
  <2>11. StatisticsOp(Runtime, vs, c) =
            [forecastTime |-> Found(out.forecastTime),
             endOfOverallTimeInterval |-> Found(out.endOfOverallTimeInterval)]
    <3> DEFINE step == ForecastTime(pt.reference, pt.windowStart)
    <3>1. step # Failed /\ out["forecastTime"] = step[1]
      BY <2>7, <2>9
    <3>2. step = Found(step[1])
      BY <3>1 DEF ForecastTime, If, Found, Failed
    <3>3. out["endOfOverallTimeInterval"] = pt.windowEnd
      BY <2>7, <2>9 DEF Found
    <3> QED
      BY <2>4, <2>7, <3>1, <3>2, <3>3
  <2>12. Has(out, "lengthOfTimeRange")
    BY <2>8 DEF Has
  <2> QED
    BY <2>10, <2>11, <2>12 DEF OverInterval
<1> QED
  BY <1>5, <1>7, <1>8

(* An interval has its length beside its end.                              *)
LEMMA EndWithLength ==
    ASSUME NEW r, NEW layout, layout = LayoutFor(Variants(r.mars)), layout # <<>>,
           AfterRows(layout, r)[Runtime + 1] # Failed,
           NEW out, SameTimes(out, Message(layout, r, Runtime + 1)),
           Has(out, "endOfOverallTimeInterval")
    PROVE  Has(out, "lengthOfTimeRange")
<1> DEFINE v == Variants(r.mars)
           M(row) == Message(layout, r, row)
           W(row, p) == Cell(layout, row, p, r, M(row - 1))
           end == Runtime + 1
           early == Preset + 1
           mean == <<4, "statistics">>
<1>0. /\ end \in 1 .. Runtime + 1 /\ early \in 1 .. Runtime + 1
      /\ end - 1 = Runtime /\ early - 1 = Preset /\ Runtime \in Stages /\ Preset \in Stages
  BY DEF Runtime, Preset, Stages
<1>1. "endOfOverallTimeInterval" \in ClockKeys /\ RowOf("endOfOverallTimeInterval") = end
  BY DEF ClockKeys, RowOf
<1>2. PICK p \in Plan(layout) : "endOfOverallTimeInterval" \in DOMAIN W(end, p)
  BY <1>1, WrittenOnce DEF SameTimes, Has
<1>3. p[2] = "statistics" /\ p[1] = 4
  <2>1. Owner("endOfOverallTimeInterval", p[2], layout[p[1]].variants[p[2]], Runtime, p[1])
    BY <1>0, <1>1, <1>2, PlanIs, OnlyOwners DEF Cell
  <2> QED
    BY <2>1 DEF Owner, LevelKeys, ClockKeys, ProductDefinitionSection
<1>4. p[2] \in Key(4, v) /\ layout[p[1]].variants[p[2]] = v[p[2]]
  BY <1>3, PlanIs
<1> DEFINE vs == v["statistics"]
<1>5. vs # "IndexProcessing"
  <2>1. W(end, p) = StatisticsConcept(Runtime, 4, vs, CallOf(r, M(Runtime)))
    BY <1>0, <1>3, <1>4 DEF Cell, Callback
  <2> QED
    BY <1>2, <2>1 DEF StatisticsConcept, StatisticsApplicable, NoWrites
<1>6. W(early, p) = StatisticsOp(Preset, vs, CallOf(r, M(Preset))) /\ W(early, p) # Refused
  <2>1. W(early, p) = StatisticsConcept(Preset, 4, vs, CallOf(r, M(Preset)))
    BY <1>0, <1>3, <1>4 DEF Cell, Callback
  <2>2. W(early, p) # Refused
    BY <1>0, RowsOfEncode, RowLeaves
  <2> QED
    BY <1>5, <2>1, <2>2 DEF StatisticsConcept, StatisticsApplicable, ProductDefinitionSection
<1>7. "lengthOfTimeRange" \in DOMAIN W(early, p)
  <2> DEFINE c == CallOf(r, M(Preset))
             w == W(early, p)
  <2>1. w = StatisticsOp(Preset, vs, c) /\ w # Refused
    BY <1>6
  <2> HIDE DEF c, w, vs
  <2>2. w = PresetStatistics(ProductTime(c.m, c.misc), vs, c)
    BY <1>5, <2>1 DEF StatisticsOp, Preset, Allocate, Override, Runtime
  <2>3. "lengthOfTimeRange" \in DOMAIN w
    BY <2>1, <2>2 DEF PresetStatistics
  <2> QED
    BY <2>3 DEF w
<1>8. "lengthOfTimeRange" \in ClockKeys /\ RowOf("lengthOfTimeRange") = early
  BY DEF ClockKeys, RowOf
<1> QED
  BY <1>7, <1>8, WrittenOnce DEF SameTimes, Has

(* The values of the field are written last and leave the times alone.     *)
LEMMA ValuesAreNoTimes ==
    ASSUME NEW misc, NEW values, NEW final
    PROVE  SameTimes(EncodeValues(misc, values) ++ final, final)
<1>1. \A k \in ClockKeys : k \notin DOMAIN EncodeValues(misc, values)
  BY DEF EncodeValues, ClockKeys, NoKeys, ++
<1> QED
  BY <1>1 DEF SameTimes, ++

(* A message of encode() says the time of its request, by its times of an  *)
(* instant or an interval.                                                 *)
LEMMA EncodedIsValid ==
    ASSUME NEW r, TypedRequest(r.mars), NoMonths(r.mars),
           NEW layout, layout = LayoutFor(Variants(r.mars)), layout # <<>>,
           AfterRows(layout, r)[Runtime + 1] # Failed,
           NEW out, SameTimes(out, Message(layout, r, Runtime + 1)), Has(out, "forecastTime")
    PROVE  /\ MessageTime(out) = RequestedTime(r.mars)
           /\ Has(out, "endOfOverallTimeInterval") =>
                 out.endOfOverallTimeInterval = RequestedTime(r.mars)
<1> DEFINE c == CallOf(r, Message(layout, r, Runtime))
<1>0. c.m = r.mars
  BY DEF CallOf
<1>1. DatedBy(out, c)
  BY DateCells
<1>2. AtInstant(out, c) \/ \E v : OverInterval(out, v, c)
  BY TimeCells
<1>3. TypedRequest(c.m) /\ NoMonths(c.m)
  BY <1>0
<1>4. CASE \E v : OverInterval(out, v, c)
  <2>1. PICK v : OverInterval(out, v, c)
    BY <1>4
  <2> HIDE DEF c
  <2>2. MessageTime(out) = RequestedTime(c.m) /\ out.endOfOverallTimeInterval = RequestedTime(c.m)
    BY <1>1, <1>3, <2>1, IntervalIsAsRequested
  <2> QED
    BY <1>0, <2>2
<1>5. CASE AtInstant(out, c)
  <2> HIDE DEF c
  <2>1. MessageTime(out) = RequestedTime(c.m)
    BY <1>1, <1>3, <1>5, InstantIsAsRequested
  <2> USE DEF c
  <2>2. ~Has(out, "endOfOverallTimeInterval")
    BY <1>5, EndWithLength DEF AtInstant
  <2> QED
    BY <1>0, <2>1, <2>2
<1> QED
  BY <1>2, <1>4, <1>5

----------------------------------------------------------------------------
(* The lengths of the intervals, and which messages have one.               *)
(* The lengths of an interval are those of its windows.                    *)
LEMMA LengthsOfInterval ==
    ASSUME NEW c, NEW out, NEW v, ProductTimeOk(c.m, c.misc), OverInterval(out, v, c)
    PROVE  LET pt == ProductTime(c.m, c.misc)
               types == TypesOfProcessing(c.m, OperationOf[v])
           IN  /\ TypesOk(c.m, OperationOf[v]) /\ DescriptorOk(pt, types)
               /\ out.lengthOfTimeRange = Descriptor(pt, types).lengths
<1> DEFINE pt == ProductTime(c.m, c.misc)
           types == TypesOfProcessing(c.m, OperationOf[v])
<1>1. StatisticsOp(Preset, v, c) =
          [typeOfStatisticalProcessing |-> Found(out.typeOfStatisticalProcessing),
           lengthOfTimeRange |-> Found(out.lengthOfTimeRange),
           timeIncrement |-> Found(out.timeIncrement)]
  BY DEF OverInterval
<1>2. StatisticsOp(Preset, v, c) # Refused /\ StatisticsOp(Preset, v, c) # NoWrites
  <2>1. "lengthOfTimeRange" \in DOMAIN StatisticsOp(Preset, v, c)
    BY <1>1
  <2> QED
    BY <2>1 DEF Refused, NoWrites
<1>3. StatisticsOp(Preset, v, c) = PresetStatistics(pt, v, c)
  BY <1>2 DEF StatisticsOp, Runtime, Override, Allocate, Preset
<1>4. TypesOk(c.m, OperationOf[v]) /\ DescriptorOk(pt, types)
  BY <1>2, <1>3 DEF PresetStatistics
<1>5. PresetStatistics(pt, v, c) =
          [typeOfStatisticalProcessing |-> Found(Descriptor(pt, types).types),
           lengthOfTimeRange |-> Found(Descriptor(pt, types).lengths),
           timeIncrement |-> Found(Descriptor(pt, types).increments)]
  BY <1>4 DEF PresetStatistics
<1>6. Found(out.lengthOfTimeRange) = Found(Descriptor(pt, types).lengths)
  BY <1>1, <1>3, <1>5
<1> QED
  BY <1>4, <1>6 DEF Found

(* Without a stattype the one window of an interval is the timespan.       *)
LEMMA LengthOfTimespan ==
    ASSUME NEW c, TypedRequest(c.m), ~Has(c.m, "stattype"), NEW out, NEW v,
           ProductTimeOk(c.m, c.misc), OverInterval(out, v, c)
    PROVE  /\ Has(c.m, "timespan") /\ c.m.timespan.u # "none"
           /\ out.lengthOfTimeRange[1] = ToSeconds(c.m.timespan) \div 3600
<1> DEFINE m == c.m
           in == ProductTimeInput(m, c.misc)
           pt == ProductTime(m, c.misc)
           types == TypesOfProcessing(m, OperationOf[v])
<1>1. DescriptorOk(pt, types) /\ out.lengthOfTimeRange = Descriptor(pt, types).lengths
  BY LengthsOfInterval
<1>2. InputOk(m, c.misc) /\ pt.windows = Windows(in) /\ in.kind = TimespanKind(m)
      /\ in.stattype = <<>> /\ in.timespan = Timespan(m)
  BY DEF ProductTimeOk, ProductTime, Make, ProductTimeInput, StattypeWindows
<1>3. Len(types) >= 1 /\ Len(types) = Len(pt.windows)
  <2>1. TypesOk(m, OperationOf[v])
    BY LengthsOfInterval
  <2> QED
    BY <1>1, <2>1, SomeOperation DEF DescriptorOk
<1> HIDE DEF in, pt, types, m
<1>4. TimespanKind(m) = "Duration"
  BY <1>2, <1>3 DEF Windows
<1>5. Has(m, "timespan") /\ m.timespan.u # "none"
  BY <1>4 DEF TimespanKind
<1>6. Timespan(m) = [unit |-> "second", count |-> ToSeconds(m.timespan)]
  BY <1>4 DEF Timespan
<1>7. pt.windows = <<Timespan(m)>>
  BY <1>2, <1>4 DEF Windows
<1>8. out.lengthOfTimeRange = [i \in 1 .. 1 |-> WindowLengthInHours(pt.windows[i], pt.windowEnd)]
  <2>1. Len(pt.windows) = 1
    BY <1>7
  <2> QED
    BY <1>1, <2>1 DEF Descriptor
<1>9. out.lengthOfTimeRange[1] = WindowLengthInHours(Timespan(m), pt.windowEnd)
  BY <1>7, <1>8
<1> QED
  BY <1>5, <1>6, <1>9 DEF WindowLengthInHours, m

(* An interval has its length beside its forecast time, and what has none  *)
(* is an instant; an index has neither.                                    *)
LEMMA InstantOrInterval ==
    ASSUME NEW r, NEW layout, layout = LayoutFor(Variants(r.mars)), layout # <<>>,
           AfterRows(layout, r)[Runtime + 1] # Failed,
           Statistics(r.mars.param) # "IndexProcessing"
    PROVE  LET final == Message(layout, r, Runtime + 1)
           IN  /\ Has(final, "forecastTime")
               /\ Has(final, "lengthOfTimeRange") \/ r.mars.param \in PointInTimeParams
<1> DEFINE v == Variants(r.mars)
           final == Message(layout, r, Runtime + 1)
           M(row) == Message(layout, r, row)
           W(row, p) == Cell(layout, row, p, r, M(row - 1))
           end == Runtime + 1
           early == Preset + 1
<1>0. /\ end \in 1 .. Runtime + 1 /\ early \in 1 .. Runtime + 1
      /\ end - 1 = Runtime /\ early - 1 = Preset /\ Runtime \in Stages /\ Preset \in Stages
  BY DEF Runtime, Preset, Stages
<1>1. \A row \in 1 .. Runtime + 1 : \A p \in Plan(layout) : W(row, p) # Refused
  BY RowsOfEncode, RowLeaves
<1>2. ASSUME NEW k \in {"forecastTime", "lengthOfTimeRange"}, NEW p \in Plan(layout),
             k \in DOMAIN W(RowOf(k), p)
      PROVE  Has(final, k)
  BY <1>2, WrittenOnce DEF ClockKeys, Has
<1>3. RowOf("forecastTime") = end /\ RowOf("lengthOfTimeRange") = early
  BY DEF RowOf
<1>4. v = ActiveVariants(r.mars)
  BY RequiredOfLayout DEF Variants
<1>5. \A k \in {"pointInTime", "statistics"} :
          k \in Key(4, v) => /\ <<4, k>> \in Plan(layout) /\ layout[4].variants[k] = v[k]
                             /\ v[k] # Missing
  <2>1. 4 \in Sections
    BY DEF Sections
  <2> QED
    BY <2>1, InPlan, PlanIs DEF Key, Active
<1>6. CASE "pointInTime" \in Key(4, v)
  <2> DEFINE p == <<4, "pointInTime">>
             c == CallOf(r, M(Runtime))
  <2>1. p \in Plan(layout) /\ layout[4].variants["pointInTime"] = v["pointInTime"]
    BY <1>5, <1>6
  <2>2. W(end, p) = PointInTimeOp(Runtime, c)
    <3>1. W(end, p) = PointInTimeConcept(Runtime, 4, v["pointInTime"], c)
      BY <1>0, <2>1 DEF Cell, Callback
    <3> QED
      BY <3>1 DEF PointInTimeConcept, PointInTimeApplicable, ProductDefinitionSection
  <2>3. W(end, p) # Refused
    BY <1>0, <1>1, <2>1
  <2>4. "forecastTime" \in DOMAIN W(end, p)
    <3> DEFINE w == W(end, p)
    <3> HIDE DEF w, c
    <3>1. w = PointInTimeOp(Runtime, c) /\ w # Refused
      BY <2>2, <2>3 DEF w
    <3>2. "forecastTime" \in DOMAIN w
      BY <3>1 DEF PointInTimeOp, Runtime, Allocate, Preset, Override
    <3> QED
      BY <3>2 DEF w
  <2>5. r.mars.param \in PointInTimeParams
    <3>1. PointInTime(r.mars.param) # Missing
      BY <1>4, <1>5, <1>6 DEF ActiveVariants
    <3> QED
      BY <3>1 DEF PointInTime
  <2> QED
    BY <1>2, <1>3, <2>1, <2>4, <2>5
<1>7. CASE "statistics" \in Key(4, v)
  <2> DEFINE p == <<4, "statistics">>
             vs == v["statistics"]
  <2>1. p \in Plan(layout) /\ layout[4].variants["statistics"] = vs
    BY <1>5, <1>7
  <2>2. vs # "IndexProcessing"
    BY <1>4 DEF ActiveVariants
  <2>3. ASSUME NEW row \in {early, end}
        PROVE  W(row, p) = StatisticsOp(row - 1, vs, CallOf(r, M(row - 1))) /\ W(row, p) # Refused
    <3>1. W(row, p) = StatisticsConcept(row - 1, 4, vs, CallOf(r, M(row - 1)))
      BY <2>1 DEF Cell, Callback
    <3>2. W(row, p) # Refused
      BY <1>0, <1>1, <2>1
    <3> QED
      BY <2>2, <3>1, <3>2 DEF StatisticsConcept, StatisticsApplicable, ProductDefinitionSection
  <2>4. ASSUME NEW c, NEW w, w = StatisticsOp(Preset, vs, c), w # Refused
        PROVE  "lengthOfTimeRange" \in DOMAIN w
    <3> HIDE DEF vs
    <3>1. w = PresetStatistics(ProductTime(c.m, c.misc), vs, c)
      BY <2>2, <2>4 DEF StatisticsOp, Preset, Allocate, Override, Runtime
    <3> QED
      BY <2>4, <3>1 DEF PresetStatistics
  <2>5. ASSUME NEW c, NEW w, w = StatisticsOp(Runtime, vs, c), w # Refused
        PROVE  "forecastTime" \in DOMAIN w
    <3> HIDE DEF vs
    <3>1. w = RuntimeStatistics(ProductTime(c.m, c.misc))
      BY <2>2, <2>5 DEF StatisticsOp, Preset, Allocate, Override, Runtime
    <3> QED
      BY <2>5, <3>1 DEF RuntimeStatistics
  <2>6. "lengthOfTimeRange" \in DOMAIN W(early, p) /\ "forecastTime" \in DOMAIN W(end, p)
    BY <1>0, <2>3, <2>4, <2>5
  <2> QED
    BY <1>2, <1>3, <2>1, <2>6
<1> QED
  BY <1>6, <1>7, KeyOfProduct

----------------------------------------------------------------------------
(* The level of a message.                                                 *)
LEMMA LevelIsAConcept == "level" \in Concepts
<1>1. 7 \in ConceptIds /\ EntryName(7) = "level"
  BY DEF ConceptIds, NConcepts, EntryName, AllConcepts, Entry
<1> QED
  BY <1>1 DEF Concepts

LEMMA MaskOfLevel == ASSUME NEW v PROVE CompressionMask(4, "level", v)
<1>1. Recipe(0, Instant) \in SectionRecipes(4)
  BY DEF SectionRecipes, Section4Recipes, BasicRecipes
<1>2. Takes(Recipe(0, Instant), "level", v)
  BY DEF Takes, Recipe, Instant
<1> QED
  BY <1>1, <1>2 DEF CompressionMask

(* A level that is not missing is written by the last stage, and for good. *)
LEMMA LevelLeft ==
    ASSUME NEW r, NEW layout, layout = LayoutFor(Variants(r.mars)), layout # <<>>,
           AfterRows(layout, r)[Runtime + 1] # Failed, Level(r.mars) # Missing
    PROVE  LET w == WriteLevel(Level(r.mars), CallOf(r, Message(layout, r, Runtime)))
               final == Message(layout, r, Runtime + 1)
           IN  \A k \in LevelKeys : k \in DOMAIN w =>
                   w[k] # Failed /\ k \in DOMAIN final /\ final[k] = w[k][1]
<1> DEFINE v == Variants(r.mars)
           M(row) == Message(layout, r, row)
           end == Runtime + 1
           W(p) == Cell(layout, end, p, r, M(Runtime))
           one == <<4, "level">>
           w == WriteLevel(Level(r.mars), CallOf(r, M(Runtime)))
<1>0. end \in 1 .. Runtime + 1 /\ end - 1 = Runtime /\ Runtime \in Stages
  BY DEF Runtime, Stages
<1>1. v["level"] = Level(r.mars)
  BY RequiredOfLayout DEF Variants, ActiveVariants
<1>2. "level" \in Key(4, v)
  BY <1>1, LevelIsAConcept, MaskOfLevel DEF Key, Active
<1>3. one \in Plan(layout) /\ layout[4].variants["level"] = v["level"]
  <2>1. 4 \in Sections
    BY DEF Sections
  <2> QED
    BY <1>2, <2>1, InPlan, PlanIs
<1>4. W(one) = w
  <2>1. W(one) = LevelConcept(Runtime, 4, v["level"], CallOf(r, M(Runtime)))
    BY <1>0, <1>3 DEF Cell, Callback
  <2> QED
    BY <1>1, <2>1 DEF LevelConcept, LevelApplicable, LevelOp, ProductDefinitionSection, Runtime,
       Allocate, Preset
<1>5. AfterRow(layout, end, r, Found(M(Runtime))) = Found(M(end))
  BY <1>0, RowsOfEncode
<1>6. ASSUME NEW k \in LevelKeys, NEW p \in Plan(layout), k \in DOMAIN W(p)
      PROVE  W(p) = W(one)
  <2>1. Owner(k, p[2], layout[p[1]].variants[p[2]], Runtime, p[1])
    BY <1>0, <1>6, PlanIs, OnlyOwners DEF Cell
  <2>2. p[2] = "level" /\ p[1] = 4
    BY <1>6, <2>1 DEF Owner, LevelKeys, ProductDefinitionSection
  <2> QED
    BY <2>2 DEF Cell
<1>7. ASSUME NEW k \in LevelKeys, k \in DOMAIN W(one)
      PROVE  W(one)[k] # Failed /\ k \in DOMAIN M(end) /\ M(end)[k] = W(one)[k][1]
  <2> HIDE DEF M, one, end
  <2>1. k \in DOMAIN M(end)
    BY <1>0, <1>3, <1>5, <1>7, RowLeaves
  <2>2. PICK p \in Plan(layout) : k \in DOMAIN W(p) /\ W(p)[k] # Failed /\ M(end)[k] = W(p)[k][1]
    BY <1>0, <1>3, <1>5, <1>7, RowLeaves
  <2> QED
    BY <1>6, <2>1, <2>2
<1> HIDE DEF w, W
<1> QED
  BY <1>4, <1>7 DEF W, w

(* The values of the field leave the level alone.                          *)
LEMMA ValuesAreNoLevel ==
    ASSUME NEW misc, NEW values, NEW final, NEW k \in LevelKeys
    PROVE  (EncodeValues(misc, values) ++ final)[k] = final[k]
           \/ k \notin DOMAIN final
<1>1. k \notin DOMAIN EncodeValues(misc, values)
  BY DEF EncodeValues, LevelKeys, NoKeys, ++
<1> QED
  BY <1>1 DEF ++
=============================================================================
