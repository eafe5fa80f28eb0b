------------------------------ MODULE GribMessage ------------------------------
(***************************************************************************)
(* A call of the encoder as a whole: the rows of an encoding plan, what    *)
(* one of them does to the message, and encode() as the sequence of them   *)
(* (frontend/header/SpecializedEncoder.h, CoreOperations.h).  Row 0 is the *)
(* section initializers, row i + 1 is stage i.                             *)
(***************************************************************************)
EXTENDS GribCallbacks

EmptyMessage == NoKeys

\* The layout for the variants of a request, or <<>> where the source throws.
LayoutFor(variants) == IF LayoutOk(variants) THEN Layout(variants) ELSE <<>>

\* The concepts of the sections: the cells of one row of the plan.
Plan(layout) == UNION {{s} \X DOMAIN layout[s].variants : s \in Sections}

RowWrites(layout, row, r, out) ==
    IF row = 0
    THEN Combine({Initialize(s, layout[s].template) : s \in Sections})
    ELSE Combine({Callback(p[2], layout[p[1]].variants[p[2]], row - 1, p[1], c) :
                     p \in Plan(layout), c \in {[m |-> r.mars, misc |-> r.misc, out |-> out]}})

Write(out, writes) == Values(writes) ++ out

\* <<message>> after a row, for one that was <<message>> before it, or Failed;
\* there is no message without a layout.
AfterRow(layout, row, r, before) ==
    IF layout = <<>> \/ before = Failed THEN Failed
    ELSE LET writes == RowWrites(layout, row, r, before[1])
         IN  If(Succeeds(writes), Write(before[1], writes))

Rows == 0 .. Runtime + 1

\* The message after each row, from an empty one.
AfterRows(layout, r) ==
    LET after[row \in Rows] ==
            LET before == IF row = 0 THEN Found(EmptyMessage) ELSE after[row - 1]
            IN  AfterRow(layout, row, r, before)
    IN  after

\* <<message>> of encode() for a request with this layout, or Failed.
Encode(layout, r, values) ==
    LET final == AfterRows(layout, r)[Runtime + 1]
    IN  IF final = Failed THEN Failed
        ELSE Found(EncodeValues(r.misc, values) ++ final[1])
----------------------------------------------------------------------------
(* The time a message says it is valid at: its reference date (that of the *)
(* model version for a reforecast), its forecast time, and the length of   *)
(* its overall interval.                                                   *)
OverallLength(out) == IF Has(out, "lengthOfTimeRange") THEN out.lengthOfTimeRange[1] ELSE 0

MessageTime(out) ==
    AddSeconds(IF Has(out, "modelVersionDate") THEN out.modelVersionDate ELSE out.referenceDate,
               3600 * (out.forecastTime + OverallLength(out)))

(* The time a request asks for, from its own keys: the start of the        *)
(* forecast and the step.                                                  *)
StartOfForecast(m) ==
    CASE Has(m, "fcyear") -> FirstOfForecastMonth(m)
      [] Has(m, "hdate") /\ ~Has(m, "fcyear") -> InitialConditions(m)
      [] ~Has(m, "hdate") /\ ~Has(m, "fcyear") -> Label(m)

RequestedTime(m) == AddSeconds(StartOfForecast(m), StepInSeconds(m))
=============================================================================
