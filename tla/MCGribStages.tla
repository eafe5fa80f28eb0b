----------------------------- MODULE MCGribStages -----------------------------
(***************************************************************************)
(* Requests that reach each family of recipes, in pairs or more that       *)
(* differ in one key.                                                      *)
(***************************************************************************)
EXTENDS GribStages, TLC

\* With another value of, or with also, the keys of f.
With(m, f) == f @@ m
Without(m, keys) == [k \in DOMAIN m \ keys |-> m[k]]

Hours6  == [n |-> 6, u |-> "h"]
Hours12 == [n |-> 12, u |-> "number"]

Surface ==
    [class |-> "od", stream |-> "oper", type |-> "fc", expver |-> "0001", param |-> 167,
     levtype |-> "sfc", grid |-> "reduced_gg", packing |-> "ccsds",
     date |-> 20240229, time |-> 120000, step |-> Hours6]

On(levtype, param, level) ==
    With(Surface, [levtype |-> levtype, param |-> param, levelist |-> level])

Plain(mars) == [mars |-> mars, misc |-> NoKeys]
And(mars, misc) == [mars |-> mars, misc |-> misc]

Instants ==
    {Plain(Surface), Plain(With(Surface, [step |-> Hours12])),
     Plain(With(Surface, [date |-> 20240301])),
     Plain(With(Surface, [step |-> [n |-> 90, u |-> "m"]])),
     Plain(On("pl", 130, 50000)), Plain(On("pl", 130, 85000)), Plain(On("pl", 130, 50)),
     Plain(On("ml", 130, 100)), Plain(On("ml", 130, 101)),
     Plain(On("sol", 260199, 1)), Plain(On("sol", 260199, 2)),
     And(Surface, [bitmapPresent |-> Bool(TRUE)])}

Accumulated ==
    With(Surface, [param |-> 228, step |-> Hours12, timespan |-> Hours6])
Monthly(inner, span) ==
    With(Surface, [class |-> "e6", stream |-> "sttd", param |-> 235168, date |-> 20240201,
                   time |-> 0, step |-> [n |-> 29, u |-> "d"], timespan |-> span,
                   stattype |-> <<<<"mo", inner>>>>])
NoSpan == [n |-> 0, u |-> "none"]
Hourly == [timeIncrementInSeconds |-> 3600]

Intervals ==
    {And(Accumulated, Hourly), And(With(Accumulated, [timespan |-> Hours12]), Hourly),
     And(With(Accumulated, [step |-> [n |-> 18, u |-> "h"]]), Hourly),
     Plain(Accumulated),
     And(Monthly("av", NoSpan), Hourly), And(Monthly("mx", NoSpan), Hourly),
     And(With(Monthly("av", NoSpan), [step |-> [n |-> 30, u |-> "d"]]), Hourly),
     And(With(Monthly("av", NoSpan), [date |-> 20240301, step |-> [n |-> 31, u |-> "d"]]),
         Hourly),
     And(With(Monthly("mx", Hours6), [class |-> "od"]), Hourly),
     And(With(Monthly("mx", [n |-> 24, u |-> "h"]),
              [class |-> "od", stattype |-> <<<<"mo", "av">>, <<"da", "mx">>>>]), Hourly)}

Size51 == [numberOfForecastsInEnsemble |-> 51]
Member(n) == With(Surface, [type |-> "pf", number |-> n])
Ensembles ==
    {And(Member(1), Size51), And(Member(2), Size51), And(Member(60), Size51),
     And(With(Surface, [type |-> "em"]), Size51), And(With(Surface, [type |-> "es"]), Size51),
     And(With(Accumulated, [type |-> "efi", param |-> 132144]), Size51 @@ Hourly),
     And(With(Member(1), [hdate |-> 20040229]), Size51),
     And(With(Member(1), [hdate |-> 20040228]), Size51),
     Plain(With(Surface, [hdate |-> 20040229])),
     Plain(With(Surface, [fcyear |-> 2024, fcmonth |-> 3])),
     Plain(With(Surface, [type |-> "ep", param |-> 131074]))}

Spectrum(direction) ==
    And(With(Surface, [param |-> 140251, direction |-> direction, frequency |-> 1]),
        [numberOfWaveDirections |-> 36, numberOfWaveFrequencies |-> 36,
         indexOfReferenceWaveFrequency |-> 6, referenceWaveFrequency |-> 1,
         waveFrequencySpacingRatio |-> 1])
Sounding == [satelliteSeries |-> 3, scaleFactorOfCentralWaveNumber |-> 0,
             scaledValueOfCentralWaveNumber |-> 5]
Channel(n) ==
    And(With(Without(Surface, {"levtype"}),
             [param |-> 260510, packing |-> "simple", channel |-> n, ident |-> 206,
              instrument |-> 207]),
        [bitsPerValue |-> 16] @@ Sounding)
Chemical(species) == Plain(With(On("ml", 401000, 60), [chem |-> species]))
Climate(n) ==
    Plain(With(Surface,
               [class |-> "d1", stream |-> "clte", dataset |-> "climate-dt", activity |-> "a",
                experiment |-> "e", resolution |-> "high", model |-> "IFS-FESOM",
                generation |-> n, realization |-> 1]))
Analysis4D == With(Surface, [type |-> "4v", anoffset |-> 3])

Others ==
    {Spectrum(1), Spectrum(2), Plain(With(Surface, [param |-> 140114])),
     And(With(Surface, [param |-> 140114]), [iTmin |-> 10]),
     Channel(5), Channel(6), Chemical(222), Chemical(6), Chemical(901), Chemical(499),
     Climate(1), Climate(2),
     Plain(With(Surface, [class |-> "d1", dataset |-> "extremes-dt"])),
     Plain(With(Surface, [method |-> 1, system |-> 5])),
     Plain(With(Surface, [method |-> 2, system |-> 5])),
     Plain(With(Surface, [type |-> "an", iteration |-> 0])),
     Plain(Analysis4D), Plain(With(Analysis4D, [iteration |-> 1])),
     And(With(Surface, [type |-> "me", number |-> 1]),
         [numberOfComponents |-> 2, modelErrorType |-> 1]),
     Plain(With(Without(On("pl", 130, 50000), {"grid"}),
                [truncation |-> 639, packing |-> "complex"]))}

MCPrepared ==
    {Plain(Surface), Plain(On("pl", 130, 50000)), Plain(On("pl", 130, 50)),
     Plain(On("ml", 130, 100)), Plain(On("sol", 260199, 1)), And(Accumulated, Hourly),
     And(Monthly("av", NoSpan), Hourly), And(With(Member(1), [hdate |-> 20040229]), Size51),
     Spectrum(1), Chemical(499), And(Member(60), Size51),
     Plain(With(Surface, [step |-> [n |-> 90, u |-> "m"]]))}

MCRequests == Instants \cup Intervals \cup Ensembles \cup Others
----------------------------------------------------------------------------
\* The tables of GRIB that are inverses of each other.
RoundTrips(table, Name(_), FromName(_)) ==
    \A code \in Codes(table) : FromName(Name(code)[1]) = Found(code)

ASSUME TablesRoundTrip ==
    /\ RoundTrips(ProductionStatusOfProcessedData, ProductionStatusOfProcessedDataName,
                  NameToProductionStatusOfProcessedData)
    /\ RoundTrips(ShapeOfTheReferenceSystem, ShapeOfTheReferenceSystemName,
                  NameToShapeOfTheReferenceSystem)
    /\ RoundTrips(TimeUnit, TimeUnitName, NameToTimeUnit)
    /\ RoundTrips(TypeOfGeneratingProcess, TypeOfGeneratingProcessName,
                  NameToTypeOfGeneratingProcess)
    /\ RoundTrips(DerivedForecast, DerivedForecastName, NameToDerivedForecast)
    /\ RoundTrips(TypeOfEnsembleForecast, TypeOfEnsembleForecastName,
                  NameToTypeOfEnsembleForecast)
    /\ RoundTrips(TypeOfInterval, TypeOfIntervalName, NameToTypeOfInterval)
    /\ RoundTrips(TypeOfStatisticalProcessing, TypeOfStatisticalProcessingName,
                  NameToTypeOfStatisticalProcessing)
    /\ RoundTrips(TypeOfTimeIntervals, TypeOfTimeIntervalsName, NameToTypeOfTimeIntervals)
    /\ \A code \in LongToTypeOfProcessedData :
           NameToTypeOfProcessedData[TypeOfProcessedDataName(code)[1]] = code
    /\ \A code \in Codes(BackgroundProcess) :
           NameToBackgroundProcess[BackgroundProcessName(code)[1]] = code

\* The one that is not: the start of an assimilation.
ASSUME SignificanceDoesNot ==
    {code \in Codes(SignificanceOfReferenceTime) :
        NameToSignificanceOfReferenceTime(SignificanceOfReferenceTimeName(code)[1])
            # Found(code)} = {SignificanceOfReferenceTime.AssimilationStart}
=============================================================================
