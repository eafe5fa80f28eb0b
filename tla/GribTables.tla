------------------------------ MODULE GribTables ------------------------------
(***************************************************************************)
(* The code tables of GRIB that mars2grib goes through                     *)
(* (backend/tables/*.h): per table the enumeration with its codes, and the *)
(* three conversions of it.  The name of an enumerator (enum2name,         *)
(* name2enum) is abstracted to the enumerator; a conversion that throws    *)
(* is Failed, and long2enum only says which codes it takes.                *)
(***************************************************************************)
EXTENDS Dictionary

Codes(table) == {table[e] : e \in DOMAIN table}

Enumerator(table, code) ==
    IF code \in Codes(table)
    THEN Found(CHOOSE e \in DOMAIN table : table[e] = code) ELSE Failed
----------------------------------------------------------------------------
ProductionStatusOfProcessedData ==
    [OperationalProducts |-> 0, OperationalTestProducts |-> 1,
     ResearchProducts |-> 2, ReanalysisProducts |-> 3,
     TiggeOperational |-> 4, TiggeTest |-> 5, S2SOperationalProducts |-> 6,
     S2STestProducts |-> 7, UerraOperational |-> 8, UerraTest |-> 9,
     CopernicusRegionalReanalysis |-> 10,
     CopernicusRegionalReanalysisTest |-> 11, DestinationEarth |-> 12,
     DestinationEarthTest |-> 13, Missing |-> 255]

ProductionStatusOfProcessedDataName(code) ==
    Enumerator(ProductionStatusOfProcessedData, code)
NameToProductionStatusOfProcessedData(name) ==
    Get(ProductionStatusOfProcessedData, name)
LongToProductionStatusOfProcessedData == Codes(ProductionStatusOfProcessedData)

TypeOfProcessedData ==
    [AnalysisProducts |-> 0, ForecastProducts |-> 1,
     AnalysisAndForecastProducts |-> 2, ControlForecastProducts |-> 3,
     PerturbedForecastProducts |-> 4,
     ControlAndPerturbedForecastProducts |-> 5,
     ProcessedSatelliteObservations |-> 6, ProcessedRadarObservations |-> 7,
     EventProbability |-> 8, ExperimentalData |-> 9, MlBasedForecast |-> 10,
     Missing |-> 255]

NameToTypeOfProcessedData ==
    [an |-> TypeOfProcessedData.AnalysisProducts,
     fc |-> TypeOfProcessedData.ForecastProducts,
     af |-> TypeOfProcessedData.AnalysisAndForecastProducts,
     cf |-> TypeOfProcessedData.ControlForecastProducts,
     pf |-> TypeOfProcessedData.PerturbedForecastProducts,
     cp |-> TypeOfProcessedData.ControlAndPerturbedForecastProducts,
     sa |-> TypeOfProcessedData.ProcessedSatelliteObservations,
     ra |-> TypeOfProcessedData.ProcessedRadarObservations,
     ep |-> TypeOfProcessedData.EventProbability,
     missing |-> TypeOfProcessedData.Missing] ++
    [k \in {"9", "10"} |-> IF k = "9" THEN TypeOfProcessedData.ExperimentalData
                                      ELSE TypeOfProcessedData.MlBasedForecast]
TypeOfProcessedDataName(code) == Enumerator(NameToTypeOfProcessedData, code)
LongToTypeOfProcessedData == Codes(TypeOfProcessedData)

SignificanceOfReferenceTime ==
    [Analysis |-> 0, ForecastStart |-> 1, ForecastVerification |-> 2,
     ObservationTime |-> 3, LocalTime |-> 4, SimulationStart |-> 5,
     AssimilationStart |-> 6, Missing |-> 255]

SignificanceOfReferenceTimeName(code) ==
    Enumerator(SignificanceOfReferenceTime, code)

\* The name of the start of an assimilation is read as that of a simulation.
NameToSignificanceOfReferenceTime(name) ==
    Get([SignificanceOfReferenceTime EXCEPT !.AssimilationStart = @ - 1], name)

ShapeOfTheReferenceSystem ==
    [EarthSphericalRadius6367470 |-> 0, EarthSphericalRadiusSpecified |-> 1,
     EarthOblateIAU1965 |-> 2, EarthOblateAxesKmSpecified |-> 3,
     EarthOblateIAGGRS80 |-> 4, EarthWGS84 |-> 5,
     EarthSphericalRadius6371229 |-> 6, EarthOblateAxesMetersSpecified |-> 7,
     EarthSphericalRadius6371200WGS84Datum |-> 8,
     EarthOSGB1936Airy1830 |-> 9, EarthWGS84CorrectedGeomagnetic |-> 10,
     SunSphericalStonyhurst |-> 11, Missing |-> 255]

ShapeOfTheReferenceSystemName(code) ==
    Enumerator(ShapeOfTheReferenceSystem, code)
NameToShapeOfTheReferenceSystem(name) == Get(ShapeOfTheReferenceSystem, name)
LongToShapeOfTheReferenceSystem == Codes(ShapeOfTheReferenceSystem)

TimeUnit ==
    [Minute |-> 0, Hour |-> 1, Day |-> 2, Month |-> 3, Year |-> 4,
     Decade |-> 5, Normal |-> 6, Century |-> 7, Hours3 |-> 10, Hours6 |-> 11,
     Hours12 |-> 12, Second |-> 13, Missing |-> 255]

TimeUnitName(code) == Enumerator(TimeUnit, code)
NameToTimeUnit(name) == Get(TimeUnit, name)

BackgroundProcess ==
    [aifs_single |-> 1, aifs_ens |-> 2, aifs_single_mse |-> 3,
     aifs_ens_crps |-> 4, aifs_ens_diff |-> 5, aifs_compo_single |-> 6,
     aifs_compo_ens |-> 7, aifs_compo_single_mse |-> 8,
     aifs_compo_ens_crps |-> 9, aifs_subs |-> 10, aifs_subs_crps |-> 11,
     ifs |-> 255]

NameToBackgroundProcess ==
    [k \in {"aifs-single", "aifs-ens", "aifs-single-mse",
            "aifs-ens-crps", "aifs-ens-diff", "aifs-compo-single",
            "aifs-compo-ens", "aifs-compo-single-mse",
            "aifs-compo-ens-crps", "aifs-subs", "aifs-subs-crps", "IFS"} |->
        CASE k = "aifs-single" -> BackgroundProcess.aifs_single
          [] k = "aifs-ens" -> BackgroundProcess.aifs_ens
          [] k = "aifs-single-mse" -> BackgroundProcess.aifs_single_mse
          [] k = "aifs-ens-crps" -> BackgroundProcess.aifs_ens_crps
          [] k = "aifs-ens-diff" -> BackgroundProcess.aifs_ens_diff
          [] k = "aifs-compo-single" -> BackgroundProcess.aifs_compo_single
          [] k = "aifs-compo-ens" -> BackgroundProcess.aifs_compo_ens
          [] k = "aifs-compo-single-mse" ->
                 BackgroundProcess.aifs_compo_single_mse
          [] k = "aifs-compo-ens-crps" -> BackgroundProcess.aifs_compo_ens_crps
          [] k = "aifs-subs" -> BackgroundProcess.aifs_subs
          [] k = "aifs-subs-crps" -> BackgroundProcess.aifs_subs_crps
          [] k = "IFS" -> BackgroundProcess.ifs]
BackgroundProcessName(code) == Enumerator(NameToBackgroundProcess, code)

TypeOfGeneratingProcess ==
    [Analysis |-> 0, Initialization |-> 1, Forecast |-> 2,
     BiasCorrectedForecast |-> 3, EnsembleForecast |-> 4,
     ProbabilityForecast |-> 5, ForecastError |-> 6, AnalysisError |-> 7,
     Observation |-> 8, Climatological |-> 9,
     ProbabilityWeightedForecast |-> 10,
     BiasCorrectedEnsembleForecast |-> 11, PostProcessedAnalysis |-> 12,
     PostProcessedForecast |-> 13, Nowcast |-> 14, Hindcast |-> 15,
     PhysicalRetrieval |-> 16, RegressionAnalysis |-> 17,
     DifferenceBetweenTwoForecasts |-> 18, FirstGuess |-> 19,
     AnalysisIncrement |-> 20, InitializationIncrementForAnalysis |-> 21,
     BlendedForecast |-> 22, Missing |-> 255]

TypeOfGeneratingProcessName(code) == Enumerator(TypeOfGeneratingProcess, code)
NameToTypeOfGeneratingProcess(name) == Get(TypeOfGeneratingProcess, name)

DerivedForecast ==
    [UnweightedMeanAllMembers |-> 0, WeightedMeanAllMembers |-> 1,
     StdDevClusterMean |-> 2, StdDevClusterMeanNormalized |-> 3,
     SpreadAllMembers |-> 4, LargeAnomalyIndexAllMembers |-> 5,
     UnweightedMeanClusterMembers |-> 6, InterquartileRange |-> 7,
     MinimumAllMembers |-> 8, MaximumAllMembers |-> 9,
     VarianceAllMembers |-> 10, Missing |-> 255]

DerivedForecastName(code) == Enumerator(DerivedForecast, code)
NameToDerivedForecast(name) == Get(DerivedForecast, name)
LongToDerivedForecast == Codes(DerivedForecast)

TypeOfEnsembleForecast ==
    [UnperturbedHighResControl |-> 0, UnperturbedLowResControl |-> 1,
     NegativelyPerturbed |-> 2, PositivelyPerturbed |-> 3, MultiModel |-> 4,
     Unperturbed |-> 5, Perturbed |-> 6,
     InitialConditionsPerturbations |-> 7, ModelPhysicsPerturbations |-> 8,
     InitialAndModelPhysicsPerturbations |-> 9, Missing |-> 255]

TypeOfEnsembleForecastName(code) == Enumerator(TypeOfEnsembleForecast, code)
NameToTypeOfEnsembleForecast(name) == Get(TypeOfEnsembleForecast, name)
LongToTypeOfEnsembleForecast == Codes(TypeOfEnsembleForecast)

TypeOfInterval ==
    [SmallerThanFirstLimit |-> 0, GreaterThanSecondLimit |-> 1,
     BetweenFirstInclusiveSecondExclusive |-> 2, GreaterThanFirstLimit |-> 3,
     SmallerThanSecondLimit |-> 4, SmallerOrEqualFirstLimit |-> 5,
     GreaterOrEqualSecondLimit |-> 6,
     BetweenFirstInclusiveSecondInclusive |-> 7,
     GreaterOrEqualFirstLimit |-> 8, SmallerOrEqualSecondLimit |-> 9,
     BetweenFirstExclusiveSecondInclusive |-> 10, EqualFirstLimit |-> 11,
     Missing |-> 255]

TypeOfIntervalName(code) == Enumerator(TypeOfInterval, code)
NameToTypeOfInterval(name) == Get(TypeOfInterval, name)
LongToTypeOfInterval == Codes(TypeOfInterval)

TypeOfStatisticalProcessing ==
    [Average |-> 0, Accumulation |-> 1, Maximum |-> 2, Minimum |-> 3,
     DifferenceEndMinusStart |-> 4, RootMeanSquare |-> 5,
     StandardDeviation |-> 6, Covariance |-> 7,
     DifferenceStartMinusEnd |-> 8, Ratio |-> 9, StandardizedAnomaly |-> 10,
     Summation |-> 11, ReturnPeriod |-> 12, Median |-> 13, Severity |-> 100,
     Mode |-> 101, IndexProcessing |-> 102, Missing |-> 255]

TypeOfStatisticalProcessingName(code) ==
    Enumerator(TypeOfStatisticalProcessing, code)
NameToTypeOfStatisticalProcessing(name) ==
    Get(TypeOfStatisticalProcessing, name)

TypeOfTimeIntervals ==
    [Reserved |-> 0, SameForecastTimeStartIncremented |-> 1,
     SameStartTimeForecastIncremented |-> 2,
     StartIncrementedForecastDecrementedConstantValid |-> 3,
     StartDecrementedForecastIncrementedConstantValid |-> 4,
     FloatingSubinterval |-> 5, Missing |-> 255]

TypeOfTimeIntervalsName(code) == Enumerator(TypeOfTimeIntervals, code)
NameToTypeOfTimeIntervals(name) == Get(TypeOfTimeIntervals, name)
LongToTypeOfTimeIntervals == Codes(TypeOfTimeIntervals)
===============================================================================
