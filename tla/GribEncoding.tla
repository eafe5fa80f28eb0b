----------------------------- MODULE GribEncoding -----------------------------
(***************************************************************************)
(* What each GRIB concept writes into the message, where it is applicable  *)
(* (backend/concepts/<concept>/<concept>Encoding.h; GribCallbacks says     *)
(* where that is), and what the initializer of a section writes before any *)
(* concept does (backend/sections/initializers).                           *)
(*                                                                         *)
(* A message is a function from the keys that were set to their values.  A *)
(* concept returns writes: a function from keys to deductions, <<v>> or    *)
(* Failed, and one Failed among them is the exception that ends the call.  *)
(* c is the call: request m, auxiliary dictionary misc, the message so far *)
(* (out), and v the variant of the concept in the layout of section s.     *)
(***************************************************************************)
EXTENDS GribLayout, GribDeductions

CONSTANTS
    ApplyChecks,        \* the option applyChecks
    Compression         \* the option enableBitsPerValueCompression

ASSUME OptionsAssumption == ApplyChecks \in BOOLEAN /\ Compression \in BOOLEAN

Refused  == [refused |-> Failed]
MissingValue == "missing"

\* if (value.has_value()) set_or_throw(out, key, value)
Optional(writes) == [k \in {j \in DOMAIN writes : writes[j] # Found(Absent)} |-> writes[k]]

Checked(condition, writes) == IF ApplyChecks /\ ~condition THEN Refused ELSE writes

\* The checks: what an earlier stage has written must be what the concept needs.
\* They read with get_or_throw, so that a key that is missing throws too.
Reads(out, key, values) == Has(out, key) /\ out[key] \in values

MatchLocalDefinitionNumber(out, numbers) ==
    Has(out, "localUsePresent") /\ Reads(out, "localDefinitionNumber", numbers)
MatchProductDefinition(out, numbers)  == Reads(out, "productDefinitionTemplateNumber", numbers)
MatchGridDefinition(out, numbers)     == Reads(out, "gridDefinitionTemplateNumber", numbers)
MatchDataRepresentation(out, numbers) == Reads(out, "dataRepresentationTemplateNumber", numbers)
CheckLocalUseSection(out) == Has(out, "localUsePresent")
CheckDestinELocalSection(out) ==
    Has(out, "localUsePresent") /\ Reads(out, "productionStatusOfProcessedData", {12})
MatchDataset(out, dataset) == Reads(out, "dataset", {dataset})

\* Which keys a template has is eccodes's: the product definition templates
\* (code table 4.0) over a time interval, of a member and of all members.
IntervalTemplates == {8, 11, 12, 42, 43, 46, 61, 78, 79, 85, 107, 122}
MemberTemplates   == {1, 11, 33, 41, 43, 45, 49, 60, 61, 77, 79, 85, 100, 104, 142, 143}
DerivedTemplates  == {2, 12, 107}
CheckStatistics(out) == MatchProductDefinition(out, IntervalTemplates)
CheckEnsemble(out)   == MatchProductDefinition(out, MemberTemplates)
CheckDerived(out)    == MatchProductDefinition(out, DerivedTemplates)
----------------------------------------------------------------------------
(* The initializers of the sections.                                       *)

LocalUse(number) == [localUsePresent |-> Found(1), localDefinitionNumber |-> Found(number)]

DestinELocalUse(dataset) ==
    LocalUse(1) ++ [productionStatusOfProcessedData |-> Found(12), dataset |-> Found(dataset)]

InitializeLocalUse(template) ==
    CASE template = 1001 -> DestinELocalUse("climate-dt")
      [] template = 1002 -> DestinELocalUse("extremes-dt")
      [] OTHER           -> LocalUse(template)

\* The spectral defaults that eccodes needs before it takes template 50.
InitializeGrid(template) ==
    CASE template = 50 ->
           [gridDefinitionTemplateNumber |-> Found(50), bitsPerValue |-> Found(16),
            values |-> Found("six"), spectralMode |-> Found(1)]
      [] template = 1000 -> NoWrites
      [] OTHER -> [gridDefinitionTemplateNumber |-> Found(template)]

InitializeProduct(template) == [productDefinitionTemplateNumber |-> Found(template)]

InitializeData(template) == [dataRepresentationTemplateNumber |-> Found(template)]

RegisteredTemplates(s) ==
    CASE s \in {0, 1} -> {0}
      [] s = 2 -> {1, 15, 20, 24, 25, 36, 37, 38, 39, 1000, 1001, 1002, 1004}
      [] s = 3 -> {0, 40, 50, 101, 150, 1000}
      [] s = 4 -> {0, 1, 2, 8, 11, 12, 32, 33, 40, 41, 42, 43, 50, 45, 46, 85, 48, 49,
                   60, 61, 76, 77, 78, 79, 99, 100, 103, 104, 107, 121, 122, 142, 143}
      [] s = 5 -> {0, 42, 51}

Initialize(s, template) ==
    IF template \notin RegisteredTemplates(s) THEN NoWrites
    ELSE CASE s \in {0, 1} -> NoWrites
           [] s = 2 -> InitializeLocalUse(template)
           [] s = 3 -> InitializeGrid(template)
           [] s = 4 -> InitializeProduct(template)
           [] s = 5 -> InitializeData(template)
----------------------------------------------------------------------------
(* Section 1, identification.                                              *)

OriginOp(c) ==
    [centre |-> ResolveCentre(c.m), subCentre |-> ResolveSubCentre(c.misc)]

TablesOp ==
    [tablesVersion |-> ResolveTablesVersionLatest,
     localTablesVersion |-> ResolveLocalTablesVersion]

DataTypeOp(c) ==
    [typeOfProcessedData |-> ResolveTypeOfProcessedData(c.m, c.misc),
     productionStatusOfProcessedData |-> ResolveProductionStatus(c.m)]

\* The reference date stands for year, month, day, hour, minute and second.
ReferenceTimeOp(stage, s, v, c) ==
    IF stage # Runtime \/ (s = 4 /\ v = "Standard") THEN NoWrites
    ELSE IF ~ProductTimeOk(c.m, c.misc) THEN Refused
    ELSE LET pt == ProductTime(c.m, c.misc)
         IN  IF s = 1
             THEN [significanceOfReferenceTime |-> ResolveSignificanceOfReferenceTime(c.m),
                   referenceDate |-> Found(IF v = "Standard" THEN pt.reference ELSE pt.label)]
             ELSE Checked(MatchProductDefinition(c.out, {60, 61}),
                          [modelVersionDate |-> Found(pt.reference)])
----------------------------------------------------------------------------
(* Section 2, local use.                                                   *)

MarsOp(c) ==
    Checked(CheckLocalUseSection(c.out),
            [marsClass |-> ResolveClass(c.m), marsType |-> ResolveType(c.m),
             marsStream |-> ResolveStream(c.m), expver |-> ResolveExpver(c.m)])

LongrangeOp(c) ==
    Checked(MatchLocalDefinitionNumber(c.out, {15}),
            [methodNumber |-> ResolveMethodNumber(c.m),
             systemNumber |-> ResolveSystemNumber(c.m)])

IterationOp(c) ==
    Checked(MatchLocalDefinitionNumber(c.out, {20, 38}),
            [iterationNumber |-> ResolveIterationNumber(c.m)] ++
            Optional([totalNumberOfIterations |->
                         ResolveTotalNumberOfIterations(c.misc)]))

\* In hours; 0xFFFF when there is no window.
LengthOf4DvarWindow(misc) ==
    LET seconds == ResolveLengthOfTimeWindowInSeconds(misc)
    IN  IF seconds = Found(Absent) THEN Found(65535) ELSE Found(seconds[1] \div 3600)

AnalysisOp(c) ==
    Checked(MatchLocalDefinitionNumber(c.out, 36 .. 39),
            [offsetToEndOf4DvarWindow |-> ResolveOffsetToEndOf4DvarWindow(c.m),
             lengthOf4DvarWindow |-> LengthOf4DvarWindow(c.misc)])

ModelErrorOp(v, c) ==
    IF v = "FourierCoefficients" THEN Refused
    ELSE Checked(MatchLocalDefinitionNumber(c.out, {25, 39}),
                 [componentIndex |-> ResolveComponentIndex(c.m),
                  numberOfComponents |-> ResolveNumberOfComponents(c.misc),
                  modelErrorType |-> ResolveModelErrorType(c.misc)])

BrightnessTemperatureOp(v, c) ==
    Checked(MatchLocalDefinitionNumber(c.out, {37}),
            [numberOfFrequencies |-> ResolveNumberOfFrequencies(c.misc)] ++
            (IF v = "EnsembleMean" THEN [channelNumber |-> ResolveChannel(c.m)]
                                   ELSE NoWrites))

ClimateKeys(m) ==
    [activity |-> ResolveActivity(m), experiment |-> ResolveExperiment(m),
     resolution |-> ResolveResolution(m), model |-> ResolveModel(m),
     generation |-> ResolveGeneration(m), realization |-> ResolveRealization(m)]

DestineOp(v, c) ==
    LET dataset == IF v = "ClimateDT" THEN "climate-dt" ELSE "extremes-dt"
    IN  Checked(CheckDestinELocalSection(c.out) /\ MatchDataset(c.out, dataset),
                [dataset |-> Found(dataset)] ++
                (IF v = "ClimateDT" THEN ClimateKeys(c.m) ELSE NoWrites))
----------------------------------------------------------------------------
(* Section 3, the grid.                                                    *)

ShapeOfTheEarthOp(c) ==
    [shapeOfTheEarth |-> ResolveShapeOfTheEarth(c.misc)]

GridTemplate == [Latlon |-> 0, RegularGaussian |-> 40, ReducedGaussian |-> 40,
                 SphericalHarmonics |-> 50, Healpix |-> 150, Orca |-> 101]

GridType == [Latlon |-> "regular_ll", RegularGaussian |-> "regular_gg",
             ReducedGaussian |-> "reduced_gg", SphericalHarmonics |-> "sh",
             Healpix |-> "healpix", Orca |-> "unstructured_grid"]

AllocateRepresentation(v, c) ==
    IF v \notin DOMAIN GridTemplate THEN Refused
    ELSE Checked(MatchGridDefinition(c.out, {GridTemplate[v]}),
                 [gridType |-> Found(GridType[v])] ++
                 (IF v = "ReducedGaussian" THEN [pl |-> Get(c.m, "grid")] ELSE NoWrites))

\* Points, corners and increments are those eckit::geo computes of the grid.
PresetRepresentation(v, c) ==
    (IF v = "SphericalHarmonics" THEN [pentagonalResolution |-> Get(c.m, "truncation")]
                                 ELSE [geometry |-> Get(c.m, "grid")]) ++
    [values |-> ResolveAllowedReferenceValue(c.m)]

RepresentationOp(stage, v, c) ==
    IF stage = Allocate THEN AllocateRepresentation(v, c) ELSE PresetRepresentation(v, c)
----------------------------------------------------------------------------
(* Section 4, the product.                                                 *)

ParamOp(c) == [paramId |-> ResolveParamId(c.m)]

GeneratingProcessOp(c) ==
    [backgroundProcess |-> ResolveBackgroundProcess(c.m)] ++
    Optional([generatingProcessIdentifier |->
                 ResolveGeneratingProcessIdentifier(c.misc),
              typeOfGeneratingProcess |->
                 ResolveTypeOfGeneratingProcess(c.m, c.misc)])

EnsembleOp(v, c) ==
    CASE v = "Individual" ->
           Checked(CheckEnsemble(c.out),
                   [typeOfEnsembleForecast |-> ResolveTypeOfEnsembleForecast(c.m, c.misc),
                    numberOfForecastsInEnsemble |->
                       ResolveNumberOfForecastsInEnsemble(c.m, c.misc),
                    perturbationNumber |-> ResolvePerturbationNumber(c.m)])
      [] v = "ProbabilityLargeEnsemble" ->
           Checked(MatchProductDefinition(c.out, {121, 122}), NoWrites)

DerivedOp(v, c) ==
    IF v = "ShiftOfTails"
    THEN [derivedForecast |-> ResolveDerivedForecast(c.m, c.misc)]
    ELSE Checked(CheckDerived(c.out),
            [derivedForecast |-> ResolveDerivedForecast(c.m, c.misc),
             numberOfForecastsInEnsemble |->
                ResolveNumberOfForecastsInEnsemble(c.m, c.misc)])

CompositionOp(v, c) ==
    CASE v = "AerosolOptical" ->
           [chemId |-> ResolveChemId(c.m), firstWavelength |-> ResolveFirstWavelength(c.m)]
      [] v \in {"Chem", "Aerosol", "ChemicalSource"} -> [chemId |-> ResolveChemId(c.m)]
      [] OTHER -> Refused

SatelliteKeys(c) ==
    [satelliteSeries |-> ResolveSatelliteSeries(c.misc),
     satelliteNumber |-> ResolveSatelliteNumber(c.m),
     instrumentType |-> ResolveInstrumentType(c.m),
     scaleFactorOfCentralWaveNumber |-> ResolveScaleFactorOfCentralWaveNumber(c.misc),
     scaledValueOfCentralWaveNumber |-> ResolveScaledValueOfCentralWaveNumber(c.misc)]

SatelliteOp(stage, s, c) ==
    CASE s = 2 /\ stage = Preset ->
           Checked(MatchLocalDefinitionNumber(c.out, {24, 37}),
                   [channelNumber |-> ResolveChannel(c.m)])
      [] s = 4 /\ stage = Allocate ->
           Checked(MatchProductDefinition(c.out, {32, 33}),
                   [numberOfContributingSpectralBands |-> Found(1)])
      [] s = 4 /\ stage = Preset ->
           Checked(MatchProductDefinition(c.out, {32, 33}), SatelliteKeys(c))
      [] OTHER -> NoWrites

OfInterval(type) == [typeOfWavePeriodInterval |-> Found(type)]

WavePeriodInterval(itMin, itMax) ==
    (CASE itMin # Absent /\ itMax # Absent ->
           OfInterval(TypeOfInterval.BetweenFirstInclusiveSecondInclusive)
       [] itMin # Absent /\ itMax = Absent -> OfInterval(TypeOfInterval.GreaterThanFirstLimit)
       [] itMin = Absent /\ itMax # Absent -> OfInterval(TypeOfInterval.SmallerThanSecondLimit)
       [] OTHER -> NoWrites) ++
    Optional([lowerWavePeriodLimit |-> Found(itMin), upperWavePeriodLimit |-> Found(itMax)])

WaveOp(stage, v, c) ==
    CASE v = "Spectra" /\ stage = Allocate ->
           Checked(MatchProductDefinition(c.out, {99, 100}),
                   [waveDirections |-> ResolveWaveDirectionGrid(c.misc),
                    waveFrequencies |-> ResolveWaveFrequencyGrid(c.misc)])
      [] v = "Spectra" /\ stage = Runtime ->
           Checked(MatchProductDefinition(c.out, {99, 100}),
                   [waveDirectionNumber |-> ResolveWaveDirectionNumber(c.m),
                    waveFrequencyNumber |-> ResolveWaveFrequencyNumber(c.m)])
      [] v = "Period" /\ stage = Preset ->
           Checked(MatchProductDefinition(c.out, {103, 104}),
                   WavePeriodInterval(ResolvePeriodItMin(c.misc)[1],
                                      ResolvePeriodItMax(c.misc)[1]))
      [] OTHER -> NoWrites

NeedPv(v) == v = "ModelMultipleLevel"

NeedLevel(v) ==
    v \in {"HeightAboveGround", "HeightAboveSea", "ModelSingleLevel", "ModelMultipleLevel",
           "IsobaricInPa", "Isothermal", "PotentialVorticity", "Theta", "OceanModel",
           "AbstractLevel", "FlightLevel"}

(* mutant: soil layers are left out *)
NeedLayerButSoil(v) == v \in {"SeaIceLayer", "SnowLayer", "OceanModelLayer"}

NeedTopBottomLevel(v) == v \in {"SoilLayer", "SeaIceLayer", "SnowLayer", "OceanModelLayer"}

FixedLevel == [HeightAboveGroundAt2M  |-> [type |-> "HeightAboveGround", level |-> 2],
               HeightAboveGroundAt10M |-> [type |-> "HeightAboveGround", level |-> 10],
               HeightAboveSeaAt2M     |-> [type |-> "HeightAboveSea", level |-> 2],
               HeightAboveSeaAt10M    |-> [type |-> "HeightAboveSea", level |-> 10]]

Above(level) == IF level = Failed THEN Failed ELSE Found(level[1] - 1)

\* Pascals in the request, hectopascals in the message.
InHpa(level) == IF level = Failed THEN Failed ELSE Found(level[1] \div 100)

WriteLevel(v, c) ==
    LET level == ResolveLevel(c.m)
    IN  CASE v \in DOMAIN FixedLevel ->
               [typeOfLevel |-> Found(FixedLevel[v].type), level |-> Found(FixedLevel[v].level)]
          [] v = "IsobaricInHpa" ->
               [typeOfLevel |-> Found(LevelTypeName(v)), level |-> InHpa(level)]
          [] OTHER ->
               [typeOfLevel |-> Found(LevelTypeName(v))] ++
               (IF NeedLevel(v) THEN [level |-> level] ELSE NoWrites) ++
               (IF NeedTopBottomLevel(v) THEN [topLevel |-> Above(level), bottomLevel |-> level]
                                         ELSE NoWrites)

(* mutant: the level is written once, before the message is cached *)
LevelOpPresetOnly(stage, v, c) ==
    CASE stage = Allocate /\ NeedPv(v) ->
           [PVPresent |-> Found(1), pv |-> ResolvePvArray(c.misc)]
      [] stage = Preset -> WriteLevel(v, c)
      [] OTHER -> NoWrites

LevelOp(stage, v, c) ==
    CASE stage = Allocate /\ NeedPv(v) ->
           [PVPresent |-> Found(1), pv |-> ResolvePvArray(c.misc)]
      [] stage \in {Preset, Runtime} -> WriteLevel(v, c)
      [] OTHER -> NoWrites

DataCutoffMissing == [hoursAfterDataCutoff |-> Found(MissingValue),
                      minutesAfterDataCutoff |-> Found(MissingValue)]

ForecastTime(from, to) == If(WholeHours(Elapsed(from, to)), Hours(Elapsed(from, to)))

PointInTimeOp(stage, c) ==
    IF stage = Override THEN NoWrites
    ELSE IF ~ProductTimeOk(c.m, c.misc) THEN Refused
    ELSE LET pt   == ProductTime(c.m, c.misc)
             step == ForecastTime(pt.reference, pt.windowEnd)
         IN  IF step = Failed THEN Refused
             ELSE CASE stage = Allocate -> DataCutoffMissing
                    [] stage = Preset   -> [indicatorOfUnitOfTimeRange |-> Found("hour")]
                    [] stage = Runtime  -> [forecastTime |-> step]

OperationOf == [Accumulation |-> "ac", Average |-> "av", Maximum |-> "mx", Minimum |-> "mn",
                Mode |-> "mode", Severity |-> "severity", StandardDeviation |-> "sd"]

AllocateStatistics(pt, c) ==
    Checked(CheckStatistics(c.out),
            DataCutoffMissing ++ [numberOfTimeRanges |-> Found(Len(pt.windows))])

PresetStatistics(pt, v, c) ==
    LET types == TypesOfProcessing(c.m, OperationOf[v])
        desc  == Descriptor(pt, types)
    IN  IF ~TypesOk(c.m, OperationOf[v]) \/ ~DescriptorOk(pt, types) THEN Refused
        ELSE [typeOfStatisticalProcessing |-> Found(desc.types),
              lengthOfTimeRange |-> Found(desc.lengths),
              timeIncrement |-> Found(desc.increments)]

(* mutant: the forecast time of an interval is that of its end *)
RuntimeStatisticsAtEnd(pt) ==
    IF Before(pt.windowStart, pt.reference) THEN Refused
    ELSE [forecastTime |-> ForecastTime(pt.reference, pt.windowEnd),
          endOfOverallTimeInterval |-> Found(pt.windowEnd)]

RuntimeStatistics(pt) ==
    IF Before(pt.windowStart, pt.reference) THEN Refused
    ELSE [forecastTime |-> ForecastTime(pt.reference, pt.windowStart),
          endOfOverallTimeInterval |-> Found(pt.windowEnd)]

StatisticsOp(stage, v, c) ==
    IF stage = Override \/ v = "IndexProcessing" THEN NoWrites
    ELSE IF ~ProductTimeOk(c.m, c.misc) THEN Refused
    ELSE LET pt == ProductTime(c.m, c.misc)
         IN  CASE stage = Allocate -> AllocateStatistics(pt, c)
               [] stage = Preset   -> PresetStatistics(pt, v, c)
               [] stage = Runtime  -> RuntimeStatistics(pt)
----------------------------------------------------------------------------
(* Section 5, packing.                                                     *)

GriddedPacking(template, c) ==
    Checked(MatchDataRepresentation(c.out, {template}),
            [bitsPerValue |-> ResolveBitsPerValueGridded(c.m, c.misc, Compression)])

\* J, K and M are the same truncation, and TS follows from it.
SpectralPacking(c) ==
    Checked(MatchDataRepresentation(c.out, {51}),
            [bitsPerValue |-> ResolveBitsPerValueSpectral(c.misc),
             subSetTruncation |-> ResolveSubSetTruncation(c.m, c.misc)])

PackingOp(v, c) ==
    CASE v = "Simple" -> GriddedPacking(0, c)
      [] v = "Ccsds"  -> GriddedPacking(42, c)
      [] v = "SpectralComplex" -> SpectralPacking(c)
      [] OTHER -> NoWrites
----------------------------------------------------------------------------
(* The values, which the callers put in a message of encode() or           *)
(* finaliseEncoding().                                                     *)

EncodeValues(misc, values) ==
    LET bitmap == GetOptBool(misc, "bitmapPresent", FALSE)
    IN  [bitmapPresent |-> bitmap, values |-> values] ++
        (IF bitmap THEN [missingValue |-> TRUE] ELSE NoKeys)
=============================================================================
