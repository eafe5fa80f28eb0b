---------------------------- MODULE GribDeductions ----------------------------
(***************************************************************************)
(* What mars2grib deduces, one value at a time, from the request (m) and   *)
(* from the auxiliary dictionary (misc): backend/deductions/*.h, and the   *)
(* code tables of backend/tables/*.h they go through.                      *)
(*                                                                         *)
(* A deduction that may fail is <<v>> or Failed, as in Dictionary.  One    *)
(* that may find nothing without failing has Absent in place of the value. *)
(***************************************************************************)
EXTENDS ProductTime, GribTables
----------------------------------------------------------------------------
(* Section 1.                                                              *)

ResolveCentre(m)       == GetOr(m, "origin", "ecmf")
ResolveSubCentre(misc) == GetOr(misc, "subCentre", 0)

\* The latest version of the tables that the sample knows.
TablesVersionLatest            == 36
ResolveTablesVersionLatest     == Found(TablesVersionLatest)
ResolveLocalTablesVersion      == Found(0)

AnalysisTypes == {"an", "ia", "oi", "3v", "3g", "4g", "ea", "pa", "tpa", "ga",
                  "gai", "ai", "af", "ab", "oai"}
ForecastTypes == {"fc", "cf", "pf", "cm", "fp", "em", "ep", "es", "fa", "efi", "efic",
    "bf", "cd", "wem", "wes", "cr", "ses", "taem", "taes", "sg", "sf", "if", "fcmean",
    "fcmax", "fcmin", "fcstdev", "ssd", "tf", "hcmean", "s3", "si", "gbf", "gwt",
    "est", "icp", "pfc", "sot"}
StartOfDataAssimilationTypes == {"4i", "4v", "me", "eme"}

ResolveSignificanceOfReferenceTime(m) ==
    IF ~Has(m, "stream") \/ ~Has(m, "type") THEN Failed
    ELSE IF m.type = "fc" /\ m.stream \in {"clte", "clmn"}
    THEN Found(SignificanceOfReferenceTime.ForecastVerification)
    ELSE IF m.type \in AnalysisTypes THEN Found(SignificanceOfReferenceTime.Analysis)
    ELSE IF m.type \in ForecastTypes THEN Found(SignificanceOfReferenceTime.ForecastStart)
    ELSE If(m.type \in StartOfDataAssimilationTypes,
            SignificanceOfReferenceTime.AssimilationStart)

ResolveTypeOfProcessedData(m, misc) ==
    IF ~({"class", "type", "stream"} \subseteq DOMAIN m) THEN Failed
    ELSE IF Has(misc, "typeOfProcessedData")
    THEN If(misc.typeOfProcessedData \in LongToTypeOfProcessedData,
            misc.typeOfProcessedData)
    ELSE Found(CASE m.class = "ai" -> TypeOfProcessedData.MlBasedForecast
                 [] m.class # "ai" /\ m.type = "gsd" ->
                        TypeOfProcessedData.ProcessedSatelliteObservations
                 [] m.class # "ai" /\ m.type \in {"fc", "ssd"} ->
                        TypeOfProcessedData.ForecastProducts
                 [] m.class # "ai" /\ m.type \in {"an", "cf", "pf"} ->
                        NameToTypeOfProcessedData[m.type]
                 [] OTHER -> TypeOfProcessedData.Missing)

ResolveProductionStatus(m) ==
    IF ~Has(m, "class") THEN Failed
    ELSE Found(CASE m.class = "d1" -> ProductionStatusOfProcessedData.DestinationEarth
                 [] m.class = "e6" -> ProductionStatusOfProcessedData.ReanalysisProducts
                 [] OTHER -> ProductionStatusOfProcessedData.OperationalProducts)
----------------------------------------------------------------------------
(* Section 2: the local use section.                                       *)

ResolveClass(m)  == Get(m, "class")
ResolveType(m)   == Get(m, "type")
ResolveStream(m) == Get(m, "stream")
ResolveExpver(m) == Get(m, "expver")

ResolveMethodNumber(m)    == Get(m, "method")
ResolveSystemNumber(m)    == Get(m, "system")
ResolveIterationNumber(m) == Get(m, "iteration")
ResolveChannel(m)         == Get(m, "channel")

ResolveActivity(m)    == Get(m, "activity")
ResolveExperiment(m)  == Get(m, "experiment")
ResolveResolution(m)  == Get(m, "resolution")
ResolveModel(m)       == Get(m, "model")
ResolveGeneration(m)  == Get(m, "generation")
ResolveRealization(m) == Get(m, "realization")

ResolveOffsetToEndOf4DvarWindow(m) == Get(m, "anoffset")

Absent == -1
ResolveLengthOfTimeWindowInSeconds(misc) ==
    IF Has(misc, "lengthOfTimeWindow") THEN Found(misc.lengthOfTimeWindow * 3600)
                                       ELSE Found(Absent)
ResolveTotalNumberOfIterations(misc) == GetOr(misc, "totalNumberOfIterations", Absent)
ResolveNumberOfFrequencies(misc)     == GetOr(misc, "numberOfFrequencies", 54)

ResolveComponentIndex(m) ==
    IF Has(m, "type") /\ m.type \in {"eme", "me"} THEN Get(m, "number") ELSE Failed
ResolveNumberOfComponents(misc) == Get(misc, "numberOfComponents")
ResolveModelErrorType(misc)     == Get(misc, "modelErrorType")
----------------------------------------------------------------------------
(* Section 3.                                                              *)

ResolveShapeOfTheEarth(misc) ==
    IF Has(misc, "shapeOfTheEarth")
    THEN If(misc.shapeOfTheEarth \in LongToShapeOfTheReferenceSystem,
            misc.shapeOfTheEarth)
    ELSE Found(ShapeOfTheReferenceSystem.EarthSphericalRadius6371229)

\* The constant field a grid starts from: the middle of the range of the
\* parameter for gridded data, nothing for spectral data.
ResolveAllowedReferenceValue(m) ==
    IF Has(m, "grid") = Has(m, "truncation") THEN Failed
    ELSE IF Has(m, "truncation") THEN Found("zero") ELSE Get(m, "param")
----------------------------------------------------------------------------
(* Section 4.                                                              *)

ResolveParamId(m) == Get(m, "param")
ResolveLevel(m)   == Get(m, "levelist")
ResolveChemId(m)  == Get(m, "chem")

\* Nanometres in the request, metres in the message.
ResolveFirstWavelength(m) == GetLong(m, "wavelength")

ResolveBackgroundProcess(m) ==
    LET model == IF ~Has(m, "model") \/ m.model \in {"IFS-NEMO", "IFS-FESOM"}
                 THEN "IFS" ELSE m.model
    IN  Get(NameToBackgroundProcess, model)

ResolveGeneratingProcessIdentifier(misc) ==
    GetOr(misc, "generatingProcessIdentifier", Absent)

ResolveTypeOfGeneratingProcess(m, misc) ==
    LET isEnsemble == \/ /\ Has(misc, "numberOfForecastsInEnsemble")
                         /\ misc.numberOfForecastsInEnsemble > 1
                      \/ Has(misc, "typeOfEnsembleForecast")
                      \/ Has(m, "number") /\ m.number > 0
    IN  IF ~Has(m, "type") THEN Failed
        ELSE Found(CASE m.type = "4i" -> TypeOfGeneratingProcess.AnalysisIncrement
                     [] m.type \in {"pf", "cf", "est", "es", "em", "ses"} ->
                            TypeOfGeneratingProcess.EnsembleForecast
                     [] m.type = "fc" -> IF isEnsemble
                                         THEN TypeOfGeneratingProcess.EnsembleForecast
                                         ELSE TypeOfGeneratingProcess.Forecast
                     [] m.type \in {"eme", "me"} -> TypeOfGeneratingProcess.Analysis
                     [] OTHER -> Absent)

ResolveDerivedForecast(m, misc) ==
    IF Has(misc, "derivedForecast")
    THEN If(misc.derivedForecast \in LongToDerivedForecast, misc.derivedForecast)
    ELSE CASE m.type \in {"em", "taem"} ->
                Found(DerivedForecast.UnweightedMeanAllMembers)
           [] m.type \in {"es", "ses", "taes"} ->
                Found(DerivedForecast.SpreadAllMembers)
           [] m.type \in {"efi", "efic", "sot"} ->
                Found(DerivedForecast.LargeAnomalyIndexAllMembers)
           [] OTHER -> Failed

ResolveTypeOfEnsembleForecast(m, misc) ==
    IF Has(misc, "typeOfEnsembleForecast")
    THEN If(misc.typeOfEnsembleForecast \in LongToTypeOfEnsembleForecast,
            misc.typeOfEnsembleForecast)
    ELSE CASE m.type = "cf" -> Found(TypeOfEnsembleForecast.Unperturbed)
           [] m.type = "pf" -> Found(TypeOfEnsembleForecast.Perturbed)
           [] OTHER -> Failed

ResolveNumberOfForecastsInEnsemble(m, misc) ==
    IF Has(misc, "numberOfForecastsInEnsemble")
    THEN If(Has(m, "number") => m.number \in 0 .. misc.numberOfForecastsInEnsemble,
            misc.numberOfForecastsInEnsemble)
    ELSE Failed

ResolvePerturbationNumber(m) == Get(m, "number")

\* 137 is the only table of pv coefficients: any other size needs its own pv.
ResolvePvArray(misc) ==
    CASE Has(misc, "pv") /\ Has(misc, "pvSize") -> Failed
      [] Has(misc, "pv") /\ ~Has(misc, "pvSize") -> Found(misc.pv)
      [] ~Has(misc, "pv") -> IF Has(misc, "pvSize")
                             THEN If(misc.pvSize = 137, 137) ELSE Found(137)

ResolveSatelliteNumber(m)    == Get(m, "ident")
ResolveInstrumentType(m)     == Get(m, "instrument")
ResolveSatelliteSeries(misc) == Get(misc, "satelliteSeries")
ResolveScaleFactorOfCentralWaveNumber(misc) ==
    Get(misc, "scaleFactorOfCentralWaveNumber")
ResolveScaledValueOfCentralWaveNumber(misc) ==
    Get(misc, "scaledValueOfCentralWaveNumber")

ResolveWaveDirectionNumber(m) == Get(m, "direction")
ResolveWaveFrequencyNumber(m) == Get(m, "frequency")
ResolvePeriodItMin(misc)      == GetOr(misc, "iTmin", Absent)
ResolvePeriodItMax(misc)      == GetOr(misc, "iTmax", Absent)

\* The directions and frequencies themselves are floating point numbers: what
\* is modelled is when they can be had, and how many there are.
ResolveWaveDirectionGrid(misc) ==
    IF Has(misc, "waveDirections") THEN Found(misc.waveDirections)
    ELSE Get(misc, "numberOfWaveDirections")

ReferenceFrequencyOk(misc) ==
    /\ misc.indexOfReferenceWaveFrequency # 0
    /\ misc.indexOfReferenceWaveFrequency <= misc.numberOfWaveFrequencies

ResolveWaveFrequencyGrid(misc) ==
    IF Has(misc, "waveFrequencies") THEN Found(misc.waveFrequencies)
    ELSE IF {"numberOfWaveFrequencies", "indexOfReferenceWaveFrequency",
             "referenceWaveFrequency", "waveFrequencySpacingRatio"} \subseteq DOMAIN misc
    THEN If(ReferenceFrequencyOk(misc), misc.numberOfWaveFrequencies)
    ELSE Failed
----------------------------------------------------------------------------
(* Section 5.                                                              *)

BitsPerValueGriddedDefault(param, prefix, compression) ==
    CASE param = 248 -> 8
      [] param \in {141, 228141, 244} -> 24
      [] param \in {246, 247} /\ prefix = "pl" -> 12
      [] param \in 210001 .. 227999 -> 24
      [] param \in {260510, 260511} -> 10
      [] /\ param \notin {248, 141, 228141, 244, 260510, 260511} \cup 210001 .. 227999
         /\ param \in {246, 247} => prefix # "pl"
         -> IF compression /\ prefix = "ml" THEN 10 ELSE 16

BitsOk(bits) == IF bits = Failed THEN Failed ELSE If(bits[1] \in 0 .. 64, bits[1])

ResolveBitsPerValueGridded(m, misc, compression) ==
    BitsOk(IF Has(misc, "bitsPerValue") THEN Found(misc.bitsPerValue)
           ELSE IF {"param", "levtype"} \subseteq DOMAIN m
           THEN Found(BitsPerValueGriddedDefault(m.param, m.levtype, compression))
           ELSE Failed)

ResolveBitsPerValueSpectral(misc) == BitsOk(GetOr(misc, "bitsPerValue", 16))

ResolveSubSetTruncation(m, misc) ==
    IF ~Has(m, "truncation") THEN Failed
    ELSE IF m.truncation < 0 THEN Failed
    ELSE IF Has(misc, "subSetTruncation")
    THEN If(misc.subSetTruncation \in 0 .. m.truncation, misc.subSetTruncation)
    ELSE Found(IF m.truncation < 20 THEN m.truncation ELSE 20)
=============================================================================
