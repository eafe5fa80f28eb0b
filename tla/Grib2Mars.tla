------------------------------- MODULE Grib2Mars -------------------------------
(***************************************************************************)
(* grib2mars: from a GRIB message to the request that archives it and to   *)
(* the auxiliary dictionary (grib2mars/mappings).                          *)
(*                                                                         *)
(* A message is a function from the ecCodes keys it has to their values;   *)
(* its key "namespace" stands for the set of keywords that the keys        *)
(* iterator of the MARS namespace goes over.  A rule returns what it       *)
(* writes to each of the two dictionaries, [mars, misc].                   *)
(***************************************************************************)
EXTENDS Dictionary

\* The keywords of a message (MarsTopology): a list without repetition, whose
\* order is the order the rules run in and makes no difference to them.
AppendUnique(keywords, keyword)  == keywords \cup {keyword}
RemoveKeyword(keywords, keyword) == keywords \ {keyword}

NamespaceKeywords(g) == g.namespace

WithPacking(keywords, g) ==
    IF Has(g, "packingType") THEN AppendUnique(keywords, "packing") ELSE keywords

WithGeometry(keywords, g) ==
    IF ~Has(g, "gridType") THEN keywords
    ELSE IF g.gridType = "sh" THEN AppendUnique(RemoveKeyword(keywords, "grid"), "truncation")
    ELSE AppendUnique(RemoveKeyword(keywords, "truncation"), "grid")

RequiredKeywords == {"class", "stream", "type", "origin"}

MarsKeywords(g) ==
    WithGeometry(WithPacking(NamespaceKeywords(g), g), g) \cup RequiredKeywords
----------------------------------------------------------------------------
(* The rules.                                                              *)

ToMars(writes) == [mars |-> writes, misc |-> NoWrites]
Refusal == ToMars([refused |-> Failed])

\* if (grib.has(k)) dict.set(k, ...) for each of the keys, under its own name
WherePresent(g, keys) == [k \in keys \cap DOMAIN g |-> Found(g[k])]

\* A duration that is stored as a number, and not as a string with a unit.
Number(n) == [n |-> n, u |-> "number"]

\* The keywords that are copied from the key of their name; only class may
\* be missing.
ExtractClass(g)            == ToMars(WherePresent(g, {"class"}))
ExtractKeyword(keyword, g) == ToMars([k \in {keyword} |-> Get(g, keyword)])
ExtractStream(g)     == ExtractKeyword("stream", g)
ExtractType(g)       == ExtractKeyword("type", g)
ExtractExpver(g)     == ExtractKeyword("expver", g)
ExtractDomain(g)     == ExtractKeyword("domain", g)
ExtractDate(g)       == ExtractKeyword("date", g)
ExtractHdate(g)      == ExtractKeyword("hdate", g)
ExtractIdent(g)      == ExtractKeyword("ident", g)
ExtractChannel(g)    == ExtractKeyword("channel", g)
ExtractSystem(g)     == ExtractKeyword("system", g)
ExtractMethod(g)     == ExtractKeyword("method", g)
ExtractStattype(g)   == ExtractKeyword("stattype", g)
ExtractActivity(g)   == ExtractKeyword("activity", g)
ExtractDataset(g)    == ExtractKeyword("dataset", g)
ExtractExperiment(g) == ExtractKeyword("experiment", g)
ExtractResolution(g) == ExtractKeyword("resolution", g)
ExtractModel(g)      == ExtractKeyword("model", g)

ExtractWavelength(g) ==
    ToMars([wavelength |-> If(Has(g, "wavelength"), Long(g.wavelength))])
ExtractParam(g)   == ToMars([param |-> Get(g, "paramId")])
ExtractLevtype(g) == [mars |-> [levtype |-> Get(g, "levtype")],
                      misc |-> WherePresent(g, {"pv"})]

(* mutant: the level is taken as it is, in whatever unit *)
ExtractLevelistAsIs(g) ==
    IF ~({"levtype", "level"} \subseteq DOMAIN g) THEN Refusal
    ELSE ToMars([levelist |-> Found(g.level)])

\* hPa on pressure levels become Pa; any other unit is taken as it is.
ExtractLevelist(g) ==
    IF ~({"levtype", "level"} \subseteq DOMAIN g) THEN Refusal
    ELSE IF g.levtype # "pl" THEN ToMars([levelist |-> Found(g.level)])
    ELSE IF ~Has(g, "pressureUnits") THEN Refusal
    ELSE ToMars([levelist |->
                    Found(IF g.pressureUnits = "hPa" THEN g.level * 100 ELSE g.level)])

(* mutant: hours and minutes, without the seconds *)
ExtractTimeInMinutes(g) ==
    ToMars([time |-> If({"hour", "minute", "second"} \subseteq DOMAIN g,
                        g.hour * 100 + g.minute)])

ExtractTime(g) ==
    ToMars([time |-> If({"hour", "minute", "second"} \subseteq DOMAIN g,
                        g.hour * 10000 + g.minute * 100 + g.second)])

\* The block that would set timespan from a stepType that is no instant is
\* compiled out (#if 0): a message has a timespan by this keyword only.
ExtractStep(g) ==
    IF ~({"stepType", "endStep"} \subseteq DOMAIN g) THEN Refusal
    ELSE [mars |-> [step |-> Found(Number(g.endStep))],
          misc |-> WherePresent(g, {"initialStep"}) ++
                   (IF Has(g, "timeIncrement")
                    THEN [timeIncrementInSeconds |-> Found(g.timeIncrement)] ELSE NoWrites)]

ExtractTimespan(g) ==
    IF ~Has(g, "stepType") THEN Refusal
    ELSE IF g.stepType = "instant" THEN ToMars([timespan |-> Found([n |-> 0, u |-> "none"])])
    ELSE IF ~({"startStep", "endStep"} \subseteq DOMAIN g) THEN Refusal
    ELSE ToMars([timespan |-> If(g.endStep > g.startStep, Number(g.endStep - g.startStep))])

\* The size of the ensemble is known where it is not 0.
NumberAndSize(g) ==
    [mars |-> [number |-> Found(g.number)],
     misc |-> [numberOfForecastsInEnsemble |-> Found(g.numberOfForecastsInEnsemble)] ++
              (IF Has(g, "class") /\ g.class = "ai" THEN NoWrites
               ELSE IF Has(g, "typeOfEnsembleForecast")
               THEN [typeOfEnsembleForecast |-> Found(g.typeOfEnsembleForecast)]
               ELSE IF Has(g, "eps")
               THEN [typeOfEnsembleForecast |-> Found(g.eps)] ELSE NoWrites)]

ExtractNumber(g) ==
    IF ~Has(g, "type") THEN Refusal
    ELSE IF g.type \in {"es", "em"}
    THEN [mars |-> NoWrites,
          misc |-> [numberOfForecastsInEnsemble |-> Get(g, "numberOfForecastsInEnsemble")]]
    ELSE IF ~({"number", "numberOfForecastsInEnsemble"} \subseteq DOMAIN g)
    THEN ToMars(NoWrites)
    ELSE IF g.numberOfForecastsInEnsemble # 0 THEN NumberAndSize(g)
    ELSE IF g.number = 0 THEN ToMars(NoWrites) ELSE Refusal

ExtractOrigin(g) ==
    ToMars([origin |-> IF Has(g, "origin") THEN Get(g, "origin") ELSE Get(g, "centre")])

ConvertPackingType ==
    [grid_simple |-> "simple", grid_complex |-> "complex", spectral_complex |-> "complex",
     grid_ccsds |-> "ccsds", grid_ieee |-> "ccsds", grid_second_order |-> "ccsds"]

\* setPackingType, where the message has it, takes the place of packingType.
ExtractPacking(g) ==
    IF ~Has(g, "packingType") THEN Refusal
    ELSE LET packing == Get(ConvertPackingType, g.packingType)
             override == IF Has(g, "setPackingType")
                         THEN Get(ConvertPackingType, g.setPackingType) ELSE packing
         IN  [mars |-> [packing |-> IF packing = Failed THEN Failed ELSE override],
              misc |-> [missingValue |-> Found(9999),
                        bitsPerValue |-> GetOr(g, "bitsPerValue", 24)] ++
                       (IF Has(g, "bitmapPresent")
                        THEN [bitmapPresent |-> Found(Long(g.bitmapPresent))]
                        ELSE NoWrites)]

\* The name of the grid, or for regular_ll its two increments.
ExtractGrid(g) ==
    IF ~Has(g, "gridType") THEN Refusal
    ELSE CASE g.gridType = "sh" -> Refusal
           [] g.gridType = "regular_ll" ->
                ToMars([grid |-> If({"iDirectionIncrementInDegrees",
                                     "jDirectionIncrementInDegrees"} \subseteq DOMAIN g,
                                    "regular_ll")])
           [] OTHER -> [mars |-> [grid |-> Get(g, "gridName")],
                        misc |-> WherePresent(g, {"shapeOfTheEarth"})]

ExtractTruncation(g) ==
    IF ~Has(g, "gridType") THEN Refusal
    ELSE IF g.gridType # "sh" THEN Refusal
    ELSE [mars |-> [truncation |-> Get(g, "J")],
          misc |-> WherePresent(g, {"laplacianOperator"})]

\* The table of the directions or frequencies, scaled, and its scale factor.
ScaledTable(g, table, scaled, factor, scaling, scaleFactor) ==
    IF ~Has(g, scaled) THEN NoWrites
    ELSE [k \in {table} |-> If(Has(g, factor) \/ Has(g, scaling), g[scaled])] ++
         [k \in {scaleFactor} |-> If(Has(g, factor) \/ Has(g, scaling), "log10")]

(* mutant: the direction of a spectrum is read from the key of the frequency *)
ExtractDirectionAsFrequency(g) ==
    [mars |-> [direction |-> Get(g, "frequency")],
     misc |-> ScaledTable(g, "waveDirections", "scaledValuesOfWaveDirections",
                          "scaleFactorOfWaveDirections", "directionScalingFactor",
                          "scaleFactorOfWaveDirections")]

ExtractDirection(g) ==
    [mars |-> [direction |-> Get(g, "direction")],
     misc |-> ScaledTable(g, "waveDirections", "scaledValuesOfWaveDirections",
                          "scaleFactorOfWaveDirections", "directionScalingFactor",
                          "scaleFactorOfWaveDirections")]

ExtractFrequency(g) ==
    [mars |-> [frequency |-> Get(g, "frequency")],
     misc |-> ScaledTable(g, "waveFrequencies", "scaledValuesOfWaveFrequencies",
                          "scaleFactorOfWaveFrequencies", "frequencyScalingFactor",
                          "scaleFactorOfWaveFrequencies")]

ExtractAnoffset(g) ==
    [mars |-> [anoffset |-> Get(g, "anoffset")],
     misc |-> [lengthOfTimeWindow |-> Get(g, "lengthOf4DvarWindow")]]

ExtractInstrument(g) ==
    [mars |-> [instrument |-> Get(g, "instrument")],
     misc |-> WherePresent(g, {"satelliteSeries", "scaleFactorOfCentralWaveNumber",
                               "scaledValueOfCentralWaveNumber"})]

ExtractMisc(g) ==
    [mars |-> NoWrites, misc |-> WherePresent(g, {"generatingProcessIdentifier"})]
----------------------------------------------------------------------------
(* extractorRegistry.                                                      *)

Extract(keyword, g) ==
    CASE keyword = "class"      -> ExtractClass(g)
      [] keyword = "stream"     -> ExtractStream(g)
      [] keyword = "type"       -> ExtractType(g)
      [] keyword = "expver"     -> ExtractExpver(g)
      [] keyword = "domain"     -> ExtractDomain(g)
      [] keyword = "date"       -> ExtractDate(g)
      [] keyword = "hdate"      -> ExtractHdate(g)
      [] keyword = "ident"      -> ExtractIdent(g)
      [] keyword = "channel"    -> ExtractChannel(g)
      [] keyword = "system"     -> ExtractSystem(g)
      [] keyword = "method"     -> ExtractMethod(g)
      [] keyword = "stattype"   -> ExtractStattype(g)
      [] keyword = "activity"   -> ExtractActivity(g)
      [] keyword = "dataset"    -> ExtractDataset(g)
      [] keyword = "experiment" -> ExtractExperiment(g)
      [] keyword = "resolution" -> ExtractResolution(g)
      [] keyword = "model"      -> ExtractModel(g)
      [] keyword = "param"      -> ExtractParam(g)
      [] keyword = "levtype"    -> ExtractLevtype(g)
      [] keyword = "levelist"   -> ExtractLevelist(g)
      [] keyword = "frequency"  -> ExtractFrequency(g)
      [] keyword = "direction"  -> ExtractDirection(g)
      [] keyword = "instrument" -> ExtractInstrument(g)
      [] keyword = "anoffset"   -> ExtractAnoffset(g)
      [] keyword = "number"     -> ExtractNumber(g)
      [] keyword = "grid"       -> ExtractGrid(g)
      [] keyword = "truncation" -> ExtractTruncation(g)
      [] keyword = "packing"    -> ExtractPacking(g)
      [] keyword = "time"       -> ExtractTime(g)
      [] keyword = "step"       -> ExtractStep(g)
      [] keyword = "origin"     -> ExtractOrigin(g)
      [] keyword = "timespan"   -> ExtractTimespan(g)
      [] keyword = "wavelength" -> ExtractWavelength(g)
      [] OTHER -> Refusal        \* no extractor is registered: chem is one such

\* <<[mars, misc]>>, or Failed.
ConvertToMars(g) ==
    LET rules == {Extract(k, g) : k \in MarsKeywords(g)} \cup {ExtractMisc(g)}
        mars  == Combine({r.mars : r \in rules})
        misc  == Combine({r.misc : r \in rules})
    IN  If(Succeeds(mars) /\ Succeeds(misc), [mars |-> Values(mars), misc |-> Values(misc)])
=============================================================================
