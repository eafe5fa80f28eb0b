---------------------------- MODULE MCGrib1ToGrib2 ----------------------------
(***************************************************************************)
(* Messages of the local tables of parameters, and files of them.          *)
(***************************************************************************)
EXTENDS Grib1ToGrib2, TLC, FiniteSetsExt

With(g, keys) == keys @@ g
Without(g, keys) == [k \in DOMAIN g \ keys |-> g[k]]

Keywords == {"class", "stream", "type", "expver", "param", "levtype", "date", "time", "step",
             "domain"}

\* An instant on the surface; the grid is given by its type.
Surface(param) ==
    [namespace |-> Keywords, class |-> "od", stream |-> "oper", type |-> "fc",
     expver |-> "0001", domain |-> "g", centre |-> "ecmf", paramId |-> param, levtype |-> "sfc",
     date |-> 20240229, hour |-> 12, minute |-> 0, second |-> 0,
     stepType |-> "instant", startStep |-> 6, endStep |-> 6,
     packingType |-> "grid_simple", bitsPerValue |-> 16, bitmapPresent |-> 0,
     gridType |-> "reduced_gg", gridName |-> "reduced_gg", shapeOfTheEarth |-> 6,
     generatingProcessIdentifier |-> 153, values |-> 3]

OnLevel(param, levtype, level) ==
    With(Surface(param), [levtype |-> levtype, level |-> level, pressureUnits |-> "hPa",
                          namespace |-> Keywords \cup {"levelist"}])

Pressure(level, units) == With(OnLevel(130, "pl", level), [pressureUnits |-> units])
Member(n, size) ==
    With(Surface(167), [type |-> "pf", number |-> n, numberOfForecastsInEnsemble |-> size,
                        eps |-> 6, namespace |-> Keywords \cup {"number"}])
\* Over an interval, which is lost without the keyword timespan.
OverUnspanned(param, kind, from, to) ==
    With(Surface(param), [stepType |-> kind, startStep |-> from, endStep |-> to])
Spanned(g) == With(g, [namespace |-> g.namespace \cup {"timespan"}])
Over(param, kind, from, to) == Spanned(OverUnspanned(param, kind, from, to))
Hourly(g) == With(g, [timeIncrement |-> 3600])
Spectral ==
    With(OnLevel(130, "ml", 60), [gridType |-> "sh", J |-> 639, laplacianOperator |-> 1,
                                  packingType |-> "spectral_complex"])
Spectrum(direction) ==
    With(Surface(140251),
         [stream |-> "wave", direction |-> direction, frequency |-> 1,
          scaledValuesOfWaveDirections |-> 36, directionScalingFactor |-> 1,
          scaledValuesOfWaveFrequencies |-> 36, frequencyScalingFactor |-> 1,
          namespace |-> Keywords \cup {"direction", "frequency"}])
Analysis4D(offset) ==
    With(Surface(167), [type |-> "4v", anoffset |-> offset, lengthOf4DvarWindow |-> 12,
                        namespace |-> Keywords \cup {"anoffset"}])
Sounding ==
    With(Without(Surface(260510), {"levtype"}),
         [channel |-> 5, ident |-> 206, instrument |-> 207, satelliteSeries |-> 3,
          scaleFactorOfCentralWaveNumber |-> 0, scaledValueOfCentralWaveNumber |-> 5,
          namespace |-> (Keywords \ {"levtype"}) \cup {"channel", "ident", "instrument"}])

\* A file of the messages of a set.
FileOf(S) == FoldSet(LAMBDA g, file : Append(file, g), <<>>, S)

SurfaceParams ==
    15 .. 18 \cup 35 .. 42 \cup {32, 139, 164, 167, 170, 174, 183, 206, 236, 243, 151131,
     151145, 151175, 174098, 210001, 210022, 210025, 210071, 210072, 210081, 210121, 210125,
     210186, 211001, 211121, 215001, 215004, 215025, 218006, 222001, 222031, 223006}
SpeciesParamsOfFile == {217006, 217016, 217018, 217028}

Instants == FileOf({Surface(p) : p \in SurfaceParams}
                    \cup {OnLevel(p, "ml", 60) : p \in SpeciesParamsOfFile})

Others ==
    <<Pressure(500, "hPa"), Pressure(850, "hPa"), Pressure(50, "Pa"), OnLevel(130, "ml", 100),
      OnLevel(130, "ml", 101), Spectral, Member(1, 51), Member(2, 51), Member(0, 0),
      With(Member(3, 51), [packingType |-> "grid_second_order"]),
      With(Surface(167), [hour |-> 0]), With(Surface(167), [startStep |-> 7, endStep |-> 7]),
      With(Surface(167), [date |-> 20240301]), With(Surface(167), [minute |-> 30]),
      With(Surface(167), [setPackingType |-> "grid_ccsds"]), Spectrum(1), Spectrum(2),
      Analysis4D(3), Analysis4D(9), Sounding, With(Sounding, [channel |-> 6])>>

Intervals ==
    <<Hourly(Over(228, "accum", 0, 6)), Hourly(Over(228, "accum", 0, 12)),
      Hourly(Over(228, "accum", 6, 12)), Hourly(Over(121, "max", 6, 12)),
      Hourly(Over(228026, "max", 9, 12)), Hourly(Over(201, "max", 9, 12)),
      Hourly(Over(55, "avg", 0, 24)), Hourly(Over(56, "avg", 24, 48)),
      Hourly(Over(144, "accum", 0, 6)), Hourly(Over(260320, "max", 5, 6)),
      Hourly(OverUnspanned(122, "min", 6, 12)), Hourly(OverUnspanned(260321, "min", 3, 6))>>

\* The file ends where a message is refused.
RefusedMessages ==
    {Over(228, "accum", 0, 6), Hourly(Over(228, "accum", 6, 6)), Surface(215088), Surface(72),
     Hourly(OverUnspanned(228, "accum", 0, 6)), Spanned(Surface(167)),
     Without(Over(228, "accum", 0, 6), {"startStep"}), Without(Surface(167), {"values"}),
     With(OnLevel(402000, "ml", 60), [chem |-> 6, namespace |-> Keywords \cup {"chem"}]),
     With(Surface(167), [packingType |-> "grid_jpeg"]), Without(Surface(167), {"stream"}),
     Member(3, 0), Without(Surface(167), {"endStep"}), Without(Surface(167), {"centre"})}

MCFiles == {Instants, Others, Intervals}
           \cup {<<Surface(167), g, Surface(164)>> : g \in RefusedMessages}

(* What the theorems about times and levels suppose holds of these files.  *)
ASSUME FilesAreOrdinary == TimelyFiles /\ PlacedFiles
----------------------------------------------------------------------------
(* A MarsRequest in the place of the configuration.                        *)

Separated(sep, p) == Text([i \in DOMAIN p |-> Part(p[i], 2)], sep, Blank)

(* The texts of a time and of a date that are read, and those that are not. *)
ASSUME TimesAndDates ==
    /\ \A t \in {Plain(6, 1), Plain(6, 2), Plain(600, 3), Plain(600, 4), Plain(60000, 5),
                 Plain(60000, 6), Separated(":", <<6, 0>>), Separated("-", <<6, 0, 0>>)} :
           ConvertToLong("time", t) = Found(60000)
    /\ \A t \in {Plain(24, 2), Plain(660, 4), Plain(60001, 6), Plain(0, 7), Word("noon"),
                 Separated(":", <<6>>), Separated(":", <<6, 0, 0, 0>>)} :
           ConvertToLong("time", t) = Failed
    /\ \A n \in {20240229, 20231231, 20000229} : ConvertToLong("date", Plain(n, 8)) = Found(n)
    /\ \A n \in {20230229, 20241301, 20240100, 19000229} :
           ConvertToLong("date", Plain(n, 8)) = Failed

(* What is written as a number is read as it, for every key that has the
   converters (dict_traits of MarsRequest). *)
ASSUME NumbersSurvive ==
    \A k \in LongKeys, n \in {-6, 0, 6, 130, 1000, 61500, 235900, 235960, 20240229, 20230229} :
        ConvertFromLong(k, n) # Failed =>
            ConvertToLong(k, ConvertFromLong(k, n)[1]) = Found(n)

SetOf(s) == {s[i] : i \in DOMAIN s}
MessagesOnTheHour == {g \in UNION {SetOf(file) : file \in MCFiles} : g.minute = 0}
RequestsOfFiles   ==
    {ConvertToMars(g)[1].mars : g \in {h \in MessagesOnTheHour : ConvertToMars(h) # Failed}}

(* grib2mars cannot fill a MarsRequest for a member of an ensemble, a spectral
   field, a spectrum, an analysis in a window or an observation: it sets these
   keywords as numbers, and they have no converter. *)
ASSUME NotFilled ==
    \A m \in RequestsOfFiles :
        Fill(m) = Failed <=>
            DOMAIN m \cap {"number", "truncation", "direction", "frequency", "anoffset", "ident",
                           "channel", "instrument", "system", "method"} # {}
----------------------------------------------------------------------------
(* The types the keys are set with and read with: set_or_throw() of the     *)
(* rules of grib2mars and mars2mars, get_or_throw() and get_opt() of the    *)
(* deductions of mars2grib.                                                 *)

D == INSTANCE TypedDictionary

Texts   == {"dataset", "timespan", "expver", "experiment", "class", "packing", "domain", "stattype",
            "type", "origin", "resolution", "model", "levtype", "grid", "activity", "stream"}
Numbers == {"ident", "timespan", "step", "truncation", "levelist", "param", "anoffset", "instrument",
            "date", "number", "direction", "hdate", "frequency", "method", "time", "system", "channel",
            "chem"}
AuxiliaryNumbers ==
    {"generatingProcessIdentifier", "timeIncrementInSeconds", "bitsPerValue", "lengthOfTimeWindow",
     "satelliteSeries", "scaleFactorOfCentralWaveNumber", "scaledValueOfCentralWaveNumber",
     "numberOfForecastsInEnsemble", "typeOfEnsembleForecast", "shapeOfTheEarth"}

InRequest(k) == {D!One(t) : t \in {t \in {"string"} : k \in Texts} \cup {t \in {"long"} : k \in Numbers}}
SetTypes ==
    [k \in Texts \cup Numbers |-> InRequest(k)] @@
    [k \in {"wavelength"} |-> {D!One("long"), D!One("double")}] @@
    [k \in {"scaleFactor", "missingValue", "scaleFactorOfWaveDirections",
            "scaleFactorOfWaveFrequencies"} |-> {D!One("double")}] @@
    [k \in {"waveDirections", "waveFrequencies", "pv"} |-> {D!Many("double")}] @@
    [k \in AuxiliaryNumbers \cup {"bitmapPresent", "laplacianOperator", "initialStep",
            "typeOfGeneratingProcess"} |-> {D!One("long")}]
ReadTypes ==
    [k \in (Texts \cup Numbers) \ {"domain", "step"} |-> InRequest(k)] @@
    [k \in {"step"} |-> {D!One("string"), D!One("long")}] @@
    [k \in {"missingValue", "laplacianOperator"} |-> {D!One("double")}] @@
    [k \in {"waveDirections", "waveFrequencies", "pv"} |-> {D!Many("double")}] @@
    [k \in {"bitmapPresent"} |-> {D!One("bool")}] @@
    [k \in AuxiliaryNumbers \cup {"wavelength", "scaleFactorOfWaveDirections",
            "scaleFactorOfWaveFrequencies"} |-> {D!One("long")}]

SetTo(k, type) == D!SetAs(NoKeys, k, type, 1)

(* Every key a conversion sets is in the tables, and a value is found with the
   type it is read with, but for four keys: the wavelength of the optical
   parameters, for which mars2grib throws, and three of the auxiliary ones,
   which are taken for unset.  Four keys are read by nobody. *)
ASSUME TypesAgree ==
    /\ \A g \in {Surface(167), Member(1, 2), Spectral, Spectrum(1), Analysis4D(1), Sounding} :
           LET d == ConvertToMars(g)[1]
           IN  DOMAIN d.mars \cup DOMAIN d.misc \cup DOMAIN ConvertAll(d.mars)[1].mars \subseteq DOMAIN SetTypes
    /\ {k \in DOMAIN ReadTypes : \E s \in SetTypes[k] : \A t \in ReadTypes[k] : ~ D!HasAs(SetTo(k, s), k, t)} =
           {"wavelength", "bitmapPresent", "scaleFactorOfWaveDirections", "scaleFactorOfWaveFrequencies"}
    /\ DOMAIN SetTypes \ DOMAIN ReadTypes = {"domain", "scaleFactor", "initialStep", "typeOfGeneratingProcess"}

(* The merge of the tool copies every type grib2mars sets. *)
ASSUME NothingStopsTheMerge ==
    \A k \in DOMAIN SetTypes : \A s \in SetTypes[k] : D!MergeTyped(NoKeys, SetTo(k, s)) = Found(SetTo(k, s))

(* A number of a message is a boolean and a list, a list of it is no number. *)
ASSUME MessagesAreRead ==
    LET m == [numberOfValues |-> [native |-> "Long", values |-> <<3>>],
              pl             |-> [native |-> "Long", values |-> <<20, 24>>],
              gridType       |-> [native |-> "String", values |-> <<"sh">>]]
        read(k) == {t \in D!MessageTypes : D!GetFromMessage(m, k, t) # Failed}
    IN  /\ read("numberOfValues") = {D!One("bool"), D!One("int"), D!One("long"), D!Many("long")}
        /\ read("pl") = {D!Many("long")} /\ read("gridType") = {D!One("string"), D!Many("string")}
        /\ D!GetFromMessage(m, "numberOfValues", D!One("bool")) = Found(TRUE)
=============================================================================
