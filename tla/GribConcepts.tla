----------------------------- MODULE GribConcepts -----------------------------
(***************************************************************************)
(* Which variant of each GRIB concept a MARS request asks for: the         *)
(* matchers of mars2grib (backend/concepts/<concept>/<concept>Matcher.h).  *)
(* A matcher returns a variant, Missing when the concept does not apply,   *)
(* or Throws.  The value of grid is the type eckit::geo gives the grid.    *)
(* The parameter tables are those of the source, merged per variant.       *)
(***************************************************************************)
EXTENDS GribRegistry

Missing == "MISSING"
Throws  == "THROWS"

\* The variant under which a table lists a parameter, or what there is without one.
OneOf(table, p, other) ==
    IF \E v \in DOMAIN table : p \in table[v]
    THEN CHOOSE v \in DOMAIN table : p \in table[v] ELSE other
----------------------------------------------------------------------------
(* level: which table is searched depends on levtype.                      *)

SurfaceLevels ==
    [CloudBase |-> {228023},
     DepthBelowSeaLayer |-> {262118},
     EntireAtmosphere |->
         {59, 78, 79, 136, 137, 164, 194, 206, 132045, 162071, 162072, 162093, 228001,
         228044, 228050, 228052, 228164, 235087, 235088, 235136, 235137, 235287, 235288,
         235290, 235326, 235383, 237087, 237088, 237137, 237287, 237288, 237290, 237326,
         238087, 238088, 238137, 238287, 238288, 238290, 238326, 239087, 239088, 239137,
         239287, 239288, 239290, 239326, 260132} \cup 162059..162063 \cup 228088..228090,
     EntireLake |-> {228007, 228011},
     HeightAboveGround |-> {129172},
     HeightAboveGroundAt10M |->
         {49, 123, 165, 166, 207, 131068, 131069, 131070, 131071, 131072, 131100, 132049,
         132165, 228005, 228028, 228029, 228131, 228132, 235165, 235166, 237165, 237166,
         237207, 237318, 238165, 238166, 238207, 239165, 239166, 239207, 260260},
     HeightAboveGroundAt2M |->
         {121, 122, 167, 168, 201, 202, 131073, 132167, 132201, 132202, 174096, 228004,
         228037, 235168, 237167, 237168, 238167, 238168, 239167, 239168, 260242},
     HeightAboveSeaAt10M |->
         {140233, 140245, 140249, 141233, 141245, 143233, 143245, 144233, 144245, 145233,
         145245},
     HighCloudLayer |-> {188, 3075},
     IceLayerOnWater |-> {228014, 235309, 237309, 238309, 239309},
     IceTopOnWater |-> {228013},
     Isothermal |-> {262104},
     LakeBottom |-> {228010, 235305, 237305, 238305, 239305},
     LowCloudLayer |-> {186, 3073, 235108, 237108, 238108, 239108},
     MeanSea |-> {151, 235151, 237151, 238151, 239151},
     MediumCloudLayer |-> {187, 3074},
     MixedLayerParcel |-> 228231..228234,
     MixingLayer |->
         {228008, 228009, 235090, 235091, 237090, 237091, 238090, 238091, 239090, 239091},
     MostUnstableParcel |-> {132044, 132059} \cup 228235..228237,
     NominalTop |-> {178, 179, 208, 209, 212, 235039, 235040, 235049, 235050, 235053},
     SeaIceLayer |-> {263024, 265024, 266024, 267024},
     SoilLayer |-> {235077, 235094, 237077, 237094, 238077, 238094, 239077, 239094},
     Surface |->
         {8, 9, 20, 47, 50, 57, 58, 66, 67, 74, 129, 134, 139, 169, 170, 189, 205, 210,
         211, 213, 3020, 3062, 3067, 3099, 131022, 131024, 131060, 131061, 131062, 131063,
         131064, 131065, 131066, 131067, 131085, 131089, 131090, 131091, 131098, 131099,
         132144, 132228, 133096, 133097, 140112, 140113, 140211, 140212, 140244, 141208,
         141209, 141215, 141216, 141220, 141229, 141232, 143208, 143209, 143215, 143216,
         143220, 143229, 143232, 144208, 144209, 144215, 144216, 144220, 144229, 144232,
         145208, 145209, 145215, 145216, 145220, 145229, 145232, 160198, 200199, 228002,
         228003, 228012, 228024, 228026, 228027, 228032, 228035, 228036, 228051, 228053,
         228129, 228130, 228141, 228143, 228144, 228251, 229001, 229007, 231005, 231010,
         231012, 231057, 231058, 235020, 235021, 235048, 235051, 235052, 235055, 235058,
         235083, 235084, 235093, 235134, 235159, 235189, 235263, 235283, 235339, 237013,
         237041, 237042, 237055, 237078, 237080, 237083, 237084, 237093, 237117, 237134,
         237159, 237263, 237321, 238013, 238041, 238042, 238055, 238078, 238080, 238083,
         238084, 238093, 238134, 238159, 238263, 239041, 239042, 239078, 239080, 239083,
         239084, 239093, 239134, 239159, 239263, 260004, 260005, 260015, 260038, 260048,
         260109, 260121, 260123, 260255, 260259, 260289, 260292, 260293, 260338, 260339,
         260509, 260682, 260683, 260688, 261001, 261002, 261018, 261023, 262000, 262100,
         262124, 262139, 262140, 262144} \cup 15..18 \cup 26..45 \cup 141..148 \cup
         159..163 \cup 172..177 \cup 180..182 \cup 195..198 \cup 228..232 \cup 234..236
         \cup 238..240 \cup 243..245 \cup 131074..131077 \cup 140098..140105 \cup
         140121..140129 \cup 140131..140134 \cup 140207..140209 \cup 140214..140232 \cup
         140234..140239 \cup 140246..140248 \cup 140252..140254 \cup 141101..141105 \cup
         143101..143105 \cup 144101..144105 \cup 145101..145105 \cup 162100..162113 \cup
         210186..210191 \cup 210198..210202 \cup 210260..210264 \cup 222001..222256 \cup
         228015..228022 \cup 228046..228048 \cup 228057..228060 \cup 228080..228085 \cup
         228216..228228 \cup 231001..231003 \cup 233000..233031 \cup 233032..233035 \cup
         235029..235031 \cup 235033..235038 \cup 235041..235043 \cup 235062..235064 \cup
         235078..235080 \cup 260318..260321 \cup 261014..261016 \cup 400000..499999,
     Tropopause |-> {228045, 235322, 237322, 238322, 239322},
     AbstractLevel |-> 254001..254017]

MatchSFC(p) == OneOf(SurfaceLevels, p, IF p \in 140114..140120 THEN Missing ELSE Throws)

HeightLevels ==
    [HeightAboveGround |->
         {10, 54, 157, 246, 247, 3031, 235097, 235131, 235132, 237097, 237131, 237132,
         238097, 238131, 238132, 239097, 239131, 239132} \cup 130..132]

MatchHL(p) == OneOf(HeightLevels, p, Throws)

ModelLevels ==
    [ModelSingleLevel |-> {22, 127, 128, 129, 152},
     ModelMultipleLevel |->
         {21, 23, 135, 138, 203, 260290, 260292, 260293} \cup 75..77 \cup 130..133 \cup
         155..157 \cup 246..248 \cup 162100..162113 \cup 400000..499999]

MatchML(p) == OneOf(ModelLevels, p, Throws)

PressureParams ==
    {1, 2, 10, 60, 75, 76, 138, 152, 203, 131020, 131021, 131022,
     131023, 131024, 131025, 133093, 133094, 133095, 133096, 133097,
     133098, 235100, 235135, 235138, 235152, 235155, 235157, 235203,
     235246, 260290, 263107} \cup 129..135 \cup 155..157
     \cup 246..248 \cup 235129..235133 \cup 400000..499999

MatchPL(p, level) ==
    IF p \notin PressureParams THEN Throws
    ELSE IF level >= 100 THEN "IsobaricInHpa" ELSE "IsobaricInPa"

MatchFL(p) == IF p \in {260290} THEN "FlightLevel" ELSE Throws

ThetaLevels ==
    [Theta |->
         {53, 54, 60, 138, 155, 203, 235100, 235203, 237203, 238203, 239203}
         \cup 131..133 \cup 400000..499999]

MatchPT(p) == OneOf(ThetaLevels, p, Throws)

VorticityLevels ==
    [PotentialVorticity |->
         {3, 54, 129, 203, 235098, 235269} \cup 131..133 \cup 400000..499999]

MatchPV(p) == OneOf(VorticityLevels, p, Throws)

SoilLevels ==
    [SeaIceLayer |-> {262000, 262024},
     SnowLayer |-> {33, 74, 238, 228038, 228141, 235078, 235080, 237080, 238080, 239080},
     SoilLayer |-> {183, 235077, 260199, 260360}]

MatchSOL(p) == OneOf(SoilLevels, p, Throws)

MatchAL(p) == IF p \in 213101..213160 THEN "AbstractSingleLevel" ELSE Throws

OceanSurfaceLevels ==
    [IceLayerOnWater |-> {262000, 262003, 262004, 262008, 262014, 262023},
     IceTopOnWater |-> {262001, 262005, 262006, 262906, 262907},
     SnowLayerOverIceOnWater |-> {262002, 262009, 262011, 262015},
     EntireMeltPond |-> {262017, 262018},
     OceanSurface |->
         {262100, 262101, 262124, 262125, 262130, 262139, 262140, 262143, 262900} \cup
         262108..262112,
     Isothermal |-> 262102..262106,
     MixedLayerDepthByDensity |-> 262113..262115,
     MixedLayerDepthByTemperature |-> {262116},
     DepthBelowSeaLayer |-> {262118, 262119, 262121, 262122, 262146, 262147},
     OceanSurfaceToBottom |-> {262120, 262123, 262148},
     WaterSurfaceToIsothermalOceanLayer |-> {262141}]

MatchO2D(p) == OneOf(OceanSurfaceLevels, p, Throws)

OceanLevels ==
    [OceanModelLayer |-> {262505, 262506} \cup 262500..262502,
     OceanModel |-> {262507}]

MatchO3D(p) == OneOf(OceanLevels, p, Throws)

IsWaveSpectrum(m) == Has(m, "frequency") /\ Has(m, "direction")

IsSatellite(m) == \A k \in {"channel", "ident", "instrument"} : Has(m, k)

Level(m) ==
    IF IsWaveSpectrum(m) \/ IsSatellite(m) THEN Missing
    ELSE IF ~Has(m, "levtype") THEN Throws
    ELSE CASE m.levtype = "sfc" -> MatchSFC(m.param)
           [] m.levtype = "hl"  -> MatchHL(m.param)
           [] m.levtype = "ml"  -> MatchML(m.param)
           [] m.levtype = "pl"  -> IF Has(m, "levelist")
                                   THEN MatchPL(m.param, m.levelist)
                                   ELSE Throws
           [] m.levtype = "fl"  -> MatchFL(m.param)
           [] m.levtype = "pt"  -> MatchPT(m.param)
           [] m.levtype = "pv"  -> MatchPV(m.param)
           [] m.levtype = "sol" -> MatchSOL(m.param)
           [] m.levtype = "al"  -> MatchAL(m.param)
           [] m.levtype = "o2d" -> MatchO2D(m.param)
           [] m.levtype = "o3d" -> MatchO3D(m.param)
           [] OTHER -> Throws
----------------------------------------------------------------------------
(* The two concepts of time, and the strike probabilities.                 *)

StatisticsParams ==
    [Accumulation |->
         {8, 9, 20, 44, 45, 47, 50, 57, 58, 169, 189, 205, 228, 239, 240, 3062, 3099,
         131060, 131061, 131062, 131063, 131064, 131085, 131098, 131099, 228021, 228022,
         228129, 228130, 228143, 228144, 228216, 228228, 228251, 231005, 231010, 231012,
         231057, 231058, 260259} \cup 142..147 \cup 175..182 \cup 195..197 \cup 208..213
         \cup 162100..162113 \cup 222001..222256 \cup 228080..228082 \cup 231001..231003
         \cup 233000..233031 \cup 233032..233035 \cup 235062..235064,
     Average |->
         {131065, 131066, 131067, 141208, 141209, 141215, 141216, 141220, 141229, 141232,
         141233, 141245, 228004, 228005, 228051, 228053, 235020, 235021, 235055, 235058,
         235083, 235084, 235087, 235088, 235090, 235091, 235093, 235094, 235097, 235098,
         235100, 235108, 235151, 235152, 235155, 235157, 235159, 235165, 235166, 235168,
         235189, 235203, 235246, 235263, 235269, 235283, 235287, 235288, 235290, 235305,
         235309, 235322, 235326, 235339, 235383, 263024, 263107} \cup 141101..141105 \cup
         228057..228060 \cup 235029..235031 \cup 235033..235043 \cup 235048..235053 \cup
         235077..235080 \cup 235129..235138,
     Maximum |->
         {49, 121, 123, 201, 131071, 131072, 131100, 143208, 143209, 143215, 143216,
         143220, 143229, 143232, 143233, 143245, 228026, 228028, 228035, 228036, 228222,
         228224, 228226, 237013, 237041, 237042, 237055, 237077, 237078, 237080, 237083,
         237084, 237087, 237088, 237090, 237091, 237093, 237094, 237097, 237108, 237117,
         237131, 237132, 237134, 237137, 237151, 237159, 237203, 237207, 237263, 237287,
         237288, 237290, 237305, 237309, 237318, 237321, 237322, 237326, 265024} \cup
         143101..143105 \cup 237165..237168,
     Minimum |->
         {122, 202, 131070, 144208, 144209, 144215, 144216, 144220, 144229, 144232, 144233,
         144245, 228027, 228223, 228225, 228227, 238013, 238041, 238042, 238055, 238077,
         238078, 238080, 238083, 238084, 238087, 238088, 238090, 238091, 238093, 238094,
         238097, 238108, 238131, 238132, 238134, 238137, 238151, 238159, 238203, 238207,
         238263, 238287, 238288, 238290, 238305, 238309, 238322, 238326, 266024} \cup
         144101..144105 \cup 238165..238168,
     Mode |-> {260320, 260321, 260339, 260683},
     Severity |-> {260318, 260319, 260338, 260682},
     StandardDeviation |->
         {133093, 133094, 133095, 133096, 133097, 133098, 145208, 145209, 145215, 145216,
         145220, 145229, 145232, 145233, 145245, 239041, 239042, 239077, 239078, 239080,
         239083, 239084, 239087, 239088, 239090, 239091, 239093, 239094, 239097, 239108,
         239131, 239132, 239134, 239137, 239151, 239159, 239203, 239207, 239263, 239287,
         239288, 239290, 239305, 239309, 239322, 239326, 267024} \cup 145101..145105 \cup
         239165..239168,
     IndexProcessing |->
         {132044, 132045, 132049, 132059, 132144, 132165, 132167, 132201, 132202, 132228}]

Statistics(p) == OneOf(StatisticsParams, p, Missing)

PointInTimeParams ==
    {10, 53, 54, 59, 60, 66, 67, 141, 148, 151, 152, 170, 183, 194,
     198, 203, 206, 207, 238, 3020, 3031, 3067, 129172, 131020,
     131021, 131022, 131023, 131024, 131025, 131068, 131069, 131073,
     131089, 131090, 131091, 140112, 140113, 140211, 140212, 140251,
     160198, 162071, 162072, 162093, 174096, 200199, 228023, 228024,
     228029, 228032, 228037, 228038, 228050, 228052, 228131, 228132,
     228141, 228164, 229001, 229007, 260004, 260005, 260015, 260038,
     260048, 260109, 260121, 260123, 260132, 260199, 260242, 260255,
     260260, 260289, 260290, 260292, 260293, 260360, 260509, 260688,
     261001, 261002, 261018, 261023, 262011, 262014, 262015, 262017,
     262018, 262023, 262024, 262130, 262143, 262144, 262900, 262906,
     262907} \cup 1..3 \cup 15..18 \cup 21..23 \cup 26..43 \cup 74..79
     \cup 129..139 \cup 155..157 \cup 159..168 \cup 172..174
     \cup 186..188 \cup 229..232 \cup 234..236 \cup 243..248
     \cup 3073..3075 \cup 131074..131077 \cup 140098..140105
     \cup 140114..140120 \cup 140121..140129 \cup 140131..140134
     \cup 140207..140209 \cup 140214..140239 \cup 140244..140249
     \cup 140252..140254 \cup 162059..162063 \cup 210186..210191
     \cup 210198..210202 \cup 210260..210264 \cup 213101..213160
     \cup 228001..228003 \cup 228007..228020 \cup 228044..228048
     \cup 228083..228085 \cup 228088..228090 \cup 228217..228221
     \cup 228231..228237 \cup 254001..254017 \cup 260510..260512
     \cup 261014..261016 \cup 262000..262009 \cup 262100..262106
     \cup 262108..262112 \cup 262113..262116 \cup 262118..262125
     \cup 262139..262141 \cup 262146..262149 \cup 262500..262502
     \cup 262505..262507 \cup 400000..499999

PointInTime(p) == IF p \in PointInTimeParams THEN "Default" ELSE Missing

\* The list ensembleMatcher.h and strikeProbabilityMatcher.h both spell out.
ProbabilityParams ==
          {131060, 131061, 131062, 131063, 131064, 131065, 131066, 131067,
          131068, 131069, 131070, 131071, 131072, 131073, 131085, 131089,
          131090, 131091, 131098, 131099, 131100, 133093, 133094, 133095,
          133096, 133097, 133098} \cup 131074..131077

StrikeProbability(p) == IF p \in ProbabilityParams THEN "Default" ELSE Missing
----------------------------------------------------------------------------
(* composition: the chemical species of a parameter of the 400000s.        *)

\* With a wavelength: optical properties of aerosols.
OpticalSpecies(p, chem) ==
    \/ p = 457000 /\ chem \in {918, 922, 923} \cup 900..914 \cup 933..936
    \/ p \in {458000, 459000, 460000, 461000, 462000, 472000} /\ chem = 922

\* Without: aerosols, chemicals and their sources.
AerosolSpecies(p, chem) ==
    \/ p = 401000 /\ chem \in 900..916
    \/ p = 402000 /\ chem \in {924} \cup 900..917
    \/ p \in {406000, 407000, 410000, 411000, 451000} /\ chem \in 901..916
    \/ p = 453000 /\ chem \in {922} \cup 901..916
    \/ p = 400000 /\ chem \in 929..931

ChemSpecies(p, chem) ==
    \/ /\ p = 401000
       /\ chem \in {2, 3, 52, 53, 82, 83, 85, 86, 107, 112, 159, 161, 169,
                   222, 233, 311, 359, 404, 917} \cup 5..24 \cup 26..30
                   \cup 32..50 \cup 55..58 \cup 63..80 \cup 99..101
                   \cup 173..178 \cup 186..204 \cup 224..231
    \/ /\ p = 402000
       /\ chem \in {52, 53, 82, 83, 85, 86, 107, 112, 118, 159, 161, 169,
                   222, 233, 236, 311} \cup 2..24 \cup 26..30 \cup 32..50
                   \cup 55..59 \cup 63..80 \cup 99..101 \cup 173..178
                   \cup 186..204 \cup 224..230
    \/ p = 444000 /\ chem \in {6, 8, 13, 15, 17, 19, 26, 27, 33}
    \/ p = 445000 /\ chem \in {6, 8, 13, 15, 17, 19, 27, 33, 236}
    \/ p = 479000 /\ chem = 404

SourceSpecies(p, chem) ==
    /\ p = 469000
    /\ chem \in {2, 5, 9, 10, 12, 16, 18, 19, 42, 52, 99, 100, 129, 224,
                 226, 233, 311, 933, 934} \cup 45..48

Composition(m) ==
    IF m.param < 400000 \/ m.param >= 500000 THEN Missing
    ELSE IF ~Has(m, "chem") THEN Throws
    ELSE IF Has(m, "wavelength")
    THEN IF OpticalSpecies(m.param, m.chem) THEN "AerosolOptical" ELSE Throws
    ELSE IF AerosolSpecies(m.param, m.chem) THEN "Aerosol"
    ELSE IF ChemSpecies(m.param, m.chem) THEN "Chem"
    ELSE IF SourceSpecies(m.param, m.chem) THEN "ChemicalSource" ELSE Throws
----------------------------------------------------------------------------
(* The concepts that read a few keys.                                      *)

When(condition, variant) == IF condition THEN variant ELSE Missing

Analysis(m) == When(Has(m, "anoffset"), "Default")

BrightnessTemperature(m) ==
    IF m.param # 194 \/ ~Has(m, "stream") THEN Missing
    ELSE IF m.stream \notin {"oper", "elda"} THEN Missing
    ELSE IF ~Has(m, "channel") THEN Throws
    ELSE IF m.stream = "elda" THEN "EnsembleMean" ELSE "Default"

Derived(m) ==
    CASE m.type \in {"em", "es", "ses", "taem", "taes", "efi", "efic"} -> "Default"
      [] m.type = "sot" -> "ShiftOfTails"
      [] OTHER -> Missing

Destine(m) ==
    IF Has(m, "anoffset") \/ m.class # "d1" THEN Missing
    ELSE IF ~Has(m, "dataset") THEN Throws
    ELSE CASE m.dataset = "extremes-dt" -> "ExtremesDT"
           [] m.dataset = "climate-dt"  -> "ClimateDT"
           [] OTHER -> Throws

Ensemble(m) ==
    IF Has(m, "number") /\ m.type \notin {"me", "eme", "efi", "efic", "sot"}
    THEN "Individual"
    ELSE When(m.type = "ep" /\ m.param \in ProbabilityParams,
              "ProbabilityLargeEnsemble")

Iteration(m) == When(Has(m, "iteration"), "Default")

Longrange(m) == When(Has(m, "method") /\ Has(m, "system"), "Default")

Mars(m) == When(\A k \in {"class", "type", "stream", "expver"} : Has(m, k),
                "Default")

ModelError(m) ==
    IF m.type \notin {"eme", "me"} THEN Missing
    ELSE IF Has(m, "number") THEN "ComponentIndex"
    ELSE When(Has(m, "coeffindex"), "FourierCoefficients")

Packing(m) ==
    CASE m.packing = "simple"  -> "Simple"
      [] m.packing = "ccsds"   -> "Ccsds"
      [] m.packing = "complex" -> "SpectralComplex"
      [] OTHER -> Throws

ReferencePeriod(m) == When(m.type \in {"efi", "efic", "sot"}, "Default")

ReferenceTime(m) == IF Has(m, "hdate") THEN "Reforecast" ELSE "Standard"

GridVariant == [regular_gg |-> "RegularGaussian", reduced_gg |-> "ReducedGaussian",
                regular_ll |-> "Latlon", ORCA |-> "Orca", HEALPix |-> "Healpix"]

Representation(m) ==
    IF Has(m, "truncation") THEN "SphericalHarmonics"
    ELSE IF Has(m, "grid") /\ m.grid \in DOMAIN GridVariant
         THEN GridVariant[m.grid] ELSE Throws

Satellite(m) == When(IsSatellite(m), "Default")

ShapeOfTheEarth(m) == When(~Has(m, "truncation"), "Default")

Wave(m) ==
    IF m.param \in 140114..140120 THEN "Period"
    ELSE IF m.param # 140251 THEN Missing
    ELSE IF IsWaveSpectrum(m) THEN "Spectra" ELSE Throws
----------------------------------------------------------------------------
(* Every concept at once, in the order of AllConcepts.h: what              *)
(* resolveActiveConcepts.h computes before a layout is chosen.             *)

Always == "Default"

ActiveVariants(m) ==
    [analysis |-> Analysis(m), composition |-> Composition(m), dataType |-> Always,
     derived |-> Derived(m), destine |-> Destine(m), ensemble |-> Ensemble(m),
     generatingProcess |-> Always, level |-> Level(m), longrange |-> Longrange(m),
     iteration |-> Iteration(m), mars |-> Mars(m), nil |-> Always,
     origin |-> Always, packing |-> Packing(m), param |-> "ParamId",
     pointInTime |-> PointInTime(m.param), referenceTime |-> ReferenceTime(m),
     representation |-> Representation(m), satellite |-> Satellite(m),
     shapeOfTheEarth |-> ShapeOfTheEarth(m), statistics |-> Statistics(m.param),
     tables |-> Always, wave |-> Wave(m), modelError |-> ModelError(m),
     brightnessTemperature |-> BrightnessTemperature(m),
     strikeProbability |-> StrikeProbability(m.param),
     referencePeriod |-> ReferencePeriod(m)]

RequiredKeys == {"param", "type", "class", "packing"}

\* The variant of each concept; without a required key a matcher throws.
Variants(m) == IF RequiredKeys \subseteq DOMAIN m THEN ActiveVariants(m)
                                                 ELSE [c \in Concepts |-> Throws]

MatchersOk(variants) == \A c \in Concepts : variants[c] # Throws

Active(variants) == {c \in Concepts : variants[c] # Missing}
=============================================================================
