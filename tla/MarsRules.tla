------------------------------- MODULE MarsRules -------------------------------
(***************************************************************************)
(* mars2mars: the rules that turn a request for a legacy parameter into    *)
(* one for the parameter of the new conventions (mars2mars/mappings).      *)
(*                                                                         *)
(* Every rule reads the request that came in and writes to the converted   *)
(* one and to the auxiliary dictionary.  The parameters a rule is about    *)
(* are a table, a set of rows that begin with the legacy parameter.        *)
(***************************************************************************)
EXTENDS Dictionary

Unchanged  == [mars |-> NoKeys, misc |-> NoKeys]
Sets(mars) == [mars |-> mars, misc |-> NoKeys]

Params(table) == {row[1] : row \in table}
Row(table, p) == CHOOSE row \in table : row[1] = p

SetParamLevel(param, levtype, level) ==
    Sets([param |-> param, levtype |-> levtype, levelist |-> level])

SetParamTimespan(param, hours) ==
    Sets([param |-> param, timespan |-> [n |-> hours, u |-> "h"]])
----------------------------------------------------------------------------
ConvertWave2Oper(in) ==
    IF in.stream = "wave" THEN Sets([stream |-> "oper"]) ELSE Unchanged

\* Legacy parameters under their new number.
RenamedParams ==
    {<<130232, 235135>>, <<151163, 262104>>, <<151145, 262124>>, <<172146, 235033>>,
     <<172147, 235034>>, <<172169, 235035>>, <<172175, 235036>>, <<172176, 235037>>,
     <<172177, 235038>>, <<172178, 235039>>, <<172179, 235040>>, <<174098, 262000>>,
     <<151175, 262118>>, <<151132, 262139>>, <<151131, 262140>>, <<72, 260087>>,
     <<73, 260097>>, <<172050, 235026>>, <<172145, 235032>>, <<172189, 235189>>,
     <<172195, 235045>>, <<172196, 235046>>, <<172197, 235047>>}
DailyParams == {<<55, 228004>>, <<56, 235168>>}

ConvertECC1806(in) ==
    IF in.param \in Params(RenamedParams)
    THEN Sets([param |-> Row(RenamedParams, in.param)[2]])
    ELSE IF in.param \in Params(DailyParams)
    THEN SetParamTimespan(Row(DailyParams, in.param)[2], 24)
    ELSE Unchanged

\* Soil and snow: one parameter per layer becomes one parameter on sol levels.
LayeredParams ==
    {<<35, 262024, 1>>, <<36, 262024, 2>>, <<37, 262024, 3>>, <<38, 262024, 4>>,
     <<39, 260199, 1>>, <<40, 260199, 2>>, <<41, 260199, 3>>, <<42, 260199, 4>>,
     <<139, 260360, 1>>, <<170, 260360, 2>>, <<183, 260360, 3>>, <<236, 260360, 4>>}
ParamsWithLayer ==
    {33, 238, 228038, 235080, 237080, 238080, 239080, 260199, 260360, 262000, 262024}

ConvertSFC2SOL(in) ==
    IF in.param \in Params(LayeredParams)
    THEN LET row == Row(LayeredParams, in.param) IN SetParamLevel(row[2], "sol", row[3])
    ELSE IF in.param \in ParamsWithLayer /\ Has(in, "levelist") /\ in.levelist # 0
    THEN SetParamLevel(in.param, "sol", in.levelist)
    ELSE Unchanged

\* Local parameters, the WMO one, and the factor between their units (of 206
\* its integer part).
ScaledParams ==
    {<<164, 228164, 100>>, <<186, 3073, 100>>, <<187, 3074, 100>>, <<188, 3075, 100>>,
     <<143, 228143, 1000>>, <<228, 228228, 1000>>, <<205, 231002, 1000>>,
     <<144, 228144, 10000>>, <<8, 231010, 1000>>, <<9, 231012, 1000>>,
     <<141, 231141, 1000>>, <<142, 3062, 1000>>, <<182, 260259, 1000>>,
     <<198, 160198, 1000>>, <<239, 231057, 1000>>, <<240, 231058, 1000>>,
     <<228216, 231001, 1000>>, <<15, 210199, 100>>, <<16, 210198, 100>>,
     <<17, 210261, 100>>, <<18, 210260, 100>>, <<32, 228032, 100>>, <<174, 260509, 100>>,
     <<243, 260509, 100>>, <<210186, 210201, 100>>, <<210187, 210202, 100>>,
     <<210188, 210200, 100>>, <<210189, 210263, 100>>, <<210190, 210264, 100>>,
     <<210191, 210262, 100>>, <<44, 231003, 1000>>, <<45, 3099, 1000>>,
     <<228251, 231005, 1000>>, <<206, 260132, 46698>>, <<172008, 235020, 1000>>,
     <<172009, 235021, 1000>>, <<172044, 235023, 1000>>, <<172045, 235024, 1000>>,
     <<172142, 235029, 1000>>, <<172143, 235030, 1000>>, <<172144, 235031, 1000>>,
     <<172182, 235043, 1000>>, <<172205, 235048, 1000>>, <<172228, 235055, 1000>>,
     <<235141, 235078, 1000>>, <<235186, 235108, 100>>, <<235187, 235109, 100>>,
     <<235188, 235110, 100>>, <<235243, 235263, 100>>}

SetParamScale(row) ==
    [mars |-> [param |-> row[2]], misc |-> [scaleFactor |-> row[3]]]

Climatological == [mars |-> NoKeys, misc |-> [typeOfGeneratingProcess |-> 9]]

Both(a, b) == [mars |-> a.mars ++ b.mars, misc |-> a.misc ++ b.misc]

ConvertLocal2WMO(in) ==
    IF in.param \notin Params(ScaledParams) THEN Unchanged
    ELSE IF in.param = 174
    THEN Both(Climatological, SetParamScale(Row(ScaledParams, in.param)))
    ELSE SetParamScale(Row(ScaledParams, in.param))

(* mutant: a legacy parameter is replaced by another one *)
WindowParamsChained == {<<201, 121, 0>>, <<121, 237167, 6>>}

\* The window that was part of the parameter becomes the timespan, in hours;
\* 0 where the request has its own.
WindowParams ==
    {<<121, 237167, 6>>, <<228026, 237167, 3>>, <<201, 237167, 0>>,
     <<228035, 237117, 6>>, <<228036, 237321, 6>>, <<228222, 237055, 3>>,
     <<228224, 237055, 6>>, <<228226, 237055, 0>>, <<123, 237318, 6>>,
     <<228028, 237318, 3>>, <<49, 237318, 0>>, <<228051, 235326, 1>>,
     <<228057, 235326, 3>>, <<228058, 235326, 6>>, <<122, 238167, 6>>,
     <<228027, 238167, 3>>, <<202, 238167, 0>>, <<228223, 238055, 3>>,
     <<228225, 238055, 6>>, <<228227, 238055, 0>>, <<260320, 260683, 1>>,
     <<260321, 260683, 3>>, <<260339, 260683, 6>>, <<260318, 260682, 1>>,
     <<260319, 260682, 3>>, <<260338, 260682, 6>>}

FixTimespan(in) ==
    IF in.param \notin Params(WindowParams) THEN Unchanged
    ELSE LET row == Row(WindowParams, in.param)
         IN  IF row[3] = 0 THEN Sets([param |-> row[2]]) ELSE SetParamTimespan(row[2], row[3])

\* Winds whose height was part of the parameter.  levtype is compared with
\* "SFC", and a request has it in lower case.
HeightParams ==
    {<<228246, 131, 100>>, <<228239, 131, 200>>, <<228247, 132, 100>>,
     <<228240, 132, 200>>, <<228249, 10, 100>>, <<228241, 10, 200>>}

FixWindspeed(in) ==
    IF Has(in, "levtype") /\ in.levtype = "SFC" /\ in.param \in Params(HeightParams)
    THEN LET row == Row(HeightParams, in.param) IN SetParamLevel(row[2], "hl", row[3])
    ELSE Unchanged
----------------------------------------------------------------------------
(* Atmospheric composition: rows of the parameter, the new parameter, the  *)
(* species and the wavelength in nanometres, 0 without one.                *)

Series(first, param, species) ==
    {<<first + i - 1, param, species[i], 0>> : i \in DOMAIN species}
Optical(first, param, bands) ==
    {<<first + i - 1, param, bands[i][1], bands[i][2]>> : i \in DOMAIN bands}

\* The species is the number of the parameter in its table.
Numbered(params, param) == {<<p, param, p % 1000, 0>> : p \in params}

OfSpeciesAt(species, wavelengths) == [i \in DOMAIN wavelengths |-> <<species, wavelengths[i]>>]
AtWavelength(species, wavelength) == [i \in DOMAIN species |-> <<species[i], wavelength>>]

\* 210: mixing ratios, columns and fluxes; aerosol optical depths.
Params210 ==
    Series(210001, 402000, <<901, 902, 903, 904, 905, 906, 907, 908, 909, 910, 911>>)
    \cup {<<210022, 453000, 922, 0>>, <<210025, 453000, 922, 0>>, <<210048, 402000, 924, 0>>,
          <<210071, 479000, 404, 0>>, <<210081, 469000, 2, 0>>, <<210085, 469000, 129, 0>>,
          <<210113, 469000, 5, 0>>, <<210170, 402000, 8, 0>>, <<210181, 402000, 11, 0>>,
          <<210183, 401000, 11, 0>>, <<210203, 402000, 236, 0>>, <<210206, 401000, 231, 0>>}
    \cup Series(210072, 400000, <<929, 930, 931>>)
    \cup Series(210090, 469000, <<934, 933>>)
    \cup Series(210102, 469000, <<233, 42, 46, 47, 10, 48, 16>>)
    \cup Series(210115, 469000, <<52, 19, 18, 45>>)
    \cup Series(210121, 402000, <<17, 233, 2, 5>>)
    \cup Series(210125, 401000, <<17, 233, 2, 5>>)
    \cup Optical(210207, 457000, AtWavelength(<<922, 936, 935, 934, 933, 911>>, 550))
    \cup Optical(210213, 457000,
                 OfSpeciesAt(922, <<469, 670, 865, 1240, 340, 355, 380, 400, 440, 500, 532,
                                    645, 800, 858, 1020, 1064, 1640, 2130>>))
    \cup Optical(210250, 457000, AtWavelength(<<900, 914>>, 550))
    \cup Series(210247, 402000, <<912, 913, 21>>)
    \cup Series(210252, 402000, <<915, 916>>)

\* 211: some of the species of 210 again, under the same new parameters.
Params211 ==
    Series(211001, 402000, <<901, 902, 903, 904, 905, 906, 907, 908, 909, 910, 911>>)
    \cup {<<211048, 402000, 924, 0>>, <<211170, 402000, 8, 0>>, <<211203, 402000, 236, 0>>}
    \cup Series(211121, 402000, <<17, 233, 2, 5>>)
    \cup Series(211247, 402000, <<900, 903, 914>>)
    \cup Series(211252, 402000, <<915, 916>>)

\* 215: the seven terms of the budget of some aerosols, one after the other ...
BudgetTerms == <<453000, 406000, 407000, 410000, 411000, 451000, 401000>>
Budget(first, species) ==
    UNION {Series(first + (i - 1) * Len(species), BudgetTerms[i], species) :
               i \in DOMAIN BudgetTerms}

BudgetParams ==
    Budget(215001, <<901, 902, 903>>) \cup Budget(215025, <<904, 905, 906>>)
    \cup Budget(215049, <<908, 907>>) \cup Budget(215065, <<910, 909>>)
    \cup Budget(215081, <<911>>)      \cup Budget(215189, <<912, 913>>)
    \cup Budget(215205, <<914>>)      \cup Budget(215212, <<915>>)
    \cup Budget(215219, <<916>>)
    \cup Optical(215022, 457000, AtWavelength(<<901, 902, 903>>, 550))
    \cup Optical(215046, 457000, AtWavelength(<<904, 905, 906>>, 550))
    \cup Optical(215063, 457000, AtWavelength(<<908, 907>>, 550))
    \cup Optical(215079, 457000, AtWavelength(<<910, 909>>, 550))
    \cup Optical(215088, 457000, AtWavelength(<<911>>, 550))
    \cup Optical(215203, 457000, AtWavelength(<<912, 913>>, 550))
    \cup Optical(215226, 457000, AtWavelength(<<918>>, 550))

\* ... and optical properties over a range of wavelengths.
Wavelengths == <<340, 355, 380, 400, 440, 469, 500, 532, 550, 645, 670, 800, 858, 865,
                 1020, 1064, 1240, 1640>>
Lidar == <<355, 532, 1064>>

SpectralParams ==
    Optical(215093, 457000, AtWavelength(<<922, 904, 910>>, 532))
    \cup Optical(215096, 472000, OfSpeciesAt(922, Wavelengths))
    \cup Optical(215114, 457000, OfSpeciesAt(923, Wavelengths))
    \cup Optical(215132, 458000, OfSpeciesAt(922, Wavelengths))
    \cup Optical(215150, 459000, OfSpeciesAt(922, Wavelengths))
    \cup {<<215176, 472000, 922, 2130>>, <<215177, 457000, 923, 2130>>,
          <<215178, 458000, 922, 2130>>, <<215179, 459000, 922, 2130>>}
    \cup Optical(215180, 462000, OfSpeciesAt(922, Lidar))
    \cup Optical(215183, 460000, OfSpeciesAt(922, Lidar))
    \cup Optical(215186, 461000, OfSpeciesAt(922, Lidar))

\* 217 and 218: mixing ratios and columns of the species of a chemistry scheme.
SpeciesParams(table, param) ==
    LET species == {3, 6, 7, 9, 10} \cup 12 .. 16 \cup 18 .. 24 \cup 26 .. 30
                   \cup (32 .. 58 \ {51, 54}) \cup 63 .. 80
                   \cup {82, 83, 85, 86, 99, 100, 101, 107, 159, 161, 169, 222}
                   \cup 173 .. 178 \cup 186 .. 204 \cup 224 .. 230
    IN  Numbered({table + n : n \in species}, param)
        \cup {<<table + 11, param, 311, 0>>, <<table + 51, param, 900, 0>>,
              <<table + 54, param, 112, 0>>, <<table + 206, param, 917, 0>>}

Params217 ==
    SpeciesParams(217000, 402000) \cup Numbered({217004, 217059, 217118}, 402000)

Params218 ==
    SpeciesParams(218000, 401000)
    \cup {<<218004, 401000, 404, 0>>, <<218059, 401000, 359, 0>>,
          <<218117, 401000, 14, 0>>, <<218221, 401000, 8, 0>>}

\* 219, 222 and 223: emissions and depositions.
Params219 ==
    Series(219207, 469000, <<9, 311, 12>>) \cup Series(219212, 469000, <<99, 100>>)
    \cup Series(219219, 469000, <<226, 224>>)

FluxParams(table, param) ==
    Numbered({table + n : n \in {6, 13, 15, 19, 27, 33}}, param)
    \cup {<<table + 17, param, 8, 0>>, <<table + 31, param, 17, 0>>}

Params222 == FluxParams(222000, 445000) \cup {<<222001, 445000, 236, 0>>}
Params223 == FluxParams(223000, 444000) \cup Numbered({223026}, 444000)

ChemicalParams ==
    Params210 \cup Params211 \cup BudgetParams \cup SpectralParams
    \cup Params217 \cup Params218 \cup Params219 \cup Params222 \cup Params223

SetParamChem(row) ==
    Sets([param |-> row[2], chem |-> row[3]] ++
         (IF row[4] = 0 THEN NoKeys ELSE [wavelength |-> Double(row[4])]))

ConvertChemical(in) ==
    IF in.param \in Params(ChemicalParams)
    THEN SetParamChem(Row(ChemicalParams, in.param)) ELSE Unchanged
----------------------------------------------------------------------------
(* convertAll: a copy of the request, and the rules over it in their order.*)

Rules(in) ==
    <<ConvertWave2Oper(in), ConvertECC1806(in), ConvertSFC2SOL(in), ConvertLocal2WMO(in),
      FixTimespan(in), FixWindspeed(in), ConvertChemical(in)>>

Applied(rules, in) ==
    LET after[i \in 0 .. Len(rules)] ==
            IF i = 0 THEN [mars |-> in, misc |-> NoKeys] ELSE Both(rules[i], after[i - 1])
    IN  after[Len(rules)]

\* <<[mars, misc]>>, or Failed: without a stream or a parameter a rule throws.
ConvertAll(in) ==
    If({"stream", "param"} \subseteq DOMAIN in, Applied(Rules(in), in))

AllLegacyParams ==
    UNION {Params(t) : t \in {RenamedParams, DailyParams, LayeredParams, ScaledParams,
                              WindowParams, HeightParams, ChemicalParams}}
=============================================================================
