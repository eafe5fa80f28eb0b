----------------------------- MODULE GribRegistry -----------------------------
(***************************************************************************)
(* The registry of mars2grib: the concepts, the variants of each, and the  *)
(* numbers by which the resolver, the layout and the encoding plan know a  *)
(* variant (backend/compile-time-registry-engine, the <concept>Enum.h and  *)
(* concepts/AllConcepts.h).  The variants of all the concepts are numbered *)
(* from 0 in the order of the list of concepts: the global index of a      *)
(* variant is the offset of its concept plus its place in it.  The names   *)
(* of the variants, which only a log shows, are left out but for those of  *)
(* levels, which are written to the message.                               *)
(***************************************************************************)
EXTENDS Dictionary

MISSING == 9999999

\* The stages of an encoding plan.
Stages   == 0 .. 3
Allocate == 0
Preset   == 1
Override == 2
Runtime  == 3

\* The sections a plan writes.
Sections           == 0 .. 5
IndicatorSection          == 0
IdentificationSection     == 1
LocalUseSection           == 2
GridDefinitionSection     == 3
ProductDefinitionSection  == 4
DataRepresentationSection == 5
----------------------------------------------------------------------------
(* The variants of each concept, in order.                                 *)

AnalysisVariants == <<"Default">>
CompositionVariants ==
    <<"Chem", "Aerosol", "AerosolOptical", "ChemicalSource",
      "AerosolOpticalSource", "Default">>
DataTypeVariants == <<"Default">>
DerivedVariants == <<"ShiftOfTails", "Default">>
DestineVariants == <<"ClimateDT", "ExtremesDT">>
EnsembleVariants ==
    <<"Individual", "PerturbedParameters", "RandomPatterns",
      "ProbabilityLargeEnsemble">>
GeneratingProcessVariants == <<"Default">>
LevelVariants ==
    <<"Surface", "EntireAtmosphere", "EntireLake", "CloudBase", "Tropopause",
      "NominalTop", "MostUnstableParcel", "MixedLayerParcel", "Isothermal",
      "IsobaricInPa", "IsobaricInHpa", "LowCloudLayer", "MediumCloudLayer",
      "HighCloudLayer", "MeanSea", "HeightAboveSea", "HeightAboveGround",
      "ModelSingleLevel", "ModelMultipleLevel", "Theta", "PotentialVorticity",
      "SnowLayer", "SoilLayer", "SeaIceLayer", "OceanSurface",
      "DepthBelowSeaLayer", "OceanSurfaceToBottom", "LakeBottom", "MixingLayer",
      "OceanModel", "OceanModelLayer", "MixedLayerDepthByDensity",
      "MixedLayerDepthByTemperature", "SnowLayerOverIceOnWater",
      "IceTopOnWater", "IceLayerOnWater", "EntireMeltPond",
      "WaterSurfaceToIsothermalOceanLayer", "AbstractSingleLevel",
      "AbstractLevel", "AbstractMultipleLevel", "HeightAboveSeaAt10M",
      "HeightAboveSeaAt2M", "HeightAboveGroundAt10M", "HeightAboveGroundAt2M",
      "FlightLevel", "Default">>

\* The typeOfLevel of GRIB: the enumerator but for these.
LevelTypeName(v) ==
    CASE v \in {"ModelSingleLevel", "ModelMultipleLevel"} -> "hybrid"
      [] v = "IsobaricInHpa" -> "isobaricInhPa"
      [] OTHER -> v

LongrangeVariants == <<"Default">>
IterationVariants == <<"Default">>
MarsVariants == <<"Default">>
NilVariants == <<"Default">>
OriginVariants == <<"Default">>
PackingVariants == <<"Simple", "Ccsds", "SpectralComplex", "Default">>
ParamVariants == <<"ParamId">>
PointInTimeVariants == <<"Default">>
ReferenceTimeVariants == <<"Standard", "Reforecast">>
RepresentationVariants ==
    <<"Latlon", "RegularGaussian", "ReducedGaussian", "SphericalHarmonics",
      "GeneralUnstructured", "Healpix", "Orca", "Fesom", "Dummy", "Default">>
SatelliteVariants == <<"Default">>
ShapeOfTheEarthVariants == <<"Dummy", "Default">>
StatisticsVariants ==
    <<"Average", "Accumulation", "Maximum", "Minimum", "DifferenceFromStart",
      "RootMeanSquare", "StandardDeviation", "Covariance", "DifferenceFromEnd",
      "Ratio", "StandardizedAnomaly", "Summation", "ReturnPeriod", "Median",
      "Severity", "Mode", "IndexProcessing", "Default">>
TablesVariants == <<"Custom", "Default">>
WaveVariants == <<"Spectra", "Period", "Default">>
ModelErrorVariants == <<"ComponentIndex", "FourierCoefficients">>
BrightnessTemperatureVariants == <<"EnsembleMean", "Default">>
StrikeProbabilityVariants == <<"Default">>
ReferencePeriodVariants == <<"Default">>

Entry(name, variants) == [concept |-> name, variants |-> variants]

AllConcepts ==
    <<Entry("analysis", AnalysisVariants),
      Entry("composition", CompositionVariants),
      Entry("dataType", DataTypeVariants),
      Entry("derived", DerivedVariants),
      Entry("destine", DestineVariants),
      Entry("ensemble", EnsembleVariants),
      Entry("generatingProcess", GeneratingProcessVariants),
      Entry("level", LevelVariants),
      Entry("longrange", LongrangeVariants),
      Entry("iteration", IterationVariants),
      Entry("mars", MarsVariants),
      Entry("nil", NilVariants),
      Entry("origin", OriginVariants),
      Entry("packing", PackingVariants),
      Entry("param", ParamVariants),
      Entry("pointInTime", PointInTimeVariants),
      Entry("referenceTime", ReferenceTimeVariants),
      Entry("representation", RepresentationVariants),
      Entry("satellite", SatelliteVariants),
      Entry("shapeOfTheEarth", ShapeOfTheEarthVariants),
      Entry("statistics", StatisticsVariants),
      Entry("tables", TablesVariants),
      Entry("wave", WaveVariants),
      Entry("modelError", ModelErrorVariants),
      Entry("brightnessTemperature", BrightnessTemperatureVariants),
      Entry("strikeProbability", StrikeProbabilityVariants),
      Entry("referencePeriod", ReferencePeriodVariants)>>
----------------------------------------------------------------------------
(* The tables that are computed of it.                                     *)

NConcepts == Len(AllConcepts)
ConceptIds == 0 .. NConcepts - 1
EntryName(i) == AllConcepts[i + 1].concept
Concepts  == {EntryName(i) : i \in ConceptIds}
ConceptId(concept) == CHOOSE i \in ConceptIds : EntryName(i) = concept
VariantList(concept) == AllConcepts[ConceptId(concept) + 1].variants
VariantsOfConcept(concept) == {VariantList(concept)[i] : i \in DOMAIN VariantList(concept)}

\* Where the block of a concept begins; the last entry is the total.
ConceptOffsets[i \in 0 .. NConcepts] ==
    IF i = 0 THEN 0 ELSE ConceptOffsets[i - 1] + Len(AllConcepts[i].variants)
NVariants == ConceptOffsets[NConcepts]
VariantIds == 0 .. NVariants - 1

LocalIndex(concept, variant) ==
    LET list == VariantList(concept)
    IN  IF \E i \in DOMAIN list : list[i] = variant
        THEN (CHOOSE i \in DOMAIN list : list[i] = variant) - 1
        ELSE MISSING

GlobalIndex(concept, variant) ==
    LET local == LocalIndex(concept, variant)
    IN  IF local = MISSING THEN MISSING ELSE ConceptOffsets[ConceptId(concept)] + local

\* From a global index back to the concept and the variant.
ConceptIdArr == [g \in VariantIds |->
    CHOOSE i \in ConceptIds : ConceptOffsets[i] <= g /\ g < ConceptOffsets[i + 1]]
VariantIdArr == [g \in VariantIds |-> g - ConceptOffsets[ConceptIdArr[g]]]
ConceptNameArr == [g \in VariantIds |-> EntryName(ConceptIdArr[g])]
VariantNameArr == [g \in VariantIds |->
    AllConcepts[ConceptIdArr[g] + 1].variants[VariantIdArr[g] + 1]]

(* mutant: the last variant of a concept is not its own *)
MakeIdArrayFromConceptButLast(concept) ==
    {ConceptOffsets[ConceptId(concept)] + i : i \in 0 .. Len(VariantList(concept)) - 2}

MakeIdArrayFromConcept(concept) ==
    {ConceptOffsets[ConceptId(concept)] + i : i \in 0 .. Len(VariantList(concept)) - 1}
MakeIdArrayFromVariants(concept, variants) == {GlobalIndex(concept, v) : v \in variants}
=============================================================================
