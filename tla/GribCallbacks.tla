----------------------------- MODULE GribCallbacks -----------------------------
(***************************************************************************)
(* Which cells of an encoding plan a concept fills: the descriptor of each *)
(* concept (backend/concepts/<concept>/<concept>ConceptDescriptor.h) gives *)
(* the registry its callback for a stage, a section and a variant, or none *)
(* where the concept is not applicable there.  Here stage, s and v are     *)
(* those of the cell, and c is the call.                                   *)
(***************************************************************************)
EXTENDS GribEncoding

AnalysisApplicable(stage, s, v) ==
    v = "Default" /\ stage = Preset /\ s = LocalUseSection
AnalysisConcept(stage, s, v, c) ==
    IF AnalysisApplicable(stage, s, v) THEN AnalysisOp(c) ELSE NoWrites

BrightnessTemperatureApplicable(stage, s, v) ==
    stage = Preset /\ s = LocalUseSection
BrightnessTemperatureConcept(stage, s, v, c) ==
    IF BrightnessTemperatureApplicable(stage, s, v) THEN BrightnessTemperatureOp(v, c) ELSE NoWrites

CompositionApplicable(stage, s, v) ==
    stage = Preset /\ s = ProductDefinitionSection
CompositionConcept(stage, s, v, c) ==
    IF CompositionApplicable(stage, s, v) THEN CompositionOp(v, c) ELSE NoWrites

DataTypeApplicable(stage, s, v) ==
    v = "Default" /\ stage = Override /\ s = IdentificationSection
DataTypeConcept(stage, s, v, c) ==
    IF DataTypeApplicable(stage, s, v) THEN DataTypeOp(c) ELSE NoWrites

DerivedApplicable(stage, s, v) ==
    stage = Preset /\ s \in {ProductDefinitionSection, LocalUseSection}
DerivedConcept(stage, s, v, c) ==
    IF DerivedApplicable(stage, s, v) THEN DerivedOp(v, c) ELSE NoWrites

DestineApplicable(stage, s, v) ==
    v \in {"ClimateDT", "ExtremesDT"} /\ stage = Preset /\ s = LocalUseSection
DestineConcept(stage, s, v, c) ==
    IF DestineApplicable(stage, s, v) THEN DestineOp(v, c) ELSE NoWrites

EnsembleApplicable(stage, s, v) ==
    /\ v \in {"Individual", "ProbabilityLargeEnsemble"}
    /\ stage = Preset /\ s = ProductDefinitionSection
EnsembleConcept(stage, s, v, c) ==
    IF EnsembleApplicable(stage, s, v) THEN EnsembleOp(v, c) ELSE NoWrites

GeneratingProcessApplicable(stage, s, v) ==
    v = "Default" /\ stage = Preset /\ s = ProductDefinitionSection
GeneratingProcessConcept(stage, s, v, c) ==
    IF GeneratingProcessApplicable(stage, s, v) THEN GeneratingProcessOp(c) ELSE NoWrites

IterationApplicable(stage, s, v) ==
    v = "Default" /\ stage = Preset /\ s = LocalUseSection
IterationConcept(stage, s, v, c) ==
    IF IterationApplicable(stage, s, v) THEN IterationOp(c) ELSE NoWrites

LevelApplicable(stage, s, v) ==
    s = ProductDefinitionSection /\ (NeedPv(v) \/ stage # Allocate)
LevelConcept(stage, s, v, c) ==
    IF LevelApplicable(stage, s, v) THEN LevelOp(stage, v, c) ELSE NoWrites

LongrangeApplicable(stage, s, v) ==
    v = "Default" /\ stage = Preset /\ s = LocalUseSection
LongrangeConcept(stage, s, v, c) ==
    IF LongrangeApplicable(stage, s, v) THEN LongrangeOp(c) ELSE NoWrites

MarsApplicable(stage, s, v) ==
    v = "Default" /\ stage = Preset /\ s = LocalUseSection
MarsConcept(stage, s, v, c) ==
    IF MarsApplicable(stage, s, v) THEN MarsOp(c) ELSE NoWrites

ModelErrorApplicable(stage, s, v) == stage = Preset /\ s = LocalUseSection
ModelErrorConcept(stage, s, v, c) ==
    IF ModelErrorApplicable(stage, s, v) THEN ModelErrorOp(v, c) ELSE NoWrites

NilApplicable(stage, s, v) == FALSE
NilConcept(stage, s, v, c) == NoWrites

OriginApplicable(stage, s, v) ==
    v = "Default" /\ stage = Preset /\ s = IdentificationSection
OriginConcept(stage, s, v, c) ==
    IF OriginApplicable(stage, s, v) THEN OriginOp(c) ELSE NoWrites

PackingApplicable(stage, s, v) ==
    stage = Preset /\ s = DataRepresentationSection
PackingConcept(stage, s, v, c) ==
    IF PackingApplicable(stage, s, v) THEN PackingOp(v, c) ELSE NoWrites

ParamApplicable(stage, s, v) ==
    v = "ParamId" /\ stage \in {Preset, Runtime} /\ s = ProductDefinitionSection
ParamConcept(stage, s, v, c) ==
    IF ParamApplicable(stage, s, v) THEN ParamOp(c) ELSE NoWrites

PointInTimeApplicable(stage, s, v) ==
    stage \in {Allocate, Preset, Runtime} /\ s = ProductDefinitionSection
PointInTimeConcept(stage, s, v, c) ==
    IF PointInTimeApplicable(stage, s, v) THEN PointInTimeOp(stage, c) ELSE NoWrites

ReferencePeriodApplicable(stage, s, v) == FALSE
ReferencePeriodConcept(stage, s, v, c) == NoWrites

ReferenceTimeApplicable(stage, s, v) ==
    /\ stage = Runtime
    /\ \/ v \in {"Standard", "Reforecast"} /\ s = IdentificationSection
       \/ v = "Reforecast" /\ s = ProductDefinitionSection
ReferenceTimeConcept(stage, s, v, c) ==
    IF ReferenceTimeApplicable(stage, s, v) THEN ReferenceTimeOp(stage, s, v, c) ELSE NoWrites

RepresentationApplicable(stage, s, v) ==
    v # "Dummy" /\ stage \in {Allocate, Preset} /\ s = GridDefinitionSection
RepresentationConcept(stage, s, v, c) ==
    IF RepresentationApplicable(stage, s, v) THEN RepresentationOp(stage, v, c) ELSE NoWrites

SatelliteApplicable(stage, s, v) ==
    \/ s = LocalUseSection /\ stage = Preset
    \/ s = ProductDefinitionSection /\ stage \in {Allocate, Preset}
SatelliteConcept(stage, s, v, c) ==
    IF SatelliteApplicable(stage, s, v) THEN SatelliteOp(stage, s, c) ELSE NoWrites

ShapeOfTheEarthApplicable(stage, s, v) ==
    v # "Dummy" /\ stage = Preset /\ s = GridDefinitionSection
ShapeOfTheEarthConcept(stage, s, v, c) ==
    IF ShapeOfTheEarthApplicable(stage, s, v) THEN ShapeOfTheEarthOp(c) ELSE NoWrites

StatisticsApplicable(stage, s, v) ==
    v # "IndexProcessing" /\ s = ProductDefinitionSection
StatisticsConcept(stage, s, v, c) ==
    IF StatisticsApplicable(stage, s, v) THEN StatisticsOp(stage, v, c) ELSE NoWrites

StrikeProbabilityApplicable(stage, s, v) == FALSE
StrikeProbabilityConcept(stage, s, v, c) == NoWrites

TablesApplicable(stage, s, v) == stage = Allocate /\ s = IdentificationSection
TablesConcept(stage, s, v, c) ==
    IF TablesApplicable(stage, s, v) THEN TablesOp ELSE NoWrites

WaveApplicable(stage, s, v) ==
    /\ s = ProductDefinitionSection
    /\ \/ v = "Spectra" /\ stage \in {Allocate, Runtime}
       \/ v = "Period" /\ stage = Preset
WaveConcept(stage, s, v, c) ==
    IF WaveApplicable(stage, s, v) THEN WaveOp(stage, v, c) ELSE NoWrites

----------------------------------------------------------------------------
(* The plan: callbacks[variant][stage][section].                           *)

\* Whether a cell of the plan is filled.
Applicable(concept, v, stage, s) ==
    CASE concept = "analysis" -> AnalysisApplicable(stage, s, v)
      [] concept = "brightnessTemperature" -> BrightnessTemperatureApplicable(stage, s, v)
      [] concept = "composition" -> CompositionApplicable(stage, s, v)
      [] concept = "dataType" -> DataTypeApplicable(stage, s, v)
      [] concept = "derived" -> DerivedApplicable(stage, s, v)
      [] concept = "destine" -> DestineApplicable(stage, s, v)
      [] concept = "ensemble" -> EnsembleApplicable(stage, s, v)
      [] concept = "generatingProcess" -> GeneratingProcessApplicable(stage, s, v)
      [] concept = "iteration" -> IterationApplicable(stage, s, v)
      [] concept = "level" -> LevelApplicable(stage, s, v)
      [] concept = "longrange" -> LongrangeApplicable(stage, s, v)
      [] concept = "mars" -> MarsApplicable(stage, s, v)
      [] concept = "modelError" -> ModelErrorApplicable(stage, s, v)
      [] concept = "nil" -> NilApplicable(stage, s, v)
      [] concept = "origin" -> OriginApplicable(stage, s, v)
      [] concept = "packing" -> PackingApplicable(stage, s, v)
      [] concept = "param" -> ParamApplicable(stage, s, v)
      [] concept = "pointInTime" -> PointInTimeApplicable(stage, s, v)
      [] concept = "referencePeriod" -> ReferencePeriodApplicable(stage, s, v)
      [] concept = "referenceTime" -> ReferenceTimeApplicable(stage, s, v)
      [] concept = "representation" -> RepresentationApplicable(stage, s, v)
      [] concept = "satellite" -> SatelliteApplicable(stage, s, v)
      [] concept = "shapeOfTheEarth" -> ShapeOfTheEarthApplicable(stage, s, v)
      [] concept = "statistics" -> StatisticsApplicable(stage, s, v)
      [] concept = "strikeProbability" -> StrikeProbabilityApplicable(stage, s, v)
      [] concept = "tables" -> TablesApplicable(stage, s, v)
      [] concept = "wave" -> WaveApplicable(stage, s, v)

Callback(concept, v, stage, s, c) ==
    CASE concept = "analysis" -> AnalysisConcept(stage, s, v, c)
      [] concept = "brightnessTemperature" -> BrightnessTemperatureConcept(stage, s, v, c)
      [] concept = "composition" -> CompositionConcept(stage, s, v, c)
      [] concept = "dataType" -> DataTypeConcept(stage, s, v, c)
      [] concept = "derived" -> DerivedConcept(stage, s, v, c)
      [] concept = "destine" -> DestineConcept(stage, s, v, c)
      [] concept = "ensemble" -> EnsembleConcept(stage, s, v, c)
      [] concept = "generatingProcess" -> GeneratingProcessConcept(stage, s, v, c)
      [] concept = "iteration" -> IterationConcept(stage, s, v, c)
      [] concept = "level" -> LevelConcept(stage, s, v, c)
      [] concept = "longrange" -> LongrangeConcept(stage, s, v, c)
      [] concept = "mars" -> MarsConcept(stage, s, v, c)
      [] concept = "modelError" -> ModelErrorConcept(stage, s, v, c)
      [] concept = "nil" -> NilConcept(stage, s, v, c)
      [] concept = "origin" -> OriginConcept(stage, s, v, c)
      [] concept = "packing" -> PackingConcept(stage, s, v, c)
      [] concept = "param" -> ParamConcept(stage, s, v, c)
      [] concept = "pointInTime" -> PointInTimeConcept(stage, s, v, c)
      [] concept = "referencePeriod" -> ReferencePeriodConcept(stage, s, v, c)
      [] concept = "referenceTime" -> ReferenceTimeConcept(stage, s, v, c)
      [] concept = "representation" -> RepresentationConcept(stage, s, v, c)
      [] concept = "satellite" -> SatelliteConcept(stage, s, v, c)
      [] concept = "shapeOfTheEarth" -> ShapeOfTheEarthConcept(stage, s, v, c)
      [] concept = "statistics" -> StatisticsConcept(stage, s, v, c)
      [] concept = "strikeProbability" -> StrikeProbabilityConcept(stage, s, v, c)
      [] concept = "tables" -> TablesConcept(stage, s, v, c)
      [] concept = "wave" -> WaveConcept(stage, s, v, c)
=============================================================================
