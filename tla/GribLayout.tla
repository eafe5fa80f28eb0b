------------------------------ MODULE GribLayout ------------------------------
(***************************************************************************)
(* Which template each section of a GRIB message gets, and which concepts  *)
(* write it: the recipes of mars2grib (frontend/resolution/section-recipes)*)
(* and the selector that looks a request up in them                        *)
(* (backend/sections/resolver).                                            *)
(*                                                                         *)
(* A recipe names a template, the concepts any variant of which it takes   *)
(* (select) and those of which it takes some variants (only).              *)
(***************************************************************************)
EXTENDS FiniteSets, GribConcepts

NoVariants == [c \in {} |-> {}]

Recipe(template, select) ==
    [template |-> template, select |-> select, only |-> NoVariants]

RecipeOf(template, select, only) ==
    [template |-> template, select |-> select, only |-> only]

Section0Recipes == {Recipe(0, {"nil"})}

(* mutant: a concept no recipe mentions *)
Section1RecipesWithoutType == {Recipe(0, {"origin", "tables", "referenceTime"})}

Section1Recipes == {Recipe(0, {"origin", "tables", "referenceTime", "dataType"})}

Section2Recipes ==
    {Recipe(1, {"mars"}),
     Recipe(15, {"mars", "longrange"}),
     Recipe(20, {"mars", "iteration"}),
     Recipe(24, {"mars", "satellite"}),
     Recipe(25, {"mars", "modelError"}),
     Recipe(36, {"mars", "analysis"}),
     RecipeOf(37, {"mars", "analysis"}, [brightnessTemperature |-> {"EnsembleMean"}]),
     RecipeOf(37, {"mars", "analysis", "satellite"},
              [brightnessTemperature |-> {"Default"}]),
     Recipe(38, {"mars", "iteration", "analysis"}),
     Recipe(39, {"mars", "analysis", "modelError"}),
     RecipeOf(1001, {"mars"}, [destine |-> {"ClimateDT"}]),
     RecipeOf(1002, {"mars"}, [destine |-> {"ExtremesDT"}])}

OnGrid(template, variants) ==
    RecipeOf(template, {"shapeOfTheEarth"}, [representation |-> variants])

Section3Recipes ==
    {OnGrid(0, {"Latlon"}),
     OnGrid(40, {"ReducedGaussian", "RegularGaussian"}),
     RecipeOf(50, {}, [representation |-> {"SphericalHarmonics"}]),
     OnGrid(101, {"GeneralUnstructured"}),
     OnGrid(101, {"Orca"}),
     OnGrid(150, {"Healpix"}),
     RecipeOf(1000, {}, [shapeOfTheEarth |-> {"Dummy"}, representation |-> {"Dummy"}])}

Individual  == [ensemble |-> {"Individual"}]
Probability == [ensemble |-> {"ProbabilityLargeEnsemble"}]
Reforecast  == [ensemble |-> {"Individual"}, referenceTime |-> {"Reforecast"}]

Product(time)     == {"generatingProcess", "param", time}
Instant           == Product("pointInTime") \cup {"level"}
OverTime          == Product("statistics") \cup {"level"}
OfSpecies(v)      == [composition |-> {v}]

(* mutant: a recipe for members that does not say so *)
OfSpeciesOfAll(v) == [composition |-> {v}]

OfSpeciesMember(v) == [composition |-> {v}, ensemble |-> {"Individual"}]
WaveOf(v)         == [wave |-> {v}]
WaveMember(v)     == [wave |-> {v}, ensemble |-> {"Individual"}]

BasicRecipes ==
    {Recipe(0, Instant),
     RecipeOf(1, Instant, Individual),
     Recipe(2, Instant \cup {"derived"}),
     Recipe(8, OverTime),
     RecipeOf(11, OverTime, Individual),
     Recipe(12, OverTime \cup {"derived"}),
     Recipe(32, Product("pointInTime") \cup {"satellite"}),
     RecipeOf(33, Product("pointInTime") \cup {"satellite"}, Individual)}

SpeciesRecipes ==
    {RecipeOf(40, Instant, OfSpecies("Chem")),
     RecipeOf(41, Instant, OfSpeciesMember("Chem")),
     RecipeOf(42, OverTime, OfSpecies("Chem")),
     RecipeOf(43, OverTime, OfSpeciesMember("Chem")),
     RecipeOf(50, Instant, OfSpecies("Aerosol")),
     RecipeOf(45, Instant, OfSpeciesMember("Aerosol")),
     RecipeOf(46, OverTime, OfSpecies("Aerosol")),
     RecipeOf(85, OverTime, OfSpeciesMember("Aerosol")),
     RecipeOf(48, Instant, OfSpecies("AerosolOptical")),
     RecipeOf(49, OverTime, OfSpeciesMember("AerosolOptical"))}

ReforecastRecipes == {RecipeOf(60, Instant, Reforecast), RecipeOf(61, OverTime, Reforecast)}

SourceRecipes ==
    {RecipeOf(76, Instant, OfSpecies("ChemicalSource")),
     RecipeOf(77, Instant, OfSpeciesMember("ChemicalSource")),
     RecipeOf(78, OverTime, OfSpecies("ChemicalSource")),
     RecipeOf(79, Instant, OfSpecies("AerosolOpticalSource")),
     RecipeOf(79, OverTime, OfSpeciesMember("ChemicalSource"))}

WaveRecipes ==
    {RecipeOf(99, Product("pointInTime"), WaveOf("Spectra")),
     RecipeOf(100, Product("pointInTime"), WaveMember("Spectra")),
     RecipeOf(103, Product("pointInTime"), WaveOf("Period")),
     RecipeOf(104, Product("pointInTime"), WaveMember("Period"))}

ProbabilityRecipes ==
    {Recipe(107, OverTime \cup {"derived", "referencePeriod"}),
     RecipeOf(121, Instant \cup {"strikeProbability"}, Probability),
     RecipeOf(122, OverTime \cup {"strikeProbability"}, Probability)}

RandomRecipes ==
    {RecipeOf(142, Product("pointInTime"), [ensemble |-> {"PerturbedParameters"}]),
     RecipeOf(143, Product("pointInTime"), [ensemble |-> {"RandomPatterns"}])}

Section4Recipes ==
    UNION {BasicRecipes, SpeciesRecipes, ReforecastRecipes, SourceRecipes, WaveRecipes,
           ProbabilityRecipes, RandomRecipes}

Section5Recipes ==
    {RecipeOf(0, {}, [packing |-> {"Simple"}]),
     RecipeOf(42, {}, [packing |-> {"Ccsds"}]),
     RecipeOf(51, {}, [packing |-> {"SpectralComplex"}])}

SectionRecipes(s) ==
    CASE s = 0 -> Section0Recipes [] s = 1 -> Section1Recipes
      [] s = 2 -> Section2Recipes [] s = 3 -> Section3Recipes
      [] s = 4 -> Section4Recipes [] s = 5 -> Section5Recipes
----------------------------------------------------------------------------
(* The selector of a section.  Variants no recipe of the section mentions  *)
(* are masked out of the key; what is left must be one recipe exactly.     *)

Takes(recipe, c, v) == \/ c \in recipe.select
                       \/ c \in DOMAIN recipe.only /\ v \in recipe.only[c]

CompressionMask(s, c, v) == \E r \in SectionRecipes(s) : Takes(r, c, v)

Key(s, variants) == {c \in Active(variants) : CompressionMask(s, c, variants[c])}

Matches(recipe, key, variants) ==
    /\ key = recipe.select \cup DOMAIN recipe.only
    /\ \A c \in key : Takes(recipe, c, variants[c])

Matching(s, variants) ==
    {r \in SectionRecipes(s) : Matches(r, Key(s, variants), variants)}

(* The layout for the variants of a request: per section its template and  *)
(* the concepts that write it.  A matcher that throws, or a section without*)
(* a recipe, is the end of the call.                                       *)
LayoutOk(variants) ==
    /\ MatchersOk(variants)
    /\ \A s \in Sections : Matching(s, variants) # {}

Layout(variants) ==
    [s \in Sections |->
        [template |-> (CHOOSE r \in Matching(s, variants) : TRUE).template,
         variants |-> [c \in Key(s, variants) |-> variants[c]]]]
----------------------------------------------------------------------------
(* The same lookup as the code does it, on the numbers of the registry: a  *)
(* recipe stands for an entry per combination of the variants it takes,    *)
(* the mask of a section says which variants its entries mention, and what *)
(* is left of the active variants under the mask is the key that is        *)
(* searched for.  compressKey sorts a key by insertion, so that two keys   *)
(* are equal when they hold the same numbers: here a key is a set of them. *)
(* What is found must be the layout that is given above by the concepts.   *)

\* The ids of a Select of the recipe: of any variant, or of those it names.
Dimension(recipe, c) ==
    IF c \in recipe.select THEN MakeIdArrayFromConcept(c)
                           ELSE MakeIdArrayFromVariants(c, recipe.only[c])

Dimensions(recipe) == recipe.select \cup DOMAIN recipe.only

IdsOf(recipe) == UNION {Dimension(recipe, c) : c \in Dimensions(recipe)}

\* Whether one of the combinations of the recipe is this key.
HasEntry(recipe, key) ==
    /\ key \subseteq IdsOf(recipe)
    /\ \A c \in Dimensions(recipe) : Cardinality(key \cap Dimension(recipe, c)) = 1

Mask == [s \in Sections |-> UNION {IdsOf(r) : r \in SectionRecipes(s)}]

CompressKey(s, key) == key \cap Mask[s]

\* The key of a request: its active variants by their numbers.
MakeKey(variants) ==
    {ConceptOffsets[ConceptId(c)] + LocalIndex(c, variants[c]) : c \in Active(variants)}

\* What a search may return: the entries with the key, as layouts of the section.
SectionLayout(recipe, key) ==
    [template |-> recipe.template,
     variants |-> [c \in {ConceptNameArr[i] : i \in key} |->
                      VariantNameArr[CHOOSE i \in key : ConceptNameArr[i] = c]]]

Search(s, variants) ==
    LET key == CompressKey(s, MakeKey(variants))
    IN  {SectionLayout(r, key) : r \in {q \in SectionRecipes(s) : HasEntry(q, key)}}
=============================================================================
