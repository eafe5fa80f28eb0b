--------------------------- MODULE GribStagesProofs ---------------------------
(***************************************************************************)
(* Theorems about GribStages, for any set of requests: the layout of a     *)
(* call is the only one, its message is valid when asked for, no two       *)
(* requests become one message, and an entry of the cache serves every     *)
(* request of its structure.                                               *)
(***************************************************************************)
EXTENDS GribStages, GribTimesProofs, FiniteSetTheorems, TLAPS
----------------------------------------------------------------------------
(* The message of a call when it has row rows behind it.                   *)
Reached(r, row) == IF row = 0 THEN Found(EmptyMessage) ELSE AfterRows(LayoutOf[r], r)[row - 1]

(* The last row of finaliseEncoding(), on the sample of another request.   *)
Finalised(r) == AfterRow(cache[1].layout, Runtime + 1, r, Found(cache[1].sample))

(* job is a record, and what is said of its fields is about all of it.     *)
JobShape == job = [call |-> job.call, state |-> job.state, request |-> job.request,
                   layout |-> job.layout, row |-> job.row, out |-> job.out]

JobType ==
    /\ JobShape
    /\ job.call \in Calls \cup {"none"}
    /\ job.state \in {"running", "returned", "threw"}
    /\ job.row \in 0 .. Runtime + 2
    /\ job.call # "none" => job.request \in Requests
    /\ job.call = "none" => job.state = "returned"

(* An entry is the layout and the sample of the request it is of.          *)
CacheHeld ==
    cache # <<>> =>
        /\ cache = <<cache[1]>>
        /\ cache[1].of \in Requests
        /\ cache[1].layout = LayoutOf[cache[1].of]
        /\ cache[1].layout # <<>>
        /\ Found(cache[1].sample) = PreparedSample[cache[1].of]

(* A call that runs has the message that its rows so far have made.        *)
RunHeld ==
    Running =>
        /\ job.layout # <<>> /\ \E r \in Requests : job.layout = LayoutOf[r]
        /\ job.row <= LastRow(job.call) + 1
        /\ job.call # "finalise" =>
               /\ job.layout = LayoutOf[job.request]
               /\ Found(job.out) = Reached(job.request, job.row)
        /\ job.call = "finalise" =>
               /\ cache # <<>>
               /\ job.layout = cache[1].layout
               /\ job.row >= Runtime + 1
               /\ Found(job.out) = IF job.row = Runtime + 1 THEN Found(cache[1].sample)
                                                            ELSE Finalised(job.request)

(* A call that has ended has made of the last row what it returns.         *)
Ending(last) == IF last = Failed THEN job.state = "threw"
                ELSE /\ job.state = "returned"
                     /\ job.out = EncodeValues(job.request.misc, FieldValues) ++ last[1]

EndHeld ==
    ~Running =>
        /\ job.call = "encode" => Ending(AfterRows(LayoutOf[job.request], job.request)[Runtime + 1])
        /\ job.call = "finalise" => cache # <<>> /\ Ending(Finalised(job.request))

IInv == JobType /\ CacheHeld /\ RunHeld /\ EndHeld

LEMMA LayoutsAreLayouts ==
    ASSUME NEW r \in Requests
    PROVE  LayoutOf[r] = <<>> \/ DOMAIN LayoutOf[r] = Sections
BY DEF LayoutOf, LayoutFor, Layout

LEMMA InitEstablishes == Init => IInv
BY DEF Init, IInv, JobType, JobShape, CacheHeld, RunHeld, EndHeld, Running, Idle, Calls, Runtime

LEMMA StartKeeps ==
    ASSUME IInv, NEW r \in Requests, NEW call \in {"encode", "prepare"},
           EncodeOrPrepare(call, r)
    PROVE  IInv'
<1> USE DEF EncodeOrPrepare
<1>1. CASE LayoutOf[r] # <<>> /\ Start(call, r, LayoutOf[r], 0, EmptyMessage)
  <2>1. job' = [call |-> call, state |-> "running", request |-> r, layout |-> LayoutOf[r],
                row |-> 0, out |-> EmptyMessage]
    BY <1>1 DEF Start
  <2>2. JobType'
    BY <2>1 DEF JobType, JobShape, Calls, Runtime
  <2>3. CacheHeld'
    BY DEF IInv, CacheHeld
  <2>4. RunHeld'
    BY <1>1, <2>1 DEF RunHeld, Reached, LastRow, Runtime, Override
  <2> QED
    BY <2>1, <2>2, <2>3, <2>4 DEF IInv, EndHeld, Running
<1>2. CASE NoLayout(call, r)
  <2>1. job' = [call |-> call, state |-> "threw", request |-> r, layout |-> <<>>,
                row |-> 0, out |-> EmptyMessage]
    BY <1>2 DEF NoLayout, Idle
  <2>2. JobType'
    BY <2>1 DEF JobType, JobShape, Calls, Runtime
  <2>3. CacheHeld'
    BY DEF IInv, CacheHeld
  <2>4. AfterRows(LayoutOf[r], r)[Runtime + 1] = Failed
    BY <1>2, NoMessageWithoutLayout DEF NoLayout, Rows, Runtime
  <2> QED
    BY <2>1, <2>2, <2>3, <2>4 DEF IInv, RunHeld, EndHeld, Running, Ending
<1> QED
  BY <1>1, <1>2

LEMMA FinaliseKeeps ==
    ASSUME IInv, NEW r \in Requests, FinaliseEncoding(r)
    PROVE  IInv'
<1> USE DEF FinaliseEncoding
<1>1. job' = [call |-> "finalise", state |-> "running", request |-> r,
              layout |-> cache[1].layout, row |-> Runtime + 1, out |-> cache[1].sample]
  BY DEF Start
<1>2. JobType'
  BY <1>1 DEF JobType, JobShape, Calls, Runtime
<1>3. CacheHeld'
  BY DEF IInv, CacheHeld
<1>4. RunHeld'
  BY <1>1 DEF IInv, CacheHeld, RunHeld, LastRow, Runtime
<1> QED
  BY <1>1, <1>2, <1>3, <1>4 DEF IInv, EndHeld, Running

LEMMA RowKeeps ==
    ASSUME IInv, RunRow
    PROVE  IInv'
<1> DEFINE after == AfterRow(job.layout, job.row, job.request, Found(job.out))
<1>0. /\ JobShape /\ Running /\ job.row <= LastRow(job.call)
      /\ job.call \in Calls /\ job.request \in Requests /\ job.row \in 0 .. Runtime + 2
      /\ UNCHANGED cache
  BY DEF RunRow, IInv, JobType, Running
<1>1. job.row \in Rows /\ LastRow(job.call) \in Rows
  BY <1>0 DEF LastRow, Rows, Runtime, Override
<1>2. CacheHeld'
  BY <1>0 DEF IInv, CacheHeld
<1>3. job.call # "finalise" =>
          /\ job.layout = LayoutOf[job.request]
          /\ after = AfterRows(LayoutOf[job.request], job.request)[job.row]
  <2> SUFFICES ASSUME job.call # "finalise"
               PROVE  /\ job.layout = LayoutOf[job.request]
                      /\ after = AfterRows(LayoutOf[job.request], job.request)[job.row]
    OBVIOUS
  <2>1. job.layout = LayoutOf[job.request] /\ Found(job.out) = Reached(job.request, job.row)
    BY <1>0 DEF IInv, RunHeld
  <2>2. job.row = 0 \/ job.row \in 1 .. Runtime + 1
    BY <1>1 DEF Rows, Runtime
  <2> QED
    BY <2>1, <2>2, RowByRow DEF Reached
<1>4. job.call = "finalise" =>
          /\ cache # <<>> /\ job.layout = cache[1].layout
          /\ job.row = Runtime + 1 /\ after = Finalised(job.request)
  BY <1>0, <1>1 DEF IInv, RunHeld, Finalised, Rows, Runtime
<1>5. CASE after = Failed
  <2>1. job' = [call |-> job.call, state |-> "threw", request |-> job.request,
                layout |-> job.layout, row |-> job.row, out |-> job.out]
    BY <1>0, <1>5 DEF RunRow, JobShape
  <2>2. JobType'
    BY <1>0, <2>1 DEF JobType, JobShape, Calls
  <2>3. job.call # "finalise" =>
            AfterRows(LayoutOf[job.request], job.request)[Runtime + 1] = Failed
    <3>1. job.row = Runtime + 1 \/ job.row \in 0 .. Runtime
      BY <1>1 DEF Rows, Runtime
    <3> QED
      BY <1>3, <1>5, <3>1, FailedStays
  <2>4. job.call = "finalise" => cache # <<>> /\ Finalised(job.request) = Failed
    BY <1>4, <1>5
  <2> QED
    BY <1>0, <1>2, <2>1, <2>2, <2>3, <2>4
    DEF IInv, RunHeld, EndHeld, Running, Ending, Finalised
<1>6. CASE after # Failed
  <2>1. job' = [call |-> job.call, state |-> job.state, request |-> job.request,
                layout |-> job.layout, row |-> job.row + 1, out |-> after[1]]
    BY <1>0, <1>6 DEF RunRow, JobShape
  <2>2. JobType'
    BY <1>0, <1>1, <2>1 DEF JobType, JobShape, Calls, Rows, Runtime, Running
  <2>3. Found(after[1]) = after
    BY <1>6, RowResult
  <2>4. RunHeld'
    <3>1. job.row + 1 <= LastRow(job.call) + 1
      BY <1>0, <1>1 DEF Rows, Runtime
    <3>2. job.layout # <<>> /\ \E r \in Requests : job.layout = LayoutOf[r]
      BY <1>0 DEF IInv, RunHeld
    <3>3. job.call # "finalise" => Found(after[1]) = Reached(job.request, job.row + 1)
      BY <1>1, <1>3, <2>3 DEF Reached, Rows, Runtime
    <3>4. job.call = "finalise" =>
              /\ job.row + 1 = Runtime + 2
              /\ Found(after[1]) = Finalised(job.request)
      BY <1>4, <2>3 DEF Runtime
    <3> QED
      BY <1>0, <1>3, <1>4, <2>1, <3>1, <3>2, <3>3, <3>4
      DEF RunHeld, Running, Reached, Finalised, Runtime
  <2> QED
    BY <1>0, <1>2, <2>1, <2>2, <2>4 DEF IInv, EndHeld, Running
<1> QED
  BY <1>5, <1>6

LEMMA MessageKeeps ==
    ASSUME IInv, ReturnMessage
    PROVE  IInv'
<1>0. /\ JobShape /\ Running /\ job.row > LastRow(job.call)
      /\ job.call \in {"encode", "finalise"} /\ job.request \in Requests
      /\ job.row \in 0 .. Runtime + 2 /\ UNCHANGED cache
  BY DEF ReturnMessage, IInv, JobType, Running
<1>1. job.row = Runtime + 2
  BY <1>0 DEF LastRow, Runtime
<1>2. job' = [call |-> job.call, state |-> "returned", request |-> job.request,
              layout |-> job.layout, row |-> job.row,
              out |-> EncodeValues(job.request.misc, FieldValues) ++ job.out]
  BY <1>0 DEF ReturnMessage, JobShape
<1>3. JobType'
  BY <1>0, <1>2 DEF JobType, JobShape, Calls
<1>4. CacheHeld'
  BY <1>0 DEF IInv, CacheHeld
<1>5. job.call = "encode" =>
          AfterRows(LayoutOf[job.request], job.request)[Runtime + 1] = Found(job.out)
  BY <1>0, <1>1 DEF IInv, RunHeld, Reached, Runtime
<1>6. job.call = "finalise" => cache # <<>> /\ Finalised(job.request) = Found(job.out)
  BY <1>0, <1>1 DEF IInv, RunHeld, Runtime
<1> QED
  BY <1>0, <1>2, <1>3, <1>4, <1>5, <1>6
  DEF IInv, RunHeld, EndHeld, Running, Ending, Finalised, Found, Failed

LEMMA CacheKeeps ==
    ASSUME IInv, ReturnCache
    PROVE  IInv'
<1>0. /\ Running /\ job.call = "prepare" /\ job.request \in Requests
      /\ job.row \in 0 .. Runtime + 2 /\ job.row = Override + 2
  BY DEF ReturnCache, IInv, JobType, RunHeld, LastRow, Override, Runtime
<1>1. /\ cache' = <<[of |-> job.request, layout |-> job.layout, sample |-> job.out]>>
      /\ job' = Idle
  BY DEF ReturnCache
<1>2. JobType'
  BY <1>1 DEF JobType, JobShape, Idle, Runtime
<1>3. /\ job.layout = LayoutOf[job.request] /\ job.layout # <<>>
      /\ Found(job.out) = AfterRows(LayoutOf[job.request], job.request)[Override + 1]
  BY <1>0 DEF IInv, RunHeld, Reached, Override
<1>4. CacheHeld'
  BY <1>0, <1>1, <1>3 DEF CacheHeld, PreparedSample
<1> QED
  BY <1>1, <1>2, <1>4 DEF IInv, RunHeld, EndHeld, Running, Idle

LEMMA NextKeeps == IInv /\ [Next]_vars => IInv'
<1> SUFFICES ASSUME IInv, [Next]_vars PROVE IInv'
  OBVIOUS
<1>1. ASSUME NEW r \in Requests, EncodeOrPrepare("encode", r) PROVE IInv'
  BY <1>1, StartKeeps
<1>2. ASSUME NEW r \in Requests, FinaliseEncoding(r) PROVE IInv'
  BY <1>2, FinaliseKeeps
<1>3. ASSUME NEW r \in Prepared, EncodeOrPrepare("prepare", r) PROVE IInv'
  BY <1>3, StartKeeps, PreparedAssumption
<1>4. CASE RunRow
  BY <1>4, RowKeeps
<1>5. CASE ReturnMessage
  BY <1>5, MessageKeeps
<1>6. CASE ReturnCache
  BY <1>6, CacheKeeps
<1>7. CASE UNCHANGED vars
  BY <1>7 DEF vars, IInv, JobType, JobShape, CacheHeld, RunHeld, EndHeld, Running, Reached,
              Ending, Finalised
<1> QED
  BY <1>1, <1>2, <1>3, <1>4, <1>5, <1>6, <1>7 DEF Next

THEOREM InvariantHolds == Spec => []IInv
BY InitEstablishes, NextKeeps, PTL DEF Spec
----------------------------------------------------------------------------
(* A call in progress has a layout of all six sections, and an entry is    *)
(* always one that prepare() has brought to its end (TypeOK).              *)
THEOREM TypeCorrect == Spec => []TypeOK
<1>1. IInv => TypeOK
  <2> SUFFICES ASSUME IInv PROVE TypeOK
    OBVIOUS
  <2>1. cache = <<>> \/ (cache[1].of \in Requests /\ DOMAIN cache[1].layout = Sections)
    BY LayoutsAreLayouts DEF IInv, CacheHeld
  <2>2. Running => DOMAIN job.layout = Sections
    BY LayoutsAreLayouts DEF IInv, RunHeld
  <2> QED
    BY <2>1, <2>2 DEF IInv, JobType, TypeOK
<1> QED
  BY <1>1, InvariantHolds, PTL
----------------------------------------------------------------------------
(* A section has one recipe for a key and its variants.  Of the large      *)
(* sections the recipe is told from the key, as a decision tree.           *)

ProductRecipe(key, v) ==
    LET member  == "ensemble" \in key
        species == v["composition"]
        instant == "pointInTime" \in key
        time    == IF instant THEN Instant ELSE OverTime
        Of(n)       == RecipeOf(n, time, OfSpecies(species))
        OfMember(n) == RecipeOf(n, time, OfSpeciesMember(species))
    IN  CASE "satellite" \in key ->
               IF member THEN RecipeOf(33, Product("pointInTime") \cup {"satellite"}, Individual)
               ELSE Recipe(32, Product("pointInTime") \cup {"satellite"})
          [] "satellite" \notin key /\ "wave" \in key ->
               IF v["wave"] = "Spectra"
               THEN IF member THEN RecipeOf(100, Product("pointInTime"), WaveMember("Spectra"))
                    ELSE RecipeOf(99, Product("pointInTime"), WaveOf("Spectra"))
               ELSE IF member THEN RecipeOf(104, Product("pointInTime"), WaveMember("Period"))
                    ELSE RecipeOf(103, Product("pointInTime"), WaveOf("Period"))
          [] {"satellite", "wave"} \cap key = {} /\ "composition" \in key /\ instant ->
               (CASE species = "Chem" -> IF member THEN OfMember(41) ELSE Of(40)
                  [] species = "Aerosol" -> IF member THEN OfMember(45) ELSE Of(50)
                  [] species = "AerosolOptical" -> Of(48)
                  [] species = "ChemicalSource" -> IF member THEN OfMember(77) ELSE Of(76)
                  [] OTHER -> Of(79))
          [] {"satellite", "wave"} \cap key = {} /\ "composition" \in key /\ ~instant ->
               (CASE species = "Chem" -> IF member THEN OfMember(43) ELSE Of(42)
                  [] species = "Aerosol" -> IF member THEN OfMember(85) ELSE Of(46)
                  [] species = "AerosolOptical" -> OfMember(49)
                  [] OTHER -> IF member THEN OfMember(79) ELSE Of(78))
          [] {"satellite", "wave", "composition"} \cap key = {} ->
               IF "strikeProbability" \in key
               THEN RecipeOf(IF instant THEN 121 ELSE 122, time \cup {"strikeProbability"},
                        Probability)
               ELSE IF "referencePeriod" \in key
               THEN Recipe(107, OverTime \cup {"derived", "referencePeriod"})
               ELSE IF "derived" \in key
               THEN Recipe(IF instant THEN 2 ELSE 12, time \cup {"derived"})
               ELSE IF "referenceTime" \in key
               THEN RecipeOf(IF instant THEN 60 ELSE 61, time, Reforecast)
               ELSE IF "level" \notin key
               THEN IF v["ensemble"] = "PerturbedParameters"
                    THEN RecipeOf(142, Product("pointInTime"),
                             [ensemble |-> {"PerturbedParameters"}])
                    ELSE RecipeOf(143, Product("pointInTime"), [ensemble |-> {"RandomPatterns"}])
               ELSE IF member THEN RecipeOf(IF instant THEN 1 ELSE 11, time, Individual)
               ELSE Recipe(IF instant THEN 0 ELSE 8, time)

LocalRecipe(key, v) ==
    IF "brightnessTemperature" \in key
    THEN IF "satellite" \in key
         THEN RecipeOf(37, {"mars", "analysis", "satellite"},
                  [brightnessTemperature |-> {"Default"}])
         ELSE RecipeOf(37, {"mars", "analysis"}, [brightnessTemperature |-> {"EnsembleMean"}])
    ELSE IF "destine" \in key
    THEN IF v["destine"] = "ClimateDT" THEN RecipeOf(1001, {"mars"}, [destine |-> {"ClimateDT"}])
         ELSE RecipeOf(1002, {"mars"}, [destine |-> {"ExtremesDT"}])
    ELSE IF "longrange" \in key THEN Recipe(15, {"mars", "longrange"})
    ELSE IF "satellite" \in key THEN Recipe(24, {"mars", "satellite"})
    ELSE IF "iteration" \in key
    THEN IF "analysis" \in key THEN Recipe(38, {"mars", "iteration", "analysis"})
         ELSE Recipe(20, {"mars", "iteration"})
    ELSE IF "modelError" \in key
    THEN IF "analysis" \in key THEN Recipe(39, {"mars", "analysis", "modelError"})
         ELSE Recipe(25, {"mars", "modelError"})
    ELSE IF "analysis" \in key THEN Recipe(36, {"mars", "analysis"})
    ELSE Recipe(1, {"mars"})

(* The trees are right: a recipe that matches is the one the tree leads    *)
(* to.                                                                     *)
LEMMA OneProductRecipe ==
    ASSUME NEW v, NEW key, NEW q \in Section4Recipes, Matches(q, key, v)
    PROVE  q = ProductRecipe(key, v)
BY DEF Section4Recipes, BasicRecipes, SpeciesRecipes, ReforecastRecipes, SourceRecipes,
       WaveRecipes, ProbabilityRecipes, RandomRecipes, Matches, Takes, Recipe, RecipeOf, Instant,
       OverTime, Product, OfSpecies, OfSpeciesMember, WaveOf, WaveMember, Individual, Probability, Reforecast, NoVariants,
       ProductRecipe

LEMMA OneLocalRecipe ==
    ASSUME NEW v, NEW key, NEW q \in Section2Recipes, Matches(q, key, v)
    PROVE  q = LocalRecipe(key, v)
BY DEF Section2Recipes, Matches, Takes, Recipe, RecipeOf, NoVariants, LocalRecipe

LEMMA OneGridRecipe ==
    ASSUME NEW v, NEW key, NEW q \in Section3Recipes, Matches(q, key, v),
           NEW p \in Section3Recipes, Matches(p, key, v)
    PROVE  q = p
BY DEF Section3Recipes, Matches, Takes, RecipeOf, OnGrid

LEMMA OnePackingRecipe ==
    ASSUME NEW v, NEW key, NEW q \in Section5Recipes, Matches(q, key, v),
           NEW p \in Section5Recipes, Matches(p, key, v)
    PROVE  q = p
<1>1. ASSUME NEW r \in Section5Recipes, Matches(r, key, v)
      PROVE  r \in {RecipeOf(0, {}, [packing |-> {"Simple"}]), RecipeOf(42, {},
                 [packing |-> {"Ccsds"}]),
                    RecipeOf(51, {}, [packing |-> {"SpectralComplex"}])}
             /\ r.only["packing"] = {v["packing"]}
  BY <1>1 DEF Section5Recipes, Matches, Takes, RecipeOf
<1> QED
  BY <1>1 DEF RecipeOf

(* No two recipes of any section match the same variants.                  *)
LEMMA OneRecipe ==
    ASSUME NEW s \in Sections, NEW v, NEW q \in Matching(s, v), NEW p \in Matching(s, v)
    PROVE  q = p
<1> USE DEF Matching, SectionRecipes
<1>1. CASE s = 0
  BY <1>1 DEF Section0Recipes
<1>2. CASE s = 1
  BY <1>2 DEF Section1Recipes
<1>3. CASE s = 2
  BY <1>3, OneLocalRecipe
<1>4. CASE s = 3
  BY <1>4, OneGridRecipe
<1>5. CASE s = 4
  BY <1>5, OneProductRecipe
<1>6. CASE s = 5
  BY <1>6, OnePackingRecipe
<1> QED
  BY <1>1, <1>2, <1>3, <1>4, <1>5, <1>6 DEF Sections

(* What has a layout has exactly one recipe for each of its sections.      *)
LEMMA LayoutOfOne ==
    ASSUME NEW v, LayoutFor(v) # <<>>, NEW s \in Sections
    PROVE  Cardinality(Matching(s, v)) = 1
<1>1. PICK q \in Matching(s, v) : TRUE
  BY DEF LayoutFor, LayoutOk
<1>2. \A p : p \in Matching(s, v) <=> p \in {q}
  BY <1>1, OneRecipe
<1> HIDE DEF Sections
<1>3. Matching(s, v) = {q}
  BY <1>2
<1> QED
  BY <1>3, FS_Singleton

----------------------------------------------------------------------------
(* What a call that has found a layout returns.                            *)
(* Whatever the requests, a layout that a call has found is the only one   *)
(* that its recipes allow (LayoutIsDetermined; sectionRegistry.h takes the *)
(* first that matches).                                                    *)
THEOREM LayoutDetermined == Spec => []LayoutIsDetermined
<1>1. ASSUME IInv, Running, job.call # "finalise", NEW s \in Sections
      PROVE  Cardinality(Matching(s, VariantsOf[job.request])) = 1
  <2>1. job.request \in Requests
    BY <1>1 DEF IInv, JobType, Running
  <2>2. LayoutFor(VariantsOf[job.request]) # <<>>
    BY <1>1, <2>1 DEF IInv, RunHeld, LayoutOf
  <2> QED
    BY <1>1, <2>2, LayoutOfOne
<1>2. IInv => LayoutIsDetermined
  BY <1>1 DEF LayoutIsDetermined
<1> QED
  BY <1>2, InvariantHolds, PTL

(* A message that encode() returns is valid at the time that was asked for *)
(* (ValidAsRequested), whatever the date, the step and the window of its   *)
(* request; windows of months, whose length comes from a calendar that     *)
(* gives every fourth year a 29 February, are left to the run.             *)
THEOREM ValidWhenTyped ==
    Spec => [](TypedRequest(job.request.mars) /\ NoMonths(job.request.mars) => ValidAsRequested)
<1>1. ASSUME IInv, Returned("encode"), Has(job.out, "forecastTime"),
             TypedRequest(job.request.mars), NoMonths(job.request.mars)
      PROVE  /\ MessageTime(job.out) = RequestedTime(job.request.mars)
             /\ Has(job.out, "endOfOverallTimeInterval") =>
                    job.out.endOfOverallTimeInterval = RequestedTime(job.request.mars)
  <2>1. PICK r \in Requests : r = job.request
    BY <1>1 DEF IInv, JobType, Returned
  <2>2. PICK layout : layout = LayoutOf[r]
    OBVIOUS
  <2>3. /\ AfterRows(layout, r)[Runtime + 1] # Failed
        /\ job.out = EncodeValues(r.misc, FieldValues) ++ Message(layout, r, Runtime + 1)
    BY <1>1, <2>1, <2>2 DEF IInv, EndHeld, Ending, Returned, Running, Message
  <2>4. layout = LayoutFor(Variants(r.mars))
    BY <2>2 DEF LayoutOf, VariantsOf
  <2>5. layout # <<>>
    BY <2>3, NoMessageWithoutLayout DEF Rows, Runtime
  <2>6. SameTimes(job.out, Message(layout, r, Runtime + 1))
    BY <2>3, ValuesAreNoTimes
  <2> QED
    BY <1>1, <2>1, <2>3, <2>4, <2>5, <2>6, EncodedIsValid
<1>2. IInv => (TypedRequest(job.request.mars) /\ NoMonths(job.request.mars) => ValidAsRequested)
  BY <1>1 DEF ValidAsRequested
<1> QED
  BY <1>2, InvariantHolds, PTL

----------------------------------------------------------------------------
(* Two calls whose requests differ only in what SameStructure lets differ  *)
(* and whose messages so far differ only in the level.                     *)
SameFields(m, n) ==
    DOMAIN m = DOMAIN n /\ \A k \in DOMAIN m \ RuntimeKeys : m[k] = n[k]

SameButLevel(out, other) ==
    DOMAIN out = DOMAIN other /\ \A k \in DOMAIN out \ LevelKeys : out[k] = other[k]

SameCall(a, b) ==
    /\ a.misc = b.misc
    /\ SameFields(a.m, b.m) /\ RequiredKeys \subseteq DOMAIN a.m
    /\ SameButLevel(a.out, b.out)

(* The deductions read the keys that may differ at Runtime only.           *)
LEMMA SameDeductions ==
    ASSUME NEW m, NEW n, SameFields(m, n), RequiredKeys \subseteq DOMAIN m, NEW misc
    PROVE  /\ \A k : k \notin RuntimeKeys => Get(m, k) = Get(n, k) /\ GetLong(m, k) = GetLong(n, k)
           /\ ResolveCentre(m) = ResolveCentre(n)
           /\ ResolveTypeOfProcessedData(m, misc) = ResolveTypeOfProcessedData(n, misc)
           /\ ResolveProductionStatus(m) = ResolveProductionStatus(n)
           /\ ResolveComponentIndex(m) = ResolveComponentIndex(n)
           /\ ResolveAllowedReferenceValue(m) = ResolveAllowedReferenceValue(n)
           /\ ResolveBackgroundProcess(m) = ResolveBackgroundProcess(n)
           /\ ResolveTypeOfGeneratingProcess(m, misc) = ResolveTypeOfGeneratingProcess(n, misc)
           /\ ResolveDerivedForecast(m, misc) = ResolveDerivedForecast(n, misc)
           /\ ResolveTypeOfEnsembleForecast(m, misc) = ResolveTypeOfEnsembleForecast(n, misc)
           /\ ResolveNumberOfForecastsInEnsemble(m, misc) = ResolveNumberOfForecastsInEnsemble(n,
                  misc)
           /\ ResolveBitsPerValueGridded(m, misc, Compression) = ResolveBitsPerValueGridded(n,
                  misc, Compression)
           /\ ResolveSubSetTruncation(m, misc) = ResolveSubSetTruncation(n, misc)
<1> USE DEF SameFields, Has
<1>0. \A k : k \notin RuntimeKeys => Get(m, k) = Get(n, k) /\ GetLong(m, k) = GetLong(n, k)
  BY DEF Get, GetLong, If
<1>0a. "type" \in DOMAIN m /\ "type" \in DOMAIN n /\ m["type"] = n["type"]
  BY DEF RequiredKeys, RuntimeKeys
<1>1. ResolveCentre(m) = ResolveCentre(n)
  BY DEF ResolveCentre, GetOr, RuntimeKeys
<1>2. ResolveTypeOfProcessedData(m, misc) = ResolveTypeOfProcessedData(n, misc)
  BY <1>0a DEF ResolveTypeOfProcessedData, RuntimeKeys
<1>3. ResolveProductionStatus(m) = ResolveProductionStatus(n)
  BY DEF ResolveProductionStatus, RuntimeKeys
<1>4. ResolveComponentIndex(m) = ResolveComponentIndex(n)
  BY <1>0 DEF ResolveComponentIndex, RuntimeKeys
<1>5. ResolveAllowedReferenceValue(m) = ResolveAllowedReferenceValue(n)
  BY <1>0 DEF ResolveAllowedReferenceValue, RuntimeKeys
<1>6. ResolveBackgroundProcess(m) = ResolveBackgroundProcess(n)
  BY DEF ResolveBackgroundProcess, RuntimeKeys
<1>7. ResolveTypeOfGeneratingProcess(m, misc) = ResolveTypeOfGeneratingProcess(n, misc)
  BY <1>0a DEF ResolveTypeOfGeneratingProcess, RuntimeKeys
<1>8. ResolveDerivedForecast(m, misc) = ResolveDerivedForecast(n, misc)
  BY <1>0a DEF ResolveDerivedForecast
<1>9. ResolveTypeOfEnsembleForecast(m, misc) = ResolveTypeOfEnsembleForecast(n, misc)
  BY <1>0a DEF ResolveTypeOfEnsembleForecast
<1>10. ResolveNumberOfForecastsInEnsemble(m, misc) = ResolveNumberOfForecastsInEnsemble(n, misc)
  BY DEF ResolveNumberOfForecastsInEnsemble, RuntimeKeys
<1>11. ResolveBitsPerValueGridded(m, misc, Compression) = ResolveBitsPerValueGridded(n, misc,
           Compression)
  BY DEF ResolveBitsPerValueGridded, RuntimeKeys
<1>12. ResolveSubSetTruncation(m, misc) = ResolveSubSetTruncation(n, misc)
  BY DEF ResolveSubSetTruncation, RuntimeKeys
<1> QED
  BY <1>0, <1>1, <1>2, <1>3, <1>4, <1>5, <1>6, <1>7, <1>8, <1>9, <1>10, <1>11, <1>12

(* The checks read keys of the message that are not of the level.          *)
LEMMA SameChecks ==
    ASSUME NEW out, NEW other, SameButLevel(out, other), NEW k, k \notin LevelKeys, NEW values
    PROVE  /\ Reads(out, k, values) <=> Reads(other, k, values)
           /\ Has(out, k) <=> Has(other, k)
BY DEF SameButLevel, Reads, Has

(* A concept that is not of times or levels writes the same for both       *)
(* calls, at any stage.                                                    *)
LEMMA OthersAreAlike ==
    ASSUME NEW concept \in ConceptNames \ TimesAndLevel, NEW v,
           NEW stage \in Stages, NEW s,
           NEW a, NEW b, SameCall(a, b), stage = Runtime => a.m = b.m
    PROVE  Callback(concept, v, stage, s, a) = Callback(concept, v, stage, s, b)
<1>1. a.misc = b.misc
  BY DEF SameCall
<1>2. PICK misc : misc = a.misc
  OBVIOUS
<1>3. a.misc = misc /\ b.misc = misc
  BY <1>1, <1>2
<1>4. /\ \A k : k \notin RuntimeKeys => Get(a.m, k) = Get(b.m, k) /\ GetLong(a.m,
          k) = GetLong(b.m, k)
      /\ ResolveCentre(a.m) = ResolveCentre(b.m)
      /\ ResolveTypeOfProcessedData(a.m, misc) = ResolveTypeOfProcessedData(b.m, misc)
      /\ ResolveProductionStatus(a.m) = ResolveProductionStatus(b.m)
      /\ ResolveComponentIndex(a.m) = ResolveComponentIndex(b.m)
      /\ ResolveAllowedReferenceValue(a.m) = ResolveAllowedReferenceValue(b.m)
      /\ ResolveBackgroundProcess(a.m) = ResolveBackgroundProcess(b.m)
      /\ ResolveTypeOfGeneratingProcess(a.m, misc) = ResolveTypeOfGeneratingProcess(b.m, misc)
      /\ ResolveDerivedForecast(a.m, misc) = ResolveDerivedForecast(b.m, misc)
      /\ ResolveTypeOfEnsembleForecast(a.m, misc) = ResolveTypeOfEnsembleForecast(b.m, misc)
      /\ ResolveNumberOfForecastsInEnsemble(a.m, misc) = ResolveNumberOfForecastsInEnsemble(b.m,
             misc)
      /\ ResolveBitsPerValueGridded(a.m, misc, Compression) = ResolveBitsPerValueGridded(b.m,
             misc, Compression)
      /\ ResolveSubSetTruncation(a.m, misc) = ResolveSubSetTruncation(b.m, misc)
  BY SameDeductions DEF SameCall
<1>5. \A k : k \notin LevelKeys =>
          /\ Has(a.out, k) <=> Has(b.out, k)
          /\ \A values : Reads(a.out, k, values) <=> Reads(b.out, k, values)
  BY SameChecks DEF SameCall
<1>6. /\ \A numbers : MatchLocalDefinitionNumber(a.out,
          numbers) <=> MatchLocalDefinitionNumber(b.out, numbers)
      /\ \A numbers : MatchProductDefinition(a.out, numbers) <=> MatchProductDefinition(b.out,
             numbers)
      /\ \A numbers : MatchGridDefinition(a.out, numbers) <=> MatchGridDefinition(b.out, numbers)
      /\ \A numbers : MatchDataRepresentation(a.out, numbers) <=> MatchDataRepresentation(b.out,
             numbers)
      /\ CheckLocalUseSection(a.out) <=> CheckLocalUseSection(b.out)
      /\ CheckDestinELocalSection(a.out) <=> CheckDestinELocalSection(b.out)
      /\ \A dataset : MatchDataset(a.out, dataset) <=> MatchDataset(b.out, dataset)
  BY <1>5 DEF LevelKeys, MatchLocalDefinitionNumber, MatchProductDefinition, MatchGridDefinition,
              MatchDataRepresentation, CheckLocalUseSection, CheckDestinELocalSection, MatchDataset
<1> USE <1>3, <1>4, <1>6 DEF RuntimeKeys, Checked
<1>7. AnalysisConcept(stage, s, v, a) = AnalysisConcept(stage, s, v, b)
  BY DEF AnalysisConcept, AnalysisOp, ResolveOffsetToEndOf4DvarWindow
<1>8. BrightnessTemperatureConcept(stage, s, v, a) = BrightnessTemperatureConcept(stage, s, v, b)
  BY DEF BrightnessTemperatureConcept, BrightnessTemperatureOp, ResolveChannel
<1>9. CompositionConcept(stage, s, v, a) = CompositionConcept(stage, s, v, b)
  BY DEF CompositionConcept, CompositionOp, ResolveChemId, ResolveFirstWavelength
<1>10. DataTypeConcept(stage, s, v, a) = DataTypeConcept(stage, s, v, b)
  BY DEF DataTypeConcept, DataTypeOp
<1>11. DerivedConcept(stage, s, v, a) = DerivedConcept(stage, s, v, b)
  BY DEF DerivedConcept, DerivedOp, CheckDerived
<1>12. DestineConcept(stage, s, v, a) = DestineConcept(stage, s, v, b)
  BY DEF DestineConcept, DestineOp, ClimateKeys, ResolveActivity, ResolveExperiment,
      ResolveResolution, ResolveModel,
         ResolveGeneration, ResolveRealization
<1>13. EnsembleConcept(stage, s, v, a) = EnsembleConcept(stage, s, v, b)
  BY DEF EnsembleConcept, EnsembleApplicable, EnsembleOp, CheckEnsemble, ResolvePerturbationNumber
<1>14. GeneratingProcessConcept(stage, s, v, a) = GeneratingProcessConcept(stage, s, v, b)
  BY DEF GeneratingProcessConcept, GeneratingProcessOp
<1>15. IterationConcept(stage, s, v, a) = IterationConcept(stage, s, v, b)
  BY DEF IterationConcept, IterationOp, ResolveIterationNumber
<1>16. LongrangeConcept(stage, s, v, a) = LongrangeConcept(stage, s, v, b)
  BY DEF LongrangeConcept, LongrangeOp, ResolveMethodNumber, ResolveSystemNumber
<1>17. MarsConcept(stage, s, v, a) = MarsConcept(stage, s, v, b)
  BY DEF MarsConcept, MarsOp, ResolveClass, ResolveType, ResolveStream, ResolveExpver
<1>18. ModelErrorConcept(stage, s, v, a) = ModelErrorConcept(stage, s, v, b)
  BY DEF ModelErrorConcept, ModelErrorOp
<1>19. OriginConcept(stage, s, v, a) = OriginConcept(stage, s, v, b)
  BY DEF OriginConcept, OriginOp
<1>20. PackingConcept(stage, s, v, a) = PackingConcept(stage, s, v, b)
  BY DEF PackingConcept, PackingOp, GriddedPacking, SpectralPacking
<1>21. ParamConcept(stage, s, v, a) = ParamConcept(stage, s, v, b)
  BY DEF ParamConcept, ParamOp, ResolveParamId
<1>22. RepresentationConcept(stage, s, v, a) = RepresentationConcept(stage, s, v, b)
  BY DEF RepresentationConcept, RepresentationOp, AllocateRepresentation, PresetRepresentation
<1>23. SatelliteConcept(stage, s, v, a) = SatelliteConcept(stage, s, v, b)
  BY DEF SatelliteConcept, SatelliteOp, SatelliteKeys, ResolveChannel, ResolveSatelliteNumber,
      ResolveInstrumentType
<1>24. ShapeOfTheEarthConcept(stage, s, v, a) = ShapeOfTheEarthConcept(stage, s, v, b)
  BY DEF ShapeOfTheEarthConcept, ShapeOfTheEarthOp
<1>25. WaveConcept(stage, s, v, a) = WaveConcept(stage, s, v, b)
  BY DEF WaveConcept, WaveApplicable, WaveOp
<1> QED
  BY <1>7, <1>8, <1>9, <1>10, <1>11, <1>12, <1>13, <1>14, <1>15, <1>16, <1>17, <1>18, <1>19,
      <1>20, <1>21, <1>22,
     <1>23, <1>24, <1>25
  DEF ConceptNames, TimesAndLevel, Callback, NilConcept, ReferencePeriodConcept,
      StrikeProbabilityConcept, TablesConcept

----------------------------------------------------------------------------
(* The level is written at Preset and again at Runtime, under the same keys.*)
LEMMA LevelAlike ==
    ASSUME NEW v, NEW a, NEW b, SameFields(a.m, b.m)
    PROVE  /\ DOMAIN WriteLevel(v, a) = DOMAIN WriteLevel(v, b)
           /\ DOMAIN WriteLevel(v, a) \subseteq LevelKeys
           /\ \A k \in DOMAIN WriteLevel(v, a) :
                 WriteLevel(v, a)[k] = Failed <=> WriteLevel(v, b)[k] = Failed
<1>1. ResolveLevel(a.m) = Failed <=> ResolveLevel(b.m) = Failed
  BY DEF SameFields, ResolveLevel, Get, Has, Found, Failed
<1> QED
  BY <1>1 DEF WriteLevel, FixedLevel, NoWrites, ++, LevelKeys, InHpa, Above, Found, Failed

LEMMA LevelCells ==
    ASSUME NEW v, NEW stage \in Stages, NEW s, NEW a, NEW b, SameCall(a, b)
    PROVE  \/ LevelConcept(stage, s, v, a) = LevelConcept(stage, s, v, b)
           \/ /\ stage \in {Preset, Runtime} /\ s = ProductDefinitionSection
              /\ LevelConcept(stage, s, v, a) = WriteLevel(v, a)
              /\ LevelConcept(stage, s, v, b) = WriteLevel(v, b)
BY DEF SameCall, LevelConcept, LevelApplicable, LevelOp, Stages, Allocate, Preset, Override, Runtime

(* A cell of a time that will be refused at Runtime, whatever the message. *)
Late(concept, v, s, b) ==
    \A out : Callback(concept, v, Runtime, s, [m |-> b.m, misc |-> b.misc, out |-> out]) = Refused

(* An instant that prepare() accepts of one request is the same for the    *)
(* other, or it will be refused there by the last stage as well.           *)
LEMMA InstantsAlike ==
    ASSUME NEW v, NEW stage \in {Allocate, Preset, Override}, NEW s,
           NEW a, NEW b, SameCall(a, b), PointInTimeConcept(stage, s, v, a) # Refused
    PROVE  \/ PointInTimeConcept(stage, s, v, b) = PointInTimeConcept(stage, s, v, a)
           \/ Late("pointInTime", v, s, b)
<1> DEFINE pt(c) == ProductTime(c.m, c.misc)
           step(c) == ForecastTime(pt(c).reference, pt(c).windowEnd)
           ok(c) == ProductTimeOk(c.m, c.misc) /\ step(c) # Failed
<1>1. CASE ~PointInTimeApplicable(stage, s, v) \/ stage = Override
  BY <1>1 DEF PointInTimeConcept, PointInTimeOp
<1>2. CASE PointInTimeApplicable(stage, s, v) /\ stage # Override
  <2>1. s = ProductDefinitionSection /\ PointInTimeApplicable(Runtime, s, v)
    BY <1>2 DEF PointInTimeApplicable
  <2>2. CASE ok(b)
    <3>1. ok(a)
      BY <1>2 DEF PointInTimeConcept, PointInTimeOp
    <3>2. PointInTimeOp(stage, a) = PointInTimeOp(stage, b)
      <4>1. ASSUME NEW c, ok(c)
            PROVE  PointInTimeOp(stage, c) = IF stage = Allocate THEN DataCutoffMissing
                                             ELSE [indicatorOfUnitOfTimeRange |-> Found("hour")]
        BY <1>2, <4>1 DEF PointInTimeOp, Allocate, Preset, Override, Runtime
      <4> HIDE DEF ok
      <4> QED
        BY <2>2, <3>1, <4>1
    <3> QED
      BY <3>2 DEF PointInTimeConcept
  <2>3. CASE ~ok(b)
    <3>1. ASSUME NEW out
          PROVE  PointInTimeOp(Runtime, [m |-> b.m, misc |-> b.misc, out |-> out]) = Refused
      BY <2>3 DEF PointInTimeOp, Runtime, Override
    <3> QED
      BY <2>1, <3>1 DEF Late, Callback, PointInTimeConcept
  <2> QED
    BY <2>2, <2>3
<1> QED
  BY <1>1, <1>2

(* The windows of a product without months do not depend on when it ends.  *)
LEMMA SameWindows ==
    ASSUME NEW a, NEW b, SameCall(a, b)
    PROVE  /\ ProductTime(a.m, a.misc).windows = ProductTime(b.m, b.misc).windows
           /\ ProductTime(a.m, a.misc).increment = ProductTime(b.m, b.misc).increment
           /\ \A inner : TypesOfProcessing(a.m, inner) = TypesOfProcessing(b.m, inner)
           /\ \A inner : TypesOk(a.m, inner) <=> TypesOk(b.m, inner)
<1>1. a.misc = b.misc /\ SameFields(a.m, b.m)
  BY DEF SameCall
<1>2. /\ Has(a.m, "stattype") <=> Has(b.m, "stattype")
      /\ Has(a.m, "stattype") => a.m.stattype = b.m.stattype
      /\ Has(a.m, "timespan") <=> Has(b.m, "timespan")
      /\ Has(a.m, "timespan") => a.m.timespan = b.m.timespan
  BY <1>1 DEF SameFields, RuntimeKeys, Has
<1>3. TimespanKind(a.m) = TimespanKind(b.m)
  BY <1>2 DEF TimespanKind
<1>4. Timespan(a.m) = Timespan(b.m)
  BY <1>2, <1>3 DEF Timespan, TimespanKind
<1>5. StattypeWindows(a.m) = StattypeWindows(b.m)
  BY <1>2 DEF StattypeWindows
<1>6. Increment(a.m, a.misc) = Increment(b.m, b.misc)
  BY <1>1, <1>3, <1>5 DEF Increment, ReadsIncrement
<1>7. Windows(ProductTimeInput(a.m, a.misc)) = Windows(ProductTimeInput(b.m, b.misc))
  BY <1>3, <1>4, <1>5 DEF Windows, ProductTimeInput
<1>8. \A inner : TypesOfProcessing(a.m, inner) = TypesOfProcessing(b.m, inner)
  BY <1>2, <1>3 DEF TypesOfProcessing
<1>9. \A inner : TypesOk(a.m, inner) <=> TypesOk(b.m, inner)
  BY <1>2, <1>3 DEF TypesOk
<1> QED
  BY <1>6, <1>7, <1>8, <1>9 DEF ProductTime, Make, ProductTimeInput

LEMMA NoWindowOfMonths ==
    ASSUME NEW m, NEW misc, ~OfMonths(m), ProductTimeOk(m, misc)
    PROVE  \E S : /\ ProductTime(m, misc).windows \in Seq(S)
                  /\ \A w \in S : w.unit # "month"
<1> DEFINE in == ProductTimeInput(m, misc)
           st == StattypeWindows(m)
           day == [unit |-> "day", count |-> 1]
           S == {day, Timespan(m)}
<1>1. in.stattype = st /\ in.timespan = Timespan(m)
  BY DEF ProductTimeInput
<1>2. ProductTime(m, misc).windows = Windows(in)
  BY DEF ProductTime, Make
<1>3. st \in Seq(S)
  <2>1. CASE ~Has(m, "stattype")
    BY <2>1, EmptySeq DEF StattypeWindows
  <2>2. CASE Has(m, "stattype")
    <3> DEFINE n == Len(m.stattype)
    <3>1. StatTypeOk(m.stattype)
      BY <2>2 DEF ProductTimeOk, InputOk
    <3>2. n \in {1, 2}
      BY <3>1 DEF StatTypeOk
    <3>3. st = [j \in 1 .. n |-> DecodePeriod(m.stattype[j])]
      BY <2>2 DEF StattypeWindows
    <3>4. ASSUME NEW j \in 1 .. n PROVE DecodePeriod(m.stattype[j]) = day
      BY <2>2, <3>1 DEF StatTypeOk, OfMonths, DecodePeriod, Unit
    <3> HIDE DEF n, day
    <3>5. st = [j \in 1 .. n |-> day]
      BY <3>3, <3>4
    <3>6. st \in [1 .. n -> S] /\ n \in Nat
      BY <3>2, <3>5
    <3> QED
      BY <3>6, SeqDef
  <2> QED
    BY <2>1, <2>2
<1>4. Windows(in) \in Seq(S)
  <2>1. Append(st, Timespan(m)) \in Seq(S)
    BY <1>3, AppendProperties
  <2> QED
    BY <1>1, <1>3, <2>1 DEF Windows
<1>5. \A w \in S : w.unit # "month"
  BY DEF Timespan
<1> QED
  BY <1>2, <1>4, <1>5

----------------------------------------------------------------------------
(* So the descriptor of the statistics is the same.                        *)
LEMMA SameDescriptor ==
    ASSUME NEW a, NEW b, SameCall(a, b), ~OfMonths(a.m), NEW types,
           ProductTimeOk(a.m, a.misc)
    PROVE  /\ Descriptor(ProductTime(a.m, a.misc), types) = Descriptor(ProductTime(b.m, b.misc),
               types)
           /\ DescriptorOk(ProductTime(a.m, a.misc), types) <=> DescriptorOk(ProductTime(b.m,
                  b.misc), types)
<1> DEFINE p == ProductTime(a.m, a.misc)
           q == ProductTime(b.m, b.misc)
           n == Len(p.windows)
           length(i) == WindowLengthInHours(p.windows[i], p.windowEnd)
           other(i) == WindowLengthInHours(p.windows[i], q.windowEnd)
           increment(i, len) == IF i < n THEN len * 3600
                                ELSE IF n = 1 /\ p.increment =
                                         0 THEN MissingIncrement ELSE p.increment
<1>1. p.windows = q.windows /\ p.increment = q.increment
  BY SameWindows
<1>2. n \in Nat /\ \A i \in 1 .. n : p.windows[i].unit # "month"
  <2>1. PICK S : p.windows \in Seq(S) /\ \A w \in S : w.unit # "month"
    BY NoWindowOfMonths
  <2> HIDE DEF p
  <2> QED
    BY <2>1, ElementOfSeq, LenProperties
<1>3. \A i \in 1 .. n : length(i) = other(i)
  BY <1>2 DEF WindowLengthInHours
<1>4. Descriptor(p, types) =
          [types |-> types,
           lengths |-> [i \in 1 .. n |-> length(i)],
           increments |-> [i \in 1 .. n |-> increment(i, length(i + 1))]]
  BY DEF Descriptor
<1>5. Descriptor(q, types) =
          [types |-> types,
           lengths |-> [i \in 1 .. n |-> other(i)],
           increments |-> [i \in 1 .. n |-> increment(i, other(i + 1))]]
  BY <1>1 DEF Descriptor
<1>6. \A i \in 1 .. n : increment(i, length(i + 1)) = increment(i, other(i + 1))
  <2> HIDE DEF length, other, p, q
  <2> QED
    BY <1>2, <1>3
<1>7. DescriptorOk(p, types) <=> DescriptorOk(q, types)
  BY <1>1 DEF DescriptorOk
<1>8. /\ [i \in 1 .. n |-> length(i)] = [i \in 1 .. n |-> other(i)]
      /\ [i \in 1 .. n |-> increment(i, length(i + 1))] = [i \in 1 .. n |-> increment(i,
             other(i + 1))]
  <2> HIDE DEF length, other, increment, n
  <2> QED
    BY <1>3, <1>6
<1> HIDE DEF p, q, length, other, increment, n
<1> QED
  BY <1>4, <1>5, <1>7, <1>8 DEF p, q

(* And so are the intervals, but for those that the last stage refuses.    *)
LEMMA IntervalsAlike ==
    ASSUME NEW v, NEW stage \in {Allocate, Preset, Override}, NEW s,
           NEW a, NEW b, SameCall(a, b), ~OfMonths(a.m), StatisticsConcept(stage, s, v, a) # Refused
    PROVE  \/ StatisticsConcept(stage, s, v, b) = StatisticsConcept(stage, s, v, a)
           \/ Late("statistics", v, s, b)
<1>1. CASE ~StatisticsApplicable(stage, s, v) \/ stage = Override
  BY <1>1 DEF StatisticsConcept, StatisticsOp
<1>2. CASE StatisticsApplicable(stage, s, v) /\ stage # Override
  <2>1. StatisticsApplicable(Runtime, s, v) /\ v # "IndexProcessing"
    BY <1>2 DEF StatisticsApplicable
  <2>2. CASE ~ProductTimeOk(b.m, b.misc)
    <3>1. ASSUME NEW out
          PROVE  StatisticsOp(Runtime, v, [m |-> b.m, misc |-> b.misc, out |-> out]) = Refused
      BY <2>1, <2>2 DEF StatisticsOp, Runtime, Override
    <3> QED
      BY <2>1, <3>1 DEF Late, Callback, StatisticsConcept
  <2>3. CASE ProductTimeOk(b.m, b.misc)
    <3>1. ProductTimeOk(a.m, a.misc)
      BY <1>2, <2>1 DEF StatisticsConcept, StatisticsOp
    <3> DEFINE p == ProductTime(a.m, a.misc)
               q == ProductTime(b.m, b.misc)
    <3>2. CASE stage = Allocate
      <4>1. AllocateStatistics(p, a) = AllocateStatistics(q, b)
        <5>1. p.windows = q.windows
          BY SameWindows
        <5>2. CheckStatistics(a.out) <=> CheckStatistics(b.out)
          BY SameChecks DEF SameCall, CheckStatistics, MatchProductDefinition, LevelKeys
        <5> HIDE DEF p, q
        <5> QED
          BY <5>1, <5>2 DEF AllocateStatistics, Checked
      <4> QED
        <5>1. ASSUME NEW c, ProductTimeOk(c.m, c.misc)
              PROVE  StatisticsConcept(stage, s, v, c) =
                         IF StatisticsApplicable(stage, s, v)
                         THEN AllocateStatistics(ProductTime(c.m, c.misc), c) ELSE NoWrites
          BY <2>1, <3>2, <5>1
              DEF StatisticsConcept, StatisticsOp, Allocate, Preset, Override, Runtime
        <5> HIDE DEF p, q
        <5> QED
          BY <2>3, <3>1, <4>1, <5>1 DEF p, q
    <3>3. CASE stage = Preset
      <4>1. PresetStatistics(p, v, a) = PresetStatistics(q, v, b)
        <5>1. PICK types : types = TypesOfProcessing(a.m, OperationOf[v])
          OBVIOUS
        <5>2. /\ TypesOfProcessing(b.m, OperationOf[v]) = types
              /\ TypesOk(a.m, OperationOf[v]) <=> TypesOk(b.m, OperationOf[v])
          BY <5>1, SameWindows
        <5>3. /\ Descriptor(p, types) = Descriptor(q, types)
              /\ DescriptorOk(p, types) <=> DescriptorOk(q, types)
          BY <3>1, SameDescriptor
        <5> HIDE DEF p, q
        <5> QED
          BY <5>1, <5>2, <5>3 DEF PresetStatistics
      <4> QED
        <5>1. ASSUME NEW c, ProductTimeOk(c.m, c.misc)
              PROVE  StatisticsConcept(stage, s, v, c) =
                         IF StatisticsApplicable(stage, s, v)
                         THEN PresetStatistics(ProductTime(c.m, c.misc), v, c) ELSE NoWrites
          BY <2>1, <3>3, <5>1
              DEF StatisticsConcept, StatisticsOp, Allocate, Preset, Override, Runtime
        <5> HIDE DEF p, q
        <5> QED
          BY <2>3, <3>1, <4>1, <5>1 DEF p, q
    <3> QED
      BY <1>2, <3>2, <3>3
  <2> QED
    BY <2>2, <2>3
<1> QED
  BY <1>1, <1>2

(* A cell of another stage than the last: the same for both calls, or one  *)
(* of the level, or one that Runtime will refuse.                          *)
LevelCell(concept, v, stage, s, c) ==
    /\ concept = "level" /\ stage \in {Preset, Runtime} /\ s = ProductDefinitionSection
    /\ LevelConcept(stage, s, v, c) = WriteLevel(v, c)

LEMMA CellsAlike ==
    ASSUME NEW concept \in ConceptNames, NEW v, NEW stage \in {Allocate, Preset, Override}, NEW s,
           NEW a, NEW b, SameCall(a, b), ~OfMonths(a.m), Callback(concept, v, stage, s, a) # Refused
    PROVE  \/ Callback(concept, v, stage, s, b) = Callback(concept, v, stage, s, a)
           \/ LevelCell(concept, v, stage, s, a) /\ LevelCell(concept, v, stage, s, b)
           \/ Late(concept, v, s, b)
<1>0. stage \in Stages /\ stage # Runtime
  BY DEF Stages, Allocate, Preset, Override, Runtime
<1>1. CASE concept = "level"
  BY <1>0, <1>1, LevelCells DEF Callback, LevelCell
<1>2. CASE concept = "pointInTime"
  BY <1>2, InstantsAlike DEF Callback
<1>3. CASE concept = "statistics"
  BY <1>3, IntervalsAlike DEF Callback
<1>4. CASE concept = "referenceTime"
  <2>1. \A c : ReferenceTimeConcept(stage, s, v, c) = NoWrites
    BY <1>0 DEF ReferenceTimeConcept, ReferenceTimeApplicable
  <2> QED
    BY <1>4, <2>1 DEF Callback
<1>5. CASE concept \notin TimesAndLevel
  BY <1>0, <1>5, OthersAreAlike
<1> QED
  BY <1>1, <1>2, <1>3, <1>4, <1>5 DEF TimesAndLevel

(* At Runtime, what is already in the message only matters to the checks.  *)
LEMMA LastCellsAlike ==
    ASSUME NEW concept \in ConceptNames, NEW v, NEW s,
           NEW a, NEW b, SameCall(a, b), a.m = b.m
    PROVE  Callback(concept, v, Runtime, s, a) = Callback(concept, v, Runtime, s, b)
<1>0. a.misc = b.misc /\ Runtime \in Stages
  BY DEF SameCall, Stages, Runtime
<1>1. CASE concept = "level"
  <2>1. WriteLevel(v, a) = WriteLevel(v, b)
    BY DEF WriteLevel
  <2> QED
    BY <1>0, <1>1, <2>1 DEF Callback, LevelConcept, LevelOp
<1>2. CASE concept = "pointInTime"
  BY <1>0, <1>2 DEF Callback, PointInTimeConcept, PointInTimeOp
<1>3. CASE concept = "statistics"
  BY <1>0, <1>3 DEF Callback, StatisticsConcept, StatisticsOp, RuntimeStatistics, Runtime,
      Allocate, Preset, Override
<1>4. CASE concept = "referenceTime"
  <2>1. MatchProductDefinition(a.out, {60, 61}) <=> MatchProductDefinition(b.out, {60, 61})
    BY SameChecks DEF SameCall, MatchProductDefinition, LevelKeys
  <2> QED
    BY <1>0, <1>4, <2>1 DEF Callback, ReferenceTimeConcept, ReferenceTimeOp, Checked
<1>5. CASE concept \notin TimesAndLevel
  BY <1>0, <1>5, OthersAreAlike
<1> QED
  BY <1>1, <1>2, <1>3, <1>4, <1>5 DEF TimesAndLevel

----------------------------------------------------------------------------
(* The rows that prepare() runs, of two requests of one structure.         *)
SameRequests(ra, rb) ==
    /\ ra.misc = rb.misc
    /\ SameFields(ra.mars, rb.mars) /\ RequiredKeys \subseteq DOMAIN ra.mars
    /\ ~OfMonths(ra.mars)

LateIn(layout, rb) ==
    \E p \in Plan(layout) :
        Late(p[2], layout[p[1]].variants[p[2]], p[1], CallOf(rb, EmptyMessage))

(* A request with a cell that will be refused has no message.              *)
LEMMA LateIsRefused ==
    ASSUME NEW w, NEW layout, layout = LayoutFor(w), layout # <<>>, NEW rb, LateIn(layout, rb),
               NEW out
    PROVE  AfterRow(layout, Runtime + 1, rb, Found(out)) = Failed
<1>1. PICK p \in Plan(layout) : Late(p[2], layout[p[1]].variants[p[2]], p[1], CallOf(rb,
          EmptyMessage))
  BY DEF LateIn
<1>2. Cell(layout, Runtime + 1, p, rb, out) = Refused
  BY <1>1 DEF Late, Cell, CallOf, Runtime
<1> SUFFICES ASSUME AfterRow(layout, Runtime + 1, rb, Found(out)) # Failed PROVE FALSE
  OBVIOUS
<1>3. PICK after : AfterRow(layout, Runtime + 1, rb, Found(out)) = Found(after)
  BY RowResult
<1>4. Runtime + 1 \in 1 .. Runtime + 1
  BY DEF Runtime
<1> QED
  BY <1>1, <1>2, <1>3, <1>4, RowLeaves

LEMMA RowCells ==
    ASSUME NEW w, NEW layout, layout = LayoutFor(w), layout # <<>>,
           NEW ra, NEW rb, SameRequests(ra, rb), ~LateIn(layout, rb),
           NEW row \in 1 .. Override + 1, NEW out, NEW other, SameButLevel(out, other),
           NEW p \in Plan(layout), Cell(layout, row, p, ra, out) # Refused
    PROVE  LET a == Cell(layout, row, p, ra, out)
               b == Cell(layout, row, p, rb, other)
           IN  \/ a = b
               \/ /\ p[2] = "level" /\ p[1] = 4
                  /\ a = WriteLevel(layout[4].variants["level"], CallOf(ra, out))
                  /\ b = WriteLevel(layout[4].variants["level"], CallOf(rb, other))
<1> DEFINE a == CallOf(ra, out)
           b == CallOf(rb, other)
           v == layout[p[1]].variants[p[2]]
           stage == row - 1
<1>1. SameCall(a, b) /\ ~OfMonths(a.m)
  BY DEF SameRequests, SameCall, CallOf
<1>2. stage \in {Allocate, Preset, Override}
  BY DEF Allocate, Preset, Override
<1>3. p[2] \in ConceptNames
  BY PlanIs
<1>4. ~Late(p[2], v, p[1], b)
  BY DEF LateIn, Late, CallOf
<1>5. Callback(p[2], v, stage, p[1], a) # Refused
  BY DEF Cell
<1> HIDE DEF a, b, v, stage
<1>6. \/ Callback(p[2], v, stage, p[1], b) = Callback(p[2], v, stage, p[1], a)
      \/ LevelCell(p[2], v, stage, p[1], a) /\ LevelCell(p[2], v, stage, p[1], b)
  BY <1>1, <1>2, <1>3, <1>4, <1>5, CellsAlike
<1> QED
  BY <1>6 DEF a, b, v, stage, Cell, LevelCell, Callback, ProductDefinitionSection

(* A row without a refusal leaves the same message, but for the level.     *)
LEMMA RowsAlike ==
    ASSUME NEW w, NEW layout, layout = LayoutFor(w), layout # <<>>,
           NEW ra, NEW rb, SameRequests(ra, rb), ~LateIn(layout, rb),
           NEW row \in 1 .. Override + 1, NEW out, NEW other, SameButLevel(out, other),
           NEW after, AfterRow(layout, row, ra, Found(out)) = Found(after)
    PROVE  /\ AfterRow(layout, row, rb, Found(other)) # Failed
           /\ SameButLevel(after, AfterRow(layout, row, rb, Found(other))[1])
<1> DEFINE A(p) == Cell(layout, row, p, ra, out)
           B(p) == Cell(layout, row, p, rb, other)
           WA == {A(p) : p \in Plan(layout)}
           WB == {B(p) : p \in Plan(layout)}
           v == layout[4].variants["level"]
           la == WriteLevel(v, CallOf(ra, out))
           lb == WriteLevel(v, CallOf(rb, other))
<1>0. row \in 1 .. Runtime + 1 /\ row - 1 \in Stages
  BY DEF Override, Runtime, Stages
<1>1. \A p \in Plan(layout) :
          \/ A(p) = B(p)
          \/ p[2] = "level" /\ p[1] = 4 /\ A(p) = la /\ B(p) = lb
  BY <1>0, RowLeaves, RowCells
<1>2. DOMAIN la = DOMAIN lb /\ DOMAIN la \subseteq LevelKeys
      /\ \A k \in DOMAIN la : la[k] = Failed <=> lb[k] = Failed
  <2> DEFINE a == CallOf(ra, out)
             b == CallOf(rb, other)
  <2>1. SameFields(a.m, b.m)
    BY DEF CallOf, SameRequests
  <2> HIDE DEF a, b, v
  <2>2. /\ DOMAIN WriteLevel(v, a) = DOMAIN WriteLevel(v, b)
        /\ DOMAIN WriteLevel(v, a) \subseteq LevelKeys
        /\ \A k \in DOMAIN WriteLevel(v, a) : WriteLevel(v, a)[k] = Failed <=> WriteLevel(v,
               b)[k] = Failed
    BY <2>1, LevelAlike
  <2> QED
    BY <2>2 DEF a, b, v
<1>3. RowWrites(layout, row, ra, out) = Combine(WA) /\ RowWrites(layout, row, rb,
          other) = Combine(WB)
  BY <1>0, RowIsItsCells
<1>4. Succeeds(Combine(WA)) /\ after = Write(out, Combine(WA))
  BY <1>3 DEF AfterRow, If, Found, Failed
<1>5. \A k : (\E p \in Plan(layout) : k \in DOMAIN A(p)) <=>
          (\E p \in Plan(layout) : k \in DOMAIN B(p))
  <2> HIDE DEF A, B, la, lb
  <2> QED
    BY <1>1, <1>2
<1>6. DOMAIN Combine(WA) = DOMAIN Combine(WB)
  <2>1. \A k : k \in DOMAIN Combine(WA) <=> \E p \in Plan(layout) : k \in DOMAIN A(p)
    BY DEF Combine
  <2>2. \A k : k \in DOMAIN Combine(WB) <=> \E p \in Plan(layout) : k \in DOMAIN B(p)
    BY DEF Combine
  <2>3. \A k : k \in DOMAIN Combine(WA) <=> k \in DOMAIN Combine(WB)
    BY <1>5, <2>1, <2>2
  <2> HIDE DEF WA, WB
  <2> QED
    BY <2>3 DEF Combine
<1>7. ASSUME NEW k \in DOMAIN Combine(WA), k \notin LevelKeys
      PROVE  Combine(WA)[k] = Combine(WB)[k]
  <2>1. \A x : (x \in WA /\ k \in DOMAIN x) <=> (x \in WB /\ k \in DOMAIN x)
    <3> HIDE DEF A, B, la, lb
    <3> QED
      BY <1>1, <1>2, <1>7
  <2>2. (CHOOSE x \in WA : k \in DOMAIN x) = (CHOOSE x \in WB : k \in DOMAIN x)
    <3> HIDE DEF WA, WB
    <3> QED
      BY <2>1, Zenon
  <2> HIDE DEF WA, WB
  <2> QED
    BY <1>6, <2>2 DEF Combine
<1>8. ASSUME NEW k \in DOMAIN Combine(WA), k \in LevelKeys
      PROVE  Combine(WB)[k] # Failed
  <2>1. PICK q \in Plan(layout) : k \in DOMAIN B(q) /\ Combine(WB)[k] = B(q)[k]
    <3>1. Combine(WB)[k] = (CHOOSE x \in WB : k \in DOMAIN x)[k]
      BY <1>6 DEF Combine
    <3>2. \E x \in WB : k \in DOMAIN x
      BY <1>6 DEF Combine
    <3> QED
      BY <3>1, <3>2
  <2>2. PICK p \in Plan(layout) : k \in DOMAIN A(p) /\ A(p)[k] # Failed
    <3>1. \E p \in Plan(layout) : k \in DOMAIN A(p)
      BY <1>8 DEF Combine
    <3>2. (\E p \in Plan(layout) : k \in DOMAIN A(p)) =>
              \E p \in Plan(layout) : k \in DOMAIN A(p) /\ A(p)[k] # Failed
      BY <1>0, RowLeaves
    <3> QED
      BY <3>1, <3>2
  <2>3. q[2] = "level" /\ q[1] = 4 /\ p[2] = "level" /\ p[1] = 4
    <3>1. Owner(k, q[2], layout[q[1]].variants[q[2]], row - 1, q[1])
      BY <1>0, <1>8, <2>1, PlanIs, OnlyOwners DEF Cell
    <3>2. Owner(k, p[2], layout[p[1]].variants[p[2]], row - 1, p[1])
      BY <1>0, <1>8, <2>2, PlanIs, OnlyOwners DEF Cell
    <3> QED
      BY <1>8, <3>1, <3>2 DEF Owner, LevelKeys, ProductDefinitionSection
  <2>4. A(p) = A(q)
    BY <2>3 DEF Cell
  <2> HIDE DEF A, B, la, lb
  <2> QED
    BY <1>1, <1>2, <2>1, <2>2, <2>4
<1> HIDE DEF A, B, WA, WB, la, lb
<1>9. Succeeds(Combine(WB))
  BY <1>4, <1>6, <1>7, <1>8 DEF Succeeds
<1>10. AfterRow(layout, row, rb, Found(other)) = Found(Write(other, Combine(WB)))
  BY <1>3, <1>9 DEF AfterRow, If, Found, Failed
<1>11. SameButLevel(Write(out, Combine(WA)), Write(other, Combine(WB)))
  BY <1>6, <1>7 DEF SameButLevel, Write, Values, ++
<1> QED
  BY <1>4, <1>10, <1>11 DEF Found, Failed

----------------------------------------------------------------------------
(* What prepare() writes of the level, Runtime writes again.               *)
LevelCovered(layout, rb, out) ==
    \A k \in LevelKeys : k \in DOMAIN out =>
        /\ <<4, "level">> \in Plan(layout)
        /\ k \in DOMAIN WriteLevel(layout[4].variants["level"], CallOf(rb, EmptyMessage))

LEMMA RowCovers ==
    ASSUME NEW w, NEW layout, layout = LayoutFor(w), layout # <<>>,
           NEW ra, NEW rb, SameRequests(ra, rb),
           NEW row \in 1 .. Runtime + 1, NEW out, LevelCovered(layout, rb, out),
           NEW after, AfterRow(layout, row, ra, Found(out)) = Found(after)
    PROVE  LevelCovered(layout, rb, after)
<1> SUFFICES ASSUME NEW k \in LevelKeys, k \in DOMAIN after, k \notin DOMAIN out
             PROVE  /\ <<4, "level">> \in Plan(layout)
                    /\ k \in DOMAIN WriteLevel(layout[4].variants["level"], CallOf(rb,
                           EmptyMessage))
  BY DEF LevelCovered
<1> DEFINE a == CallOf(ra, out)
           b == CallOf(rb, EmptyMessage)
           v == layout[4].variants["level"]
<1>1. PICK p \in Plan(layout) : k \in DOMAIN Cell(layout, row, p, ra, out)
  BY RowLeaves
<1>2. p[2] \in ConceptNames /\ row - 1 \in Stages
  BY PlanIs DEF Stages, Runtime
<1>3. p[2] = "level" /\ p[1] = 4 /\ row - 1 \in {Preset, Runtime}
  <2>1. Owner(k, p[2], layout[p[1]].variants[p[2]], row - 1, p[1])
    BY <1>1, <1>2, OnlyOwners DEF Cell
  <2> QED
    BY <2>1 DEF Owner, LevelKeys, ProductDefinitionSection
<1>4. <<4, "level">> \in Plan(layout)
  BY <1>3, PlanIs, InPlan
<1>5. k \in DOMAIN WriteLevel(v, a)
  <2>1. Cell(layout, row, p, ra, out) = LevelConcept(row - 1, 4, v, a)
    BY <1>3 DEF Cell, Callback
  <2>2. k \in DOMAIN LevelConcept(row - 1, 4, v, a)
    BY <1>1, <2>1
  <2> QED
    BY <1>3, <2>2 DEF LevelConcept, LevelOp, NoWrites, Preset, Runtime, Allocate
<1>6. SameFields(a.m, b.m)
  BY DEF CallOf, SameRequests
<1> HIDE DEF a, b, v
<1>7. DOMAIN WriteLevel(v, a) = DOMAIN WriteLevel(v, b)
  BY <1>6, LevelAlike
<1> QED
  BY <1>4, <1>5, <1>7 DEF b, v

(* The last row makes the same of the sample of another request.           *)
LEMMA LastRowAlike ==
    ASSUME NEW w, NEW layout, layout = LayoutFor(w), layout # <<>>,
           NEW rb, RequiredKeys \subseteq DOMAIN rb.mars,
           NEW out, NEW other, SameButLevel(out, other), LevelCovered(layout, rb, out)
    PROVE  AfterRow(layout, Runtime + 1, rb, Found(out)) = AfterRow(layout, Runtime + 1, rb,
               Found(other))
<1> DEFINE A(p) == Cell(layout, Runtime + 1, p, rb, out)
           B(p) == Cell(layout, Runtime + 1, p, rb, other)
           WA == {A(p) : p \in Plan(layout)}
           WB == {B(p) : p \in Plan(layout)}
           writes == Combine(WA)
           v == layout[4].variants["level"]
<1>0. Runtime + 1 \in 1 .. Runtime + 1 /\ (Runtime + 1) - 1 = Runtime
  BY DEF Runtime
<1>1. ASSUME NEW p \in Plan(layout) PROVE A(p) = B(p)
  <2> DEFINE a == CallOf(rb, out)
             b == CallOf(rb, other)
  <2>1. SameCall(a, b) /\ a.m = b.m
    BY DEF CallOf, SameCall, SameFields
  <2>2. p[2] \in ConceptNames
    BY PlanIs
  <2> HIDE DEF a, b
  <2>3. Callback(p[2], layout[p[1]].variants[p[2]], Runtime, p[1], a) =
            Callback(p[2], layout[p[1]].variants[p[2]], Runtime, p[1], b)
    BY <2>1, <2>2, LastCellsAlike
  <2> QED
    BY <1>0, <2>3 DEF Cell, a, b
<1>2. WA = WB
  <2> HIDE DEF A, B
  <2> QED
    BY <1>1
<1>3. RowWrites(layout, Runtime + 1, rb, out) = writes /\ RowWrites(layout, Runtime + 1, rb,
          other) = writes
  <2>1. PICK row \in 1 .. Runtime + 1 : row = Runtime + 1
    BY <1>0
  <2>2. RowWrites(layout, row, rb, out) = Combine({Cell(layout, row, p, rb,
            out) : p \in Plan(layout)})
    BY <2>1, RowIsItsCells
  <2>3. RowWrites(layout, row, rb, other) = Combine({Cell(layout, row, p, rb,
            other) : p \in Plan(layout)})
    BY <2>1, RowIsItsCells
  <2>4. RowWrites(layout, Runtime + 1, rb, out) = Combine(WA)
    BY <2>1, <2>2
  <2>5. RowWrites(layout, Runtime + 1, rb, other) = Combine(WB)
    BY <2>1, <2>3
  <2> HIDE DEF WA, WB
  <2> QED
    BY <1>2, <2>4, <2>5
<1>4. \A k \in LevelKeys : k \in DOMAIN out => k \in DOMAIN writes
  <2> SUFFICES ASSUME NEW k \in LevelKeys, k \in DOMAIN out PROVE k \in DOMAIN writes
    OBVIOUS
  <2> DEFINE p == <<4, "level">>
             a == CallOf(rb, out)
             b == CallOf(rb, EmptyMessage)
  <2>1. p \in Plan(layout) /\ k \in DOMAIN WriteLevel(v, b)
    BY DEF LevelCovered
  <2>2. A(p) = LevelConcept(Runtime, 4, v, a)
    BY <1>0 DEF Cell, Callback
  <2>3. LevelConcept(Runtime, 4, v, a) = WriteLevel(v, a)
    BY DEF LevelConcept, LevelApplicable, LevelOp, ProductDefinitionSection, Runtime, Preset,
        Allocate
  <2>4. SameFields(a.m, b.m)
    BY DEF CallOf, SameFields
  <2>5. k \in DOMAIN A(p)
    <3> HIDE DEF A, a, b, v
    <3>1. DOMAIN WriteLevel(v, a) = DOMAIN WriteLevel(v, b)
      BY <2>4, LevelAlike
    <3> QED
      BY <2>1, <2>2, <2>3, <3>1
  <2> HIDE DEF A
  <2> QED
    BY <2>1, <2>5 DEF Combine
<1>5. Write(out, writes) = Write(other, writes)
  <2> HIDE DEF writes
  <2>1. \A k : k \in DOMAIN out /\ k \notin DOMAIN writes => out[k] = other[k]
    BY <1>4 DEF SameButLevel
  <2>2. DOMAIN out = DOMAIN other
    BY DEF SameButLevel
  <2> QED
    BY <2>1, <2>2 DEF Write, Values, ++
<1> HIDE DEF writes
<1> QED
  BY <1>3, <1>5 DEF AfterRow, If, Found, Failed

LEMMA FirstRows ==
    ASSUME NEW layout, NEW ra, NEW rb
    PROVE  AfterRows(layout, ra)[0] = AfterRows(layout, rb)[0]
<1>1. \A x : RowWrites(layout, 0, ra, x) = RowWrites(layout, 0, rb, x)
  BY DEF RowWrites
<1>2. AfterRow(layout, 0, ra, Found(EmptyMessage)) = AfterRow(layout, 0, rb, Found(EmptyMessage))
  BY <1>1 DEF AfterRow
<1>3. /\ AfterRows(layout, ra)[0] = AfterRow(layout, 0, ra, Found(EmptyMessage))
      /\ AfterRows(layout, rb)[0] = AfterRow(layout, 0, rb, Found(EmptyMessage))
  BY RowByRow
<1> QED
  BY <1>2, <1>3

(* finaliseEncoding() of a request on the sample that prepare() made of    *)
(* another of the same structure is encode() of the request, refusals      *)
(* included.                                                               *)
LEMMA FinalisedIsEncoded ==
    ASSUME NEW w, NEW layout, layout = LayoutFor(w), layout # <<>>,
           NEW ra, NEW rb, SameRequests(ra, rb),
           NEW sample, AfterRows(layout, ra)[Override + 1] = Found(sample)
    PROVE  AfterRow(layout, Runtime + 1, rb, Found(sample)) = AfterRows(layout, rb)[Runtime + 1]
<1> DEFINE A(row) == AfterRows(layout, ra)[row]
           B(row) == AfterRows(layout, rb)[row]
<1>0. Override + 1 = 3 /\ Runtime + 1 = 4 /\ Rows = 0 .. 4
  BY DEF Override, Runtime, Rows
<1>1. B(4) = AfterRow(layout, 4, rb, B(3))
  BY <1>0, RowByRow
<1>2. CASE LateIn(layout, rb)
  <2>1. AfterRow(layout, 4, rb, Found(sample)) = Failed
    BY <1>0, <1>2, LateIsRefused
  <2>2. CASE B(3) = Failed
    BY <1>0, <1>1, <2>1, <2>2 DEF AfterRow
  <2>3. CASE B(3) # Failed
    <3>1. B(3) = Found(B(3)[1])
      <4>1. B(3) = AfterRow(layout, 3, rb, B(2))
        BY <1>0, RowByRow
      <4> QED
        BY <2>3, <4>1, RowResult
    <3>2. AfterRow(layout, 4, rb, Found(B(3)[1])) = Failed
      BY <1>0, <1>2, LateIsRefused
    <3> QED
      BY <1>0, <1>1, <2>1, <3>1, <3>2
  <2> QED
    BY <2>2, <2>3
<1>3. CASE ~LateIn(layout, rb)
  <2> DEFINE Alike(row) == /\ A(row) = Found(A(row)[1]) /\ B(row) = Found(B(row)[1])
                           /\ SameButLevel(A(row)[1], B(row)[1])
                           /\ LevelCovered(layout, rb, A(row)[1])
  <2>1. ASSUME NEW row \in 0 .. 3 PROVE A(row) = Found(A(row)[1])
    <3>1. A(3) = Found(sample)
      BY <1>0
    <3>2. ASSUME NEW i \in 1 .. 3, A(i) # Failed PROVE A(i - 1) # Failed
      <4>1. A(i) = AfterRow(layout, i, ra, A(i - 1))
        BY <1>0, RowByRow
      <4> QED
        BY <3>2, <4>1 DEF AfterRow
    <3>3. A(3) # Failed
      BY <3>1 DEF Found, Failed
    <3>4. A(2) # Failed
      BY <3>2, <3>3, 3 \in 1 .. 3
    <3>5. A(1) # Failed
      BY <3>2, <3>4, 2 \in 1 .. 3
    <3>6. A(0) # Failed
      BY <3>2, <3>5, 1 \in 1 .. 3
    <3>7. A(row) # Failed
      BY <3>3, <3>4, <3>5, <3>6
    <3> QED
      <4>1. CASE row = 0
        <5>1. A(0) = AfterRow(layout, 0, ra, Found(EmptyMessage))
          BY RowByRow
        <5> QED
          BY <3>7, <4>1, <5>1, RowResult
      <4>2. CASE row # 0
        <5>1. A(row) = AfterRow(layout, row, ra, A(row - 1))
          BY <1>0, <4>2, RowByRow
        <5> QED
          BY <3>7, <5>1, RowResult
      <4> QED
        BY <4>1, <4>2
  <2>2. Alike(0)
    <3>1. A(0) = B(0) /\ A(0) = Found(A(0)[1])
      BY <2>1, FirstRows
    <3>2. \A k \in LevelKeys : k \notin DOMAIN A(0)[1]
      <4>1. AfterRow(layout, 0, ra, Found(EmptyMessage)) = A(0)
        BY RowByRow
      <4>2. A(0)[1] = Write(EmptyMessage, RowWrites(layout, 0, ra, EmptyMessage))
        BY <3>1, <4>1 DEF AfterRow, If, Found, Failed
      <4>3. RowWrites(layout, 0, ra, EmptyMessage) = Combine({Initialize(s,
                layout[s].template) : s \in Sections})
        BY DEF RowWrites
      <4>4. \A k \in LevelKeys : k \notin DOMAIN RowWrites(layout, 0, ra, EmptyMessage)
        BY <4>3, InitializersAreQuiet DEF Combine
      <4> QED
        BY <4>2, <4>4 DEF Write, Values, EmptyMessage, NoKeys, ++
    <3> QED
      BY <3>1, <3>2 DEF SameButLevel, LevelCovered
  <2>3. ASSUME NEW row \in 1 .. 3, Alike(row - 1) PROVE Alike(row)
    <3>1. A(row) = AfterRow(layout, row, ra, A(row - 1)) /\ B(row) = AfterRow(layout, row, rb,
              B(row - 1))
      BY <1>0, RowByRow
    <3>2. A(row) = Found(A(row)[1])
      BY <2>1
    <3>3. AfterRow(layout, row, ra, Found(A(row - 1)[1])) = Found(A(row)[1])
      BY <2>3, <3>1, <3>2
    <3>4. SameButLevel(A(row - 1)[1], B(row - 1)[1]) /\ LevelCovered(layout, rb, A(row - 1)[1])
      BY <2>3
    <3>5. /\ AfterRow(layout, row, rb, Found(B(row - 1)[1])) # Failed
          /\ SameButLevel(A(row)[1], AfterRow(layout, row, rb, Found(B(row - 1)[1]))[1])
      <4> HIDE DEF A, B
      <4> QED
        BY <1>0, <1>3, <3>3, <3>4, RowsAlike
    <3>6. B(row) # Failed /\ SameButLevel(A(row)[1], B(row)[1])
      BY <2>3, <3>1, <3>5
    <3>7. B(row) = Found(B(row)[1])
      BY <3>1, <3>6, RowResult
    <3>8. LevelCovered(layout, rb, A(row)[1])
      <4> HIDE DEF A, B
      <4> QED
        BY <1>0, <3>3, <3>4, RowCovers
    <3> QED
      BY <3>2, <3>6, <3>7, <3>8
  <2>4. Alike(3)
    <3> HIDE DEF Alike
    <3>1. Alike(1)
      BY <2>2, <2>3, 1 \in 1 .. 3
    <3>2. Alike(2)
      BY <2>3, <3>1, 2 \in 1 .. 3
    <3> QED
      BY <2>3, <3>2, 3 \in 1 .. 3
  <2>5. A(3)[1] = sample
    BY <1>0 DEF Found
  <2>6. RequiredKeys \subseteq DOMAIN rb.mars
    BY DEF SameRequests, SameFields
  <2>7. B(3) = Found(B(3)[1]) /\ SameButLevel(sample, B(3)[1]) /\ LevelCovered(layout, rb, sample)
    BY <2>4, <2>5
  <2>8. AfterRow(layout, Runtime + 1, rb, Found(sample)) = AfterRow(layout, Runtime + 1, rb,
            Found(B(3)[1]))
    <3> HIDE DEF B
    <3> QED
      BY <2>6, <2>7, LastRowAlike
  <2> QED
    BY <1>0, <1>1, <2>7, <2>8
<1> QED
  BY <1>2, <1>3

(* Whatever the requests, what finaliseEncoding() makes on an entry of     *)
(* another request of the same structure is what encode() makes of the     *)
(* request alone, or it fails as encode() fails (FinaliseIsEncode;         *)
(* api/Mars2Grib.h promises that prepare() and finaliseEncoding() make     *)
(* encode()).                                                              *)
THEOREM FinaliseEncodes == Spec => []FinaliseIsEncode
<1>1. ASSUME IInv, ~Running, job.call = "finalise", SameStructure(cache[1].of, job.request)
      PROVE  EncodedRequests[job.request] = If(job.state = "returned", job.out)
  <2>1. PICK rb \in Requests : rb = job.request
    BY <1>1 DEF IInv, JobType
  <2>2. cache # <<>> /\ Ending(Finalised(rb))
    BY <1>1, <2>1 DEF IInv, EndHeld
  <2>3. PICK ra \in Requests : ra = cache[1].of
    BY <2>2, <1>1 DEF IInv, CacheHeld
  <2>4. PICK layout : layout = LayoutOf[ra]
    OBVIOUS
  <2>5. PICK sample : sample = cache[1].sample
    OBVIOUS
  <2>6. /\ cache[1].layout = layout /\ layout # <<>> /\ LayoutOf[rb] = layout
        /\ AfterRows(layout, ra)[Override + 1] = Found(sample)
    BY <1>1, <2>1, <2>2, <2>3, <2>4, <2>5 DEF IInv, CacheHeld, PreparedSample, SameStructure
  <2>7. layout = LayoutFor(Variants(ra.mars))
    BY <2>4 DEF LayoutOf, VariantsOf
  <2>8. SameRequests(ra, rb)
    <3>1. ra.misc = rb.misc /\ SameFields(ra.mars, rb.mars) /\ ~OfMonths(ra.mars)
      BY <1>1, <2>1, <2>3 DEF SameStructure, SameFields
    <3>2. RequiredKeys \subseteq DOMAIN ra.mars
      BY <2>6, <2>7, RequiredOfLayout
    <3> QED
      BY <3>1, <3>2 DEF SameRequests
  <2>9. Finalised(rb) = AfterRows(layout, rb)[Runtime + 1]
    BY <2>5, <2>6, <2>7, <2>8, FinalisedIsEncoded DEF Finalised
  <2> QED
    BY <1>1, <2>1, <2>2, <2>6, <2>9 DEF EncodedRequests, Encode, Ending, If, Found, Failed, Running
<1>2. IInv => FinaliseIsEncode
  BY <1>1 DEF FinaliseIsEncode
<1> QED
  BY <1>2, InvariantHolds, PTL
----------------------------------------------------------------------------
(* Nothing is dropped: each variant a matcher can return has a section     *)
(* with a recipe that takes it, and a stage at which it is applicable.     *)

(* The variants by concept, where not every one will do.                   *)
Variant ==
    [analysis |-> {"Default"},
     brightnessTemperature |-> {"EnsembleMean", "Default"},
     composition |-> {"Chem", "Aerosol", "AerosolOptical", "ChemicalSource",
                      "AerosolOpticalSource"},
     dataType |-> {"Default"}, destine |-> {"ClimateDT", "ExtremesDT"},
     ensemble |-> {"Individual", "ProbabilityLargeEnsemble"},
     generatingProcess |-> {"Default"}, iteration |-> {"Default"}, longrange |-> {"Default"},
     mars |-> {"Default"}, nil |-> {"Default"}, origin |-> {"Default"},
     packing |-> {"Simple", "Ccsds", "SpectralComplex"}, param |-> {"ParamId"},
     referencePeriod |-> {"Default"}, referenceTime |-> {"Standard", "Reforecast"},
     representation |-> {"SphericalHarmonics", "RegularGaussian", "ReducedGaussian", "Latlon",
                         "Orca", "Healpix"},
     shapeOfTheEarth |-> {"Default"}, strikeProbability |-> {"Default"},
     wave |-> {"Spectra", "Period"}]

AnyVariant == {"derived", "level", "modelError", "pointInTime", "satellite", "statistics", "tables"}

CanBe(c, v) == c \in AnyVariant \/ (c \in DOMAIN Variant /\ v \in Variant[c])

(* Where a concept is written.                                             *)
Home(c) ==
    IF c = "nil" THEN IndicatorSection
    ELSE IF c \in {"origin", "tables", "referenceTime", "dataType"} THEN IdentificationSection
    ELSE IF c \in {"analysis", "brightnessTemperature", "destine", "iteration", "longrange",
                   "mars", "modelError"} THEN LocalUseSection
    ELSE IF c \in {"representation", "shapeOfTheEarth"} THEN GridDefinitionSection
    ELSE IF c = "packing" THEN DataRepresentationSection ELSE ProductDefinitionSection

ProductConcepts ==
    {"composition", "derived", "ensemble", "generatingProcess", "level", "param", "pointInTime",
     "referencePeriod", "satellite", "statistics", "strikeProbability", "wave"}

HomeStage(c, v) ==
    IF c = "tables" \/ (c = "wave" /\ v = "Spectra") THEN Allocate
    ELSE IF c = "referenceTime" THEN Runtime
    ELSE IF c = "dataType" THEN Override ELSE Preset

LEMMA MatchersReturnVariants ==
    ASSUME NEW m, NEW c \in Concepts, MatchersOk(Variants(m)), Variants(m)[c] # Missing
    PROVE  CanBe(c, Variants(m)[c])
<1>1. "nil" \in Concepts
  BY DEF Concepts, ConceptIds, NConcepts, EntryName, AllConcepts, Entry
<1>2. RequiredKeys \subseteq DOMAIN m /\ Variants(m) = ActiveVariants(m)
  BY <1>1 DEF Variants, MatchersOk
<1>3. c \in ConceptNames /\ ActiveVariants(m)[c] \notin {Missing, Throws}
  BY <1>2, ConceptsNamed DEF MatchersOk
<1>4. CASE c \in AnyVariant
  BY <1>4 DEF CanBe, AnyVariant
<1>5. CASE c \in {"dataType", "generatingProcess", "nil", "origin", "param", "referenceTime"}
  BY <1>2, <1>5 DEF ActiveVariants, Always, ReferenceTime, CanBe, Variant
<1>6. CASE c \in {"analysis", "iteration", "longrange", "mars", "referencePeriod",
                  "shapeOfTheEarth"}
  BY <1>2, <1>3, <1>6 DEF ActiveVariants, When, Analysis, Iteration, Longrange, Mars,
                          ReferencePeriod, ShapeOfTheEarth, CanBe, Variant
<1>7. CASE c = "strikeProbability"
  BY <1>2, <1>3, <1>7 DEF ActiveVariants, StrikeProbability, CanBe, Variant
<1>8. CASE c = "brightnessTemperature"
  BY <1>2, <1>3, <1>8 DEF ActiveVariants, BrightnessTemperature, CanBe, Variant
<1>9. CASE c = "composition"
  BY <1>2, <1>3, <1>9 DEF ActiveVariants, Composition, CanBe, Variant
<1>10. CASE c = "destine"
  BY <1>2, <1>3, <1>10 DEF ActiveVariants, Destine, CanBe, Variant
<1>11. CASE c = "ensemble"
  BY <1>2, <1>3, <1>11 DEF ActiveVariants, Ensemble, When, CanBe, Variant
<1>12. CASE c = "packing"
  BY <1>2, <1>3, <1>12 DEF ActiveVariants, Packing, CanBe, Variant
<1>13. CASE c = "representation"
  BY <1>2, <1>3, <1>13 DEF ActiveVariants, Representation, GridVariant, CanBe, Variant
<1>14. CASE c = "wave"
  BY <1>2, <1>3, <1>14 DEF ActiveVariants, Wave, CanBe, Variant
<1> QED
  BY <1>3, <1>4, <1>5, <1>6, <1>7, <1>8, <1>9, <1>10, <1>11, <1>12, <1>13, <1>14
  DEF ConceptNames, AnyVariant

LEMMA RecipesOfSections ==
    /\ SectionRecipes(0) = Section0Recipes /\ SectionRecipes(1) = Section1Recipes
    /\ SectionRecipes(2) = Section2Recipes /\ SectionRecipes(3) = Section3Recipes
    /\ SectionRecipes(4) = Section4Recipes /\ SectionRecipes(5) = Section5Recipes
BY DEF SectionRecipes

LEMMA HomeTakes ==
    ASSUME NEW c, NEW v, CanBe(c, v)
    PROVE  Home(c) \in Sections /\ CompressionMask(Home(c), c, v)
<1>0. \A s : (\E r \in SectionRecipes(s) : Takes(r, c, v)) => CompressionMask(s, c, v)
  BY DEF CompressionMask
<1>1. CASE c = "nil"
  <2>1. Takes(Recipe(0, {"nil"}), c, v)
    BY <1>1 DEF Takes, Recipe
  <2>2. Home(c) = 0
    BY <1>1 DEF Home, IndicatorSection
  <2> QED
    BY <1>0, <2>1, <2>2, RecipesOfSections DEF Section0Recipes, Sections
<1>2. CASE c \in {"origin", "tables", "referenceTime", "dataType"}
  <2>1. Takes(Recipe(0, {"origin", "tables", "referenceTime", "dataType"}), c, v)
    BY <1>2 DEF Takes, Recipe
  <2>2. Home(c) = 1
    BY <1>2 DEF Home, IdentificationSection
  <2> QED
    BY <1>0, <2>1, <2>2, RecipesOfSections DEF Section1Recipes, Sections
<1>3. CASE c \in {"analysis", "iteration", "longrange", "mars", "modelError"}
  <2>1. \E r \in Section2Recipes : c \in r.select
    BY <1>3 DEF Section2Recipes, Recipe, RecipeOf
  <2>2. Home(c) = 2
    BY <1>3 DEF Home, LocalUseSection
  <2> QED
    BY <1>0, <2>1, <2>2, RecipesOfSections DEF Takes, Sections
<1>4. CASE c \in {"brightnessTemperature", "destine"}
  <2>1. \E r \in Section2Recipes : c \in DOMAIN r.only /\ v \in r.only[c]
    BY <1>4 DEF CanBe, AnyVariant, Variant, Section2Recipes, Recipe, RecipeOf
  <2>2. Home(c) = 2
    BY <1>4 DEF Home, LocalUseSection
  <2> QED
    BY <1>0, <2>1, <2>2, RecipesOfSections DEF Takes, Sections
<1>5. CASE c = "shapeOfTheEarth"
  <2>1. \E r \in Section3Recipes : c \in r.select
    BY <1>5 DEF Section3Recipes, OnGrid, Recipe, RecipeOf
  <2>2. Home(c) = 3
    BY <1>5 DEF Home, GridDefinitionSection
  <2> QED
    BY <1>0, <2>1, <2>2, RecipesOfSections DEF Takes, Sections
<1>6. CASE c = "representation"
  <2>1. \E r \in Section3Recipes : c \in DOMAIN r.only /\ v \in r.only[c]
    BY <1>6 DEF CanBe, AnyVariant, Variant, Section3Recipes, OnGrid, Recipe, RecipeOf
  <2>2. Home(c) = 3
    BY <1>6 DEF Home, GridDefinitionSection
  <2> QED
    BY <1>0, <2>1, <2>2, RecipesOfSections DEF Takes, Sections
<1>7. CASE c = "packing"
  <2>1. \E r \in Section5Recipes : c \in DOMAIN r.only /\ v \in r.only[c]
    BY <1>7 DEF CanBe, AnyVariant, Variant, Section5Recipes, Recipe, RecipeOf
  <2>2. Home(c) = 5
    BY <1>7 DEF Home, DataRepresentationSection
  <2> QED
    BY <1>0, <2>1, <2>2, RecipesOfSections DEF Takes, Sections
<1>8. CASE c \in ProductConcepts
  <2>1. \E r \in Section4Recipes : Takes(r, c, v)
    <3>1. CASE c \in {"generatingProcess", "param", "pointInTime", "level"}
      <4>1. Recipe(0, Instant) \in Section4Recipes
        BY DEF Section4Recipes, BasicRecipes
      <4> QED
        BY <3>1, <4>1 DEF Instant, Product, Takes, Recipe, RecipeOf
    <3>2. CASE c = "statistics"
      <4>1. Recipe(8, OverTime) \in Section4Recipes
        BY DEF Section4Recipes, BasicRecipes
      <4> QED
        BY <3>2, <4>1 DEF OverTime, Product, Takes, Recipe, RecipeOf
    <3>3. CASE c = "derived"
      <4>1. Recipe(2, Instant \cup {"derived"}) \in Section4Recipes
        BY DEF Section4Recipes, BasicRecipes
      <4> QED
        BY <3>3, <4>1 DEF Takes, Recipe, RecipeOf
    <3>4. CASE c = "satellite"
      <4>1. Recipe(32, Product("pointInTime") \cup {"satellite"}) \in Section4Recipes
        BY DEF Section4Recipes, BasicRecipes
      <4> QED
        BY <3>4, <4>1 DEF Takes, Recipe, RecipeOf
    <3>5. CASE c = "ensemble"
      <4>1. /\ RecipeOf(1, Instant, Individual) \in Section4Recipes
            /\ RecipeOf(121, Instant \cup {"strikeProbability"}, Probability) \in Section4Recipes
        BY DEF Section4Recipes, BasicRecipes, ProbabilityRecipes
      <4> QED
        BY <3>5, <4>1 DEF CanBe, AnyVariant, Variant, Individual, Probability, Takes, Recipe,
                              RecipeOf
    <3>6. CASE c = "composition"
      <4>1. /\ \A w \in {"Chem", "Aerosol", "AerosolOptical"} : \E n \in Nat :
                  RecipeOf(n, Instant, OfSpecies(w)) \in SpeciesRecipes
            /\ \A w \in {"ChemicalSource", "AerosolOpticalSource"} : \E n \in Nat :
                  RecipeOf(n, Instant, OfSpecies(w)) \in SourceRecipes
        BY DEF SpeciesRecipes, SourceRecipes
      <4>2. SpeciesRecipes \subseteq Section4Recipes /\ SourceRecipes \subseteq Section4Recipes
        BY DEF Section4Recipes
      <4>3. PICK n \in Nat : RecipeOf(n, Instant, OfSpecies(v)) \in Section4Recipes
        BY <3>6, <4>1, <4>2 DEF CanBe, AnyVariant, Variant
      <4> QED
        BY <3>6, <4>3 DEF OfSpecies, Takes, Recipe, RecipeOf
    <3>7. CASE c = "wave"
      <4>1. /\ RecipeOf(99, Product("pointInTime"), WaveOf("Spectra")) \in Section4Recipes
            /\ RecipeOf(103, Product("pointInTime"), WaveOf("Period")) \in Section4Recipes
        BY DEF Section4Recipes, WaveRecipes
      <4> QED
        BY <3>7, <4>1 DEF CanBe, AnyVariant, Variant, WaveOf, Takes, Recipe, RecipeOf
    <3>8. CASE c = "strikeProbability"
      <4>1. RecipeOf(121, Instant \cup {"strikeProbability"}, Probability) \in Section4Recipes
        BY DEF Section4Recipes, ProbabilityRecipes
      <4> QED
        BY <3>8, <4>1 DEF Takes, Recipe, RecipeOf
    <3>9. CASE c = "referencePeriod"
      <4>1. Recipe(107, OverTime \cup {"derived", "referencePeriod"}) \in Section4Recipes
        BY DEF Section4Recipes, ProbabilityRecipes
      <4> QED
        BY <3>9, <4>1 DEF Takes, Recipe, RecipeOf
    <3> QED
      BY <1>8, <3>1, <3>2, <3>3, <3>4, <3>5, <3>6, <3>7, <3>8, <3>9 DEF ProductConcepts
  <2>2. Home(c) = 4
    BY <1>8 DEF Home, ProductDefinitionSection, ProductConcepts
  <2> QED
    BY <1>0, <2>1, <2>2, RecipesOfSections DEF Takes, Sections
<1> QED
  BY <1>1, <1>2, <1>3, <1>4, <1>5, <1>6, <1>7, <1>8 DEF CanBe, AnyVariant, Variant, ProductConcepts

LEMMA CellsByConcept ==
    ASSUME NEW v, NEW stage, NEW s
    PROVE  /\ Applicable("analysis", v, stage, s) <=> AnalysisApplicable(stage, s, v)
           /\ Applicable("brightnessTemperature", v, stage, s) <=> BrightnessTemperatureApplicable(stage, s, v)
           /\ Applicable("composition", v, stage, s) <=> CompositionApplicable(stage, s, v)
           /\ Applicable("dataType", v, stage, s) <=> DataTypeApplicable(stage, s, v)
           /\ Applicable("derived", v, stage, s) <=> DerivedApplicable(stage, s, v)
           /\ Applicable("destine", v, stage, s) <=> DestineApplicable(stage, s, v)
           /\ Applicable("ensemble", v, stage, s) <=> EnsembleApplicable(stage, s, v)
           /\ Applicable("generatingProcess", v, stage, s) <=> GeneratingProcessApplicable(stage, s, v)
           /\ Applicable("iteration", v, stage, s) <=> IterationApplicable(stage, s, v)
           /\ Applicable("level", v, stage, s) <=> LevelApplicable(stage, s, v)
           /\ Applicable("longrange", v, stage, s) <=> LongrangeApplicable(stage, s, v)
           /\ Applicable("mars", v, stage, s) <=> MarsApplicable(stage, s, v)
           /\ Applicable("modelError", v, stage, s) <=> ModelErrorApplicable(stage, s, v)
           /\ Applicable("origin", v, stage, s) <=> OriginApplicable(stage, s, v)
           /\ Applicable("packing", v, stage, s) <=> PackingApplicable(stage, s, v)
           /\ Applicable("param", v, stage, s) <=> ParamApplicable(stage, s, v)
           /\ Applicable("pointInTime", v, stage, s) <=> PointInTimeApplicable(stage, s, v)
           /\ Applicable("referenceTime", v, stage, s) <=> ReferenceTimeApplicable(stage, s, v)
           /\ Applicable("representation", v, stage, s) <=> RepresentationApplicable(stage, s, v)
           /\ Applicable("satellite", v, stage, s) <=> SatelliteApplicable(stage, s, v)
           /\ Applicable("shapeOfTheEarth", v, stage, s) <=> ShapeOfTheEarthApplicable(stage, s, v)
           /\ Applicable("statistics", v, stage, s) <=> StatisticsApplicable(stage, s, v)
           /\ Applicable("tables", v, stage, s) <=> TablesApplicable(stage, s, v)
           /\ Applicable("wave", v, stage, s) <=> WaveApplicable(stage, s, v)
BY Zenon DEF Applicable

LEMMA HomeWrites ==
    ASSUME NEW c, NEW v, CanBe(c, v), <<c, v>> \notin Markers
    PROVE  HomeStage(c, v) \in Stages /\ Applicable(c, v, HomeStage(c, v), Home(c))
<1>0. HomeStage(c, v) \in Stages
  BY DEF HomeStage, Stages, Allocate, Preset, Override, Runtime
<1>1. c \notin {"nil", "referencePeriod", "strikeProbability"}
  BY DEF Markers, CanBe, Variant, AnyVariant
<1>2. CASE c \in {"origin", "tables", "referenceTime", "dataType"}
  <2>1. Home(c) = IdentificationSection
    BY <1>2 DEF Home, ProductDefinitionSection
  <2> QED
    BY <1>0, <1>2, <2>1, CellsByConcept
    DEF CanBe, AnyVariant, Variant, Markers, HomeStage, Allocate, Preset, Override, Runtime,
        OriginApplicable, TablesApplicable, ReferenceTimeApplicable, DataTypeApplicable
<1>3. CASE c \in {"analysis", "brightnessTemperature", "destine", "iteration", "longrange",
                   "mars", "modelError"}
  <2>1. Home(c) = LocalUseSection
    BY <1>3 DEF Home, ProductDefinitionSection
  <2> QED
    BY <1>0, <1>3, <2>1, CellsByConcept
    DEF CanBe, AnyVariant, Variant, Markers, HomeStage, Allocate, Preset, Override, Runtime,
        AnalysisApplicable, BrightnessTemperatureApplicable, DestineApplicable,
        IterationApplicable, LongrangeApplicable, MarsApplicable, ModelErrorApplicable
<1>4. CASE c \in {"representation", "shapeOfTheEarth"}
  <2>1. Home(c) = GridDefinitionSection
    BY <1>4 DEF Home, ProductDefinitionSection
  <2> QED
    BY <1>0, <1>4, <2>1, CellsByConcept
    DEF CanBe, AnyVariant, Variant, Markers, HomeStage, Allocate, Preset, Override, Runtime,
        RepresentationApplicable, ShapeOfTheEarthApplicable
<1>5. CASE c \in {"packing"}
  <2>1. Home(c) = DataRepresentationSection
    BY <1>5 DEF Home, ProductDefinitionSection
  <2> QED
    BY <1>0, <1>5, <2>1, CellsByConcept
    DEF CanBe, AnyVariant, Variant, Markers, HomeStage, Allocate, Preset, Override, Runtime,
        PackingApplicable
<1>6. CASE c \in {"composition", "derived", "ensemble", "generatingProcess", "level", "param",
                   "pointInTime", "satellite", "statistics", "wave"}
  <2>1. Home(c) = ProductDefinitionSection
    BY <1>6 DEF Home, ProductDefinitionSection
  <2> QED
    BY <1>0, <1>6, <2>1, CellsByConcept
    DEF CanBe, AnyVariant, Variant, Markers, HomeStage, Allocate, Preset, Override, Runtime,
        CompositionApplicable, DerivedApplicable, EnsembleApplicable,
        GeneratingProcessApplicable, LevelApplicable, ParamApplicable,
        PointInTimeApplicable, SatelliteApplicable, StatisticsApplicable, WaveApplicable
<1> QED
  BY <1>0, <1>1, <1>2, <1>3, <1>4, <1>5, <1>6 DEF CanBe, AnyVariant, Variant

(* Whatever the requests, no concept that a request activates is left out  *)
(* of its message (NothingDropped; CompressionMask.h masks what no recipe  *)
(* mentions).                                                              *)
THEOREM NothingIsDropped == Spec => []NothingDropped
<1>1. ASSUME IInv, Running, job.call # "finalise",
             NEW c \in Active(VariantsOf[job.request])
      PROVE  \E s \in Sections :
                 /\ c \in DOMAIN job.layout[s].variants
                 /\ \/ <<c, VariantsOf[job.request][c]>> \in Markers
                    \/ \E stage \in Stages : Applicable(c, VariantsOf[job.request][c], stage, s)
  <2> DEFINE r == job.request
             v == VariantsOf[r]
  <2>1. /\ r \in Requests /\ v = Variants(r.mars)
        /\ LayoutFor(v) # <<>> /\ job.layout = LayoutFor(v)
    BY <1>1 DEF IInv, JobType, RunHeld, LayoutOf, VariantsOf, Running
  <2>2. MatchersOk(v) /\ job.layout = Layout(v)
    BY <2>1 DEF LayoutFor, LayoutOk
  <2>3. CanBe(c, v[c])
    BY <1>1, <2>1, <2>2, MatchersReturnVariants DEF Active
  <2>4. Home(c) \in Sections /\ c \in Key(Home(c), v)
    BY <1>1, <2>3, HomeTakes DEF Key
  <2>5. c \in DOMAIN job.layout[Home(c)].variants
    BY <2>2, <2>4 DEF Layout
  <2> QED
    BY <2>3, <2>4, <2>5, HomeWrites
<1>2. IInv => NothingDropped
  BY <1>1 DEF NothingDropped
<1> QED
  BY <1>2, InvariantHolds, PTL
----------------------------------------------------------------------------
(* The selector and the recipes agree: the numbers of the registry tell     *)
(* the variants apart, so a key of numbers and a key of concepts say the    *)
(* same (Search against Matching, both of GribLayout).                      *)

(* The blocks of the registry, one per concept and one after the other.    *)
Blocks == <<1, 6, 1, 2, 2, 4, 1, 47, 1, 1, 1, 1, 1, 4, 1, 1, 2, 10, 1, 2, 18, 2, 3, 2, 2, 1, 1>>
Offsets ==
    <<0, 1, 7, 8, 10, 12, 16, 17, 64, 65, 66, 67, 68, 69, 73, 74, 75, 77, 87, 88, 90, 108, 110,
      113, 115, 117, 118, 119>>

LEMMA BlockLengths ==
    /\ NConcepts = 27 /\ DOMAIN AllConcepts = 1 .. 27
    /\ \A i \in 1 .. 27 : /\ Len(AllConcepts[i].variants) = Blocks[i]
                         /\ DOMAIN AllConcepts[i].variants = 1 .. Blocks[i]
<1> DEFINE size(i) == /\ Len(AllConcepts[i].variants) = Blocks[i]
                      /\ DOMAIN AllConcepts[i].variants = 1 .. Blocks[i]
<1>1. NConcepts = 27 /\ DOMAIN AllConcepts = 1 .. 27
  BY DEF NConcepts, AllConcepts
<1>2. /\ size(1) /\ size(2) /\ size(3) /\ size(4) /\ size(5)
      /\ size(6) /\ size(7) /\ size(8) /\ size(9)
  BY DEF AllConcepts, Entry, Blocks, AnalysisVariants, CompositionVariants,
         DataTypeVariants, DerivedVariants, DestineVariants, EnsembleVariants,
         GeneratingProcessVariants, LevelVariants, LongrangeVariants
<1>3. /\ size(10) /\ size(11) /\ size(12) /\ size(13) /\ size(14)
      /\ size(15) /\ size(16) /\ size(17) /\ size(18)
  BY DEF AllConcepts, Entry, Blocks, IterationVariants, MarsVariants, NilVariants,
         OriginVariants, PackingVariants, ParamVariants, PointInTimeVariants,
         ReferenceTimeVariants, RepresentationVariants
<1>4. /\ size(19) /\ size(20) /\ size(21) /\ size(22) /\ size(23)
      /\ size(24) /\ size(25) /\ size(26) /\ size(27)
  BY DEF AllConcepts, Entry, Blocks, SatelliteVariants, ShapeOfTheEarthVariants,
         StatisticsVariants, TablesVariants, WaveVariants, ModelErrorVariants,
         BrightnessTemperatureVariants, StrikeProbabilityVariants, ReferencePeriodVariants
<1> HIDE DEF size
<1>5. \A i \in 1 .. 27 : size(i)
  BY <1>2, <1>3, <1>4
<1> QED
  BY <1>1, <1>5 DEF size

LEMMA OffsetsAreSums ==
    \A i \in 0 .. 27 : /\ Offsets[i + 1] \in Nat
                       /\ Offsets[i + 1] = IF i = 0 THEN 0 ELSE Offsets[i] + Blocks[i]
BY SMT DEF Offsets, Blocks

LEMMA BlockSizes ==
    \A i \in 1 .. 27 : Blocks[i] \in Nat /\ Blocks[i] < 100
BY SMT DEF Blocks

LEMMA OffsetsAscend ==
    ASSUME NEW i \in 1 .. 27, NEW j \in 1 .. 27, i < j
    PROVE  Offsets[i + 1] <= Offsets[j]
BY SMT DEF Offsets

LEMMA EntryDistinct ==
    \A i, j \in 1 .. 27 : AllConcepts[i].concept = AllConcepts[j].concept => i = j
BY SMT DEF AllConcepts, Entry

LEMMA ConceptOffsetsAre ==
    \A i \in 0 .. 27 : ConceptOffsets[i] = Offsets[i + 1]
<1> DEFINE F(f) == [i \in 0 .. NConcepts |->
                      IF i = 0 THEN 0 ELSE f[i - 1] + Len(AllConcepts[i].variants)]
           V == [i \in 0 .. 27 |-> Offsets[i + 1]]
<1>1. V = F(V)
  <2>1. ASSUME NEW i \in 0 .. 27
        PROVE  V[i] = IF i = 0 THEN 0 ELSE V[i - 1] + Len(AllConcepts[i].variants)
    <3>1. CASE i = 0
      BY <3>1, OffsetsAreSums
    <3>2. CASE i # 0
      <4>1. i \in 1 .. 27 /\ i - 1 \in 0 .. 27 /\ (i - 1) + 1 = i
        BY <3>2
      <4>2. V[i - 1] = Offsets[i]
        BY <4>1
      <4> QED
        BY <3>2, <4>1, <4>2, OffsetsAreSums, BlockLengths
    <3> QED
      BY <3>1, <3>2
  <2> QED
    BY <2>1, BlockLengths
<1>2. ConceptOffsets = CHOOSE f : f = F(f)
  BY DEF ConceptOffsets
<1>3. ConceptOffsets = F(ConceptOffsets)
  <2> HIDE DEF F, V
  <2> QED
    BY <1>1, <1>2
<1> HIDE DEF F
<1>4. \A i \in 0 .. NConcepts : F(ConceptOffsets)[i] =
          IF i = 0 THEN 0 ELSE ConceptOffsets[i - 1] + Len(AllConcepts[i].variants)
  BY DEF F
<1>5. \A i \in 0 .. NConcepts : ConceptOffsets[i] =
          IF i = 0 THEN 0 ELSE ConceptOffsets[i - 1] + Len(AllConcepts[i].variants)
  <2> DEFINE co == ConceptOffsets
  <2>1. co = F(ConceptOffsets)
    BY <1>3
  <2> HIDE DEF co
  <2>2. \A i \in 0 .. NConcepts : co[i] = F(ConceptOffsets)[i]
    BY <2>1
  <2>3. \A i \in 0 .. NConcepts : co[i] =
          IF i = 0 THEN 0 ELSE ConceptOffsets[i - 1] + Len(AllConcepts[i].variants)
    BY <2>2, <1>4, Zenon
  <2> QED
    BY <2>3, Zenon DEF co
<1>6. ASSUME NEW i \in 1 .. 27
      PROVE  ConceptOffsets[i] = ConceptOffsets[i - 1] + Blocks[i]
  <2>0. i \in 0 .. 27 /\ i # 0
    OBVIOUS
  <2>1. i \in 0 .. NConcepts /\ i # 0 /\ Len(AllConcepts[i].variants) = Blocks[i]
    BY <2>0, BlockLengths, Zenon
  <2>2. ConceptOffsets[i] =
          IF i = 0 THEN 0 ELSE ConceptOffsets[i - 1] + Len(AllConcepts[i].variants)
    BY <1>5, <2>1, Zenon
  <2> QED
    BY <2>1, <2>2, Zenon
<1> DEFINE right(i) == ConceptOffsets[i] = Offsets[i + 1]
<1>7. right(0)
  <2>1. 0 \in 0 .. NConcepts
    BY BlockLengths
  <2>2. ConceptOffsets[0] = 0
    BY <1>5, <2>1, Zenon
  <2> QED
    BY <2>2, OffsetsAreSums
<1>8. ASSUME NEW i \in 1 .. 27, right(i - 1) PROVE right(i)
  BY <1>6, <1>8, OffsetsAreSums
<1> HIDE DEF right
<1>9. right(0) /\ \A i \in 1 .. 27 : right(i - 1) => right(i)
  BY <1>7, <1>8
<1>10. /\ right(1) /\ right(2) /\ right(3) /\ right(4) /\ right(5)
       /\ right(6) /\ right(7) /\ right(8) /\ right(9)
  BY <1>9
<1>11. /\ right(10) /\ right(11) /\ right(12) /\ right(13) /\ right(14)
       /\ right(15) /\ right(16) /\ right(17) /\ right(18)
  BY <1>9, <1>10
<1>12. /\ right(19) /\ right(20) /\ right(21) /\ right(22) /\ right(23)
       /\ right(24) /\ right(25) /\ right(26) /\ right(27)
  BY <1>9, <1>11
<1> QED
  BY <1>7, <1>10, <1>11, <1>12 DEF right

LEMMA ConceptHasId ==
    ASSUME NEW c \in Concepts
    PROVE  /\ ConceptId(c) \in 0 .. 26 /\ ConceptId(c) + 1 \in 1 .. 27
           /\ EntryName(ConceptId(c)) = c
           /\ VariantList(c) = AllConcepts[ConceptId(c) + 1].variants
           /\ Len(VariantList(c)) = Blocks[ConceptId(c) + 1]
           /\ DOMAIN VariantList(c) = 1 .. Len(VariantList(c))
<1>1. ConceptIds = 0 .. 26
  BY BlockLengths DEF ConceptIds
<1>2. \E i \in 0 .. 26 : EntryName(i) = c
  BY <1>1 DEF Concepts
<1>3. ConceptId(c) \in 0 .. 26 /\ EntryName(ConceptId(c)) = c
  BY <1>1, <1>2 DEF ConceptId
<1>4. ConceptId(c) + 1 \in 1 .. 27
  BY <1>3
<1> QED
  BY <1>3, <1>4, BlockLengths, Zenon DEF VariantList

(* A number within the block of a concept is of this concept and no other. *)
LEMMA NumbersOfConcept ==
    ASSUME NEW c \in Concepts, NEW i \in 0 .. Len(VariantList(c)) - 1
    PROVE  LET g == ConceptOffsets[ConceptId(c)] + i
           IN  /\ g \in VariantIds
               /\ ConceptNameArr[g] = c
               /\ VariantNameArr[g] = VariantList(c)[i + 1]
<1> DEFINE id == ConceptId(c)
           g == ConceptOffsets[id] + i
<1>1. ConceptIds = 0 .. 26 /\ NConcepts = 27
  BY BlockLengths DEF ConceptIds
<1>2. /\ id \in 0 .. 26 /\ EntryName(id) = c
      /\ VariantList(c) = AllConcepts[id + 1].variants
      /\ Len(VariantList(c)) = Blocks[id + 1]
  BY ConceptHasId, Zenon
<1> HIDE DEF id
<1>3. ASSUME NEW j \in 0 .. 26
      PROVE  /\ ConceptOffsets[j] = Offsets[j + 1] /\ ConceptOffsets[j + 1] = Offsets[j + 2]
             /\ Offsets[j + 1] \in Nat /\ Offsets[j + 2] = Offsets[j + 1] + Blocks[j + 1]
  <2>1. j \in 0 .. 27 /\ j + 1 \in 0 .. 27 /\ (j + 1) + 1 = j + 2 /\ j + 1 # 0
    OBVIOUS
  <2>2. ConceptOffsets[j] = Offsets[j + 1] /\ ConceptOffsets[j + 1] = Offsets[(j + 1) + 1]
    BY <2>1, ConceptOffsetsAre, Zenon
  <2>3. Offsets[j + 1] \in Nat /\ Offsets[(j + 1) + 1] = Offsets[j + 1] + Blocks[j + 1]
    BY <2>1, OffsetsAreSums, Zenon
  <2> QED
    BY <2>1, <2>2, <2>3, Zenon
<1>4. /\ g \in Nat /\ ConceptOffsets[id] <= g /\ g < ConceptOffsets[id + 1]
      /\ g - ConceptOffsets[id] = i
  <2>1. Blocks[id + 1] \in Nat
    <3>1. id + 1 \in 1 .. 27
      BY <1>2
    <3> QED
      BY <3>1, BlockSizes, Zenon
  <2>2. i \in 0 .. Blocks[id + 1] - 1
    BY <1>2
  <2>3. ConceptOffsets[id] \in Nat /\ ConceptOffsets[id + 1] = ConceptOffsets[id] + Blocks[id + 1]
    BY <1>2, <1>3, Zenon
  <2> QED
    BY <2>1, <2>2, <2>3
<1>5. ASSUME NEW j \in 0 .. 26, ConceptOffsets[j] <= g, g < ConceptOffsets[j + 1]
      PROVE  j = id
  <2>1. id + 1 \in 1 .. 27 /\ j + 1 \in 1 .. 27
    BY <1>2
  <2>2. CASE j < id
    <3>1. Offsets[(j + 1) + 1] <= Offsets[id + 1]
      <4>1. j + 1 < id + 1
        BY <1>2, <2>2
      <4> QED
        BY <2>1, <4>1, OffsetsAscend, Zenon
    <3>2. (j + 1) + 1 = j + 2
      OBVIOUS
    <3>3. /\ ConceptOffsets[j + 1] = Offsets[j + 2] /\ ConceptOffsets[id] = Offsets[id + 1]
          /\ Offsets[j + 2] \in Nat /\ Offsets[id + 1] \in Nat
      BY <1>2, <1>3, OffsetsAreSums, j + 1 \in 0 .. 27, (j + 1) + 1 = j + 2
    <3> QED
      BY <1>4, <1>5, <3>1, <3>2, <3>3
  <2>3. CASE id < j
    <3>1. Offsets[(id + 1) + 1] <= Offsets[j + 1]
      <4>1. id + 1 < j + 1
        BY <1>2, <2>3
      <4> QED
        BY <2>1, <4>1, OffsetsAscend, Zenon
    <3>2. (id + 1) + 1 = id + 2
      BY <1>2
    <3>3. /\ ConceptOffsets[id + 1] = Offsets[id + 2] /\ ConceptOffsets[j] = Offsets[j + 1]
          /\ Offsets[id + 2] \in Nat /\ Offsets[j + 1] \in Nat
      BY <1>2, <1>3, OffsetsAreSums, id + 1 \in 0 .. 27, (id + 1) + 1 = id + 2
    <3> QED
      BY <1>4, <1>5, <3>1, <3>2, <3>3
  <2> QED
    BY <1>2, <2>2, <2>3
<1>6. g \in VariantIds
  <2>1. ConceptOffsets[27] = Offsets[28] /\ Offsets[28] \in Nat
    BY ConceptOffsetsAre, OffsetsAreSums, 27 \in 0 .. 27, 27 + 1 = 28
  <2>2. Offsets[id + 2] <= Offsets[28]
    <3>1. CASE id = 26
      BY <3>1, <2>1
    <3>2. CASE id # 26
      <4>1. id + 1 \in 1 .. 27 /\ 27 \in 1 .. 27 /\ id + 1 < 27 /\ (id + 1) + 1 = id + 2
        BY <1>2, <3>2
      <4>2. Offsets[id + 2] <= Offsets[27]
        BY <4>1, OffsetsAscend, Zenon
      <4>3. Offsets[27] <= Offsets[28]
        BY SMT DEF Offsets
      <4>4. Offsets[27] \in Nat /\ Offsets[id + 2] \in Nat
        BY <1>2, <1>3, <4>1, OffsetsAreSums, 26 \in 0 .. 27, 26 + 1 = 27, id + 1 \in 0 .. 27
      <4> QED
        BY <2>1, <4>2, <4>3, <4>4
    <3> QED
      BY <3>1, <3>2
  <2>3. ConceptOffsets[id + 1] = Offsets[id + 2] /\ Offsets[id + 2] \in Nat
    BY <1>2, <1>3, OffsetsAreSums, id + 1 \in 0 .. 27, (id + 1) + 1 = id + 2
  <2> QED
    BY <1>1, <1>4, <2>1, <2>2, <2>3 DEF VariantIds, NVariants
<1>7. ConceptIdArr[g] = id
  <2>1. ConceptIdArr[g] =
            CHOOSE j \in ConceptIds : ConceptOffsets[j] <= g /\ g < ConceptOffsets[j + 1]
    BY <1>6 DEF ConceptIdArr
  <2> HIDE DEF g
  <2> QED
    BY <1>1, <1>2, <1>4, <1>5, <2>1
<1>8. VariantIdArr[g] = i
  BY <1>4, <1>6, <1>7 DEF VariantIdArr
<1>9. ConceptNameArr[g] = EntryName(ConceptIdArr[g])
  BY <1>6 DEF ConceptNameArr
<1>10. VariantNameArr[g] = AllConcepts[ConceptIdArr[g] + 1].variants[VariantIdArr[g] + 1]
  BY <1>6 DEF VariantNameArr
<1> HIDE DEF g
<1>11. /\ ConceptNameArr[g] = c
       /\ VariantNameArr[g] = VariantList(c)[i + 1]
  BY <1>2, <1>7, <1>8, <1>9, <1>10, Zenon
<1> QED
  BY <1>6, <1>11 DEF g, id

(* A variant has a number, from which it and its concept are found again.  *)
THEOREM NumberOfVariant ==
    ASSUME NEW c \in Concepts, NEW v \in VariantsOfConcept(c)
    PROVE  /\ LocalIndex(c, v) \in 0 .. Len(VariantList(c)) - 1
           /\ GlobalIndex(c, v) = ConceptOffsets[ConceptId(c)] + LocalIndex(c, v)
           /\ ConceptNameArr[GlobalIndex(c, v)] = c
           /\ VariantNameArr[GlobalIndex(c, v)] = v
<1> DEFINE list == VariantList(c)
           n == CHOOSE i \in DOMAIN list : list[i] = v
<1>1. DOMAIN list = 1 .. Len(list) /\ Len(list) \in Nat
  <2>1. Blocks[ConceptId(c) + 1] \in Nat
    BY ConceptHasId, BlockSizes, Zenon
  <2> QED
    BY <2>1, ConceptHasId, Zenon
<1>2. \E i \in DOMAIN list : list[i] = v
  BY DEF VariantsOfConcept
<1> HIDE DEF list
<1>3. n \in 1 .. Len(list) /\ list[n] = v
  BY <1>1, <1>2
<1>4. LocalIndex(c, v) = n - 1
  BY <1>2, SMT DEF LocalIndex, list
<1> HIDE DEF n
<1>5. LocalIndex(c, v) \in 0 .. Len(VariantList(c)) - 1 /\ LocalIndex(c, v) + 1 = n
  BY <1>1, <1>3, <1>4 DEF list
<1>6. Len(list) < MISSING
  <2>3. Len(list) < 100
    BY BlockSizes, ConceptHasId, Zenon DEF list
  <2> QED
    BY <1>1, <2>3, SMT DEF MISSING
<1>7. LocalIndex(c, v) # MISSING
  BY <1>1, <1>5, <1>6, SMT DEF list, MISSING
<1>8. GlobalIndex(c, v) = ConceptOffsets[ConceptId(c)] + LocalIndex(c, v)
  BY <1>7 DEF GlobalIndex
<1>9. /\ ConceptNameArr[GlobalIndex(c, v)] = c
      /\ VariantNameArr[GlobalIndex(c, v)] = VariantList(c)[LocalIndex(c, v) + 1]
  <2> DEFINE local == LocalIndex(c, v)
             g == ConceptOffsets[ConceptId(c)] + local
  <2>1. local \in 0 .. Len(VariantList(c)) - 1
    BY <1>5
  <2> HIDE DEF local
  <2>2. ConceptNameArr[g] = c /\ VariantNameArr[g] = VariantList(c)[local + 1]
    BY <2>1, NumbersOfConcept
  <2> QED
    BY <1>8, <2>2 DEF local
<1> QED
  BY <1>3, <1>5, <1>8, <1>9 DEF list

LEMMA Tabled ==
    ASSUME NEW table, NEW p, NEW other
    PROVE  OneOf(table, p, other) \in DOMAIN table \/ OneOf(table, p, other) = other
BY DEF OneOf

LEMMA EntriesAre ==
    /\ AllConcepts[1] = Entry("analysis", AnalysisVariants)
    /\ AllConcepts[2] = Entry("composition", CompositionVariants)
    /\ AllConcepts[3] = Entry("dataType", DataTypeVariants)
    /\ AllConcepts[4] = Entry("derived", DerivedVariants)
    /\ AllConcepts[5] = Entry("destine", DestineVariants)
    /\ AllConcepts[6] = Entry("ensemble", EnsembleVariants)
    /\ AllConcepts[7] = Entry("generatingProcess", GeneratingProcessVariants)
    /\ AllConcepts[8] = Entry("level", LevelVariants)
    /\ AllConcepts[9] = Entry("longrange", LongrangeVariants)
    /\ AllConcepts[10] = Entry("iteration", IterationVariants)
    /\ AllConcepts[11] = Entry("mars", MarsVariants)
    /\ AllConcepts[12] = Entry("nil", NilVariants)
    /\ AllConcepts[13] = Entry("origin", OriginVariants)
    /\ AllConcepts[14] = Entry("packing", PackingVariants)
    /\ AllConcepts[15] = Entry("param", ParamVariants)
    /\ AllConcepts[16] = Entry("pointInTime", PointInTimeVariants)
    /\ AllConcepts[17] = Entry("referenceTime", ReferenceTimeVariants)
    /\ AllConcepts[18] = Entry("representation", RepresentationVariants)
    /\ AllConcepts[19] = Entry("satellite", SatelliteVariants)
    /\ AllConcepts[20] = Entry("shapeOfTheEarth", ShapeOfTheEarthVariants)
    /\ AllConcepts[21] = Entry("statistics", StatisticsVariants)
    /\ AllConcepts[22] = Entry("tables", TablesVariants)
    /\ AllConcepts[23] = Entry("wave", WaveVariants)
    /\ AllConcepts[24] = Entry("modelError", ModelErrorVariants)
    /\ AllConcepts[25] = Entry("brightnessTemperature", BrightnessTemperatureVariants)
    /\ AllConcepts[26] = Entry("strikeProbability", StrikeProbabilityVariants)
    /\ AllConcepts[27] = Entry("referencePeriod", ReferencePeriodVariants)
BY DEF AllConcepts

Elements(list) == {list[j] : j \in DOMAIN list}

LEMMA ListOfConcept ==
    ASSUME NEW i \in 1 .. 27
    PROVE  /\ AllConcepts[i].concept \in Concepts
           /\ VariantList(AllConcepts[i].concept) = AllConcepts[i].variants
           /\ VariantsOfConcept(AllConcepts[i].concept) = Elements(AllConcepts[i].variants)
<1> DEFINE c == AllConcepts[i].concept
<1>1. c \in Concepts
  <2>1. i - 1 \in 0 .. 26 /\ (i - 1) + 1 = i
    OBVIOUS
  <2> QED
    <3>1. EntryName(i - 1) = c
      BY <2>1, Zenon DEF EntryName
    <3>2. ConceptIds = 0 .. 26
      BY BlockLengths DEF ConceptIds
    <3> QED
      BY <2>1, <3>1, <3>2, Zenon DEF Concepts
<1>2. ConceptId(c) + 1 = i
  <2>1. ConceptId(c) + 1 \in 1 .. 27 /\ EntryName(ConceptId(c)) = c
    BY <1>1, ConceptHasId, Zenon
  <2>2. AllConcepts[ConceptId(c) + 1].concept = AllConcepts[i].concept
    BY <2>1, Zenon DEF EntryName
  <2> QED
    BY <2>1, <2>2, EntryDistinct, Zenon
<1>3. VariantList(c) = AllConcepts[i].variants
  BY <1>2, Zenon DEF VariantList
<1> HIDE DEF c
<1>4. VariantsOfConcept(c) = Elements(AllConcepts[i].variants)
  BY <1>3, Zenon DEF VariantsOfConcept, Elements
<1> QED
  BY <1>1, <1>3, <1>4 DEF c

LevelNames ==
    {"Surface", "EntireAtmosphere", "EntireLake", "CloudBase", "Tropopause",
     "NominalTop", "MostUnstableParcel", "MixedLayerParcel", "Isothermal",
     "IsobaricInPa", "IsobaricInHpa", "LowCloudLayer", "MediumCloudLayer",
     "HighCloudLayer", "MeanSea", "HeightAboveSea", "HeightAboveGround",
     "ModelSingleLevel", "ModelMultipleLevel", "Theta", "PotentialVorticity",
     "SnowLayer", "SoilLayer", "SeaIceLayer", "OceanSurface",
     "DepthBelowSeaLayer", "OceanSurfaceToBottom", "LakeBottom", "MixingLayer",
     "OceanModel", "OceanModelLayer", "MixedLayerDepthByDensity",
     "MixedLayerDepthByTemperature", "SnowLayerOverIceOnWater", "IceTopOnWater",
     "IceLayerOnWater", "EntireMeltPond", "WaterSurfaceToIsothermalOceanLayer",
     "AbstractSingleLevel", "AbstractLevel", "AbstractMultipleLevel",
     "HeightAboveSeaAt10M", "HeightAboveSeaAt2M", "HeightAboveGroundAt10M",
     "HeightAboveGroundAt2M", "FlightLevel", "Default"}

LEMMA LevelTables ==
    /\ DOMAIN SurfaceLevels \subseteq LevelNames
    /\ DOMAIN ModelLevels \subseteq LevelNames
    /\ DOMAIN SoilLevels \subseteq LevelNames
    /\ DOMAIN OceanSurfaceLevels \subseteq LevelNames
    /\ DOMAIN OceanLevels \subseteq LevelNames
    /\ DOMAIN HeightLevels \subseteq LevelNames
    /\ DOMAIN ThetaLevels \subseteq LevelNames
    /\ DOMAIN VorticityLevels \subseteq LevelNames
<1>1. DOMAIN SurfaceLevels \subseteq LevelNames
  BY SMT DEF SurfaceLevels, LevelNames
<1>2. DOMAIN ModelLevels \subseteq LevelNames /\ DOMAIN SoilLevels \subseteq LevelNames
  BY SMT DEF ModelLevels, SoilLevels, LevelNames
<1>3. DOMAIN OceanSurfaceLevels \subseteq LevelNames /\ DOMAIN OceanLevels \subseteq LevelNames
  BY SMT DEF OceanSurfaceLevels, OceanLevels, LevelNames
<1>4. DOMAIN HeightLevels \subseteq LevelNames /\ DOMAIN ThetaLevels \subseteq LevelNames
  BY SMT DEF HeightLevels, ThetaLevels, LevelNames
<1>5. DOMAIN VorticityLevels \subseteq LevelNames
  BY SMT DEF VorticityLevels, LevelNames
<1> QED
  BY <1>1, <1>2, <1>3, <1>4, <1>5

LEMMA LevelsNamed == LevelNames \subseteq VariantsOfConcept("level")
<1>1. VariantsOfConcept("level") = Elements(LevelVariants)
  BY EntriesAre, ListOfConcept DEF Entry
<1>2. LevelNames = Elements(LevelVariants)
  BY DEF LevelVariants, LevelNames, Elements
<1> QED
  BY <1>1, <1>2

LEMMA LevelMatched ==
    ASSUME NEW m, Level(m) \notin {Missing, Throws}
    PROVE  Level(m) \in VariantsOfConcept("level")
<1> DEFINE p == m.param
<1>1. Level(m) \in {MatchSFC(p), MatchHL(p), MatchML(p), MatchPL(p, m.levelist), MatchFL(p),
                    MatchPT(p), MatchPV(p), MatchSOL(p), MatchAL(p), MatchO2D(p), MatchO3D(p),
                    Missing, Throws}
  BY Zenon DEF Level
<1> HIDE DEF p
<1>2. /\ MatchSFC(p) \in LevelNames \cup {Missing, Throws}
      /\ MatchHL(p) \in LevelNames \cup {Throws}
      /\ MatchML(p) \in LevelNames \cup {Throws}
      /\ MatchPT(p) \in LevelNames \cup {Throws}
      /\ MatchPV(p) \in LevelNames \cup {Throws}
      /\ MatchSOL(p) \in LevelNames \cup {Throws}
      /\ MatchO2D(p) \in LevelNames \cup {Throws}
      /\ MatchO3D(p) \in LevelNames \cup {Throws}
  <2>1. /\ MatchSFC(p) \in DOMAIN SurfaceLevels \cup {Missing, Throws}
        /\ MatchHL(p) \in DOMAIN HeightLevels \cup {Throws}
        /\ MatchML(p) \in DOMAIN ModelLevels \cup {Throws}
        /\ MatchPT(p) \in DOMAIN ThetaLevels \cup {Throws}
        /\ MatchPV(p) \in DOMAIN VorticityLevels \cup {Throws}
        /\ MatchSOL(p) \in DOMAIN SoilLevels \cup {Throws}
        /\ MatchO2D(p) \in DOMAIN OceanSurfaceLevels \cup {Throws}
        /\ MatchO3D(p) \in DOMAIN OceanLevels \cup {Throws}
    BY Tabled, SMT DEF MatchSFC, MatchHL, MatchML, MatchPT, MatchPV, MatchSOL, MatchO2D, MatchO3D
  <2> QED
    BY <2>1, LevelTables
<1>3. /\ MatchPL(p, m.levelist) \in LevelNames \cup {Throws}
      /\ MatchFL(p) \in LevelNames \cup {Throws}
      /\ MatchAL(p) \in LevelNames \cup {Throws}
  BY SMT DEF MatchPL, MatchFL, MatchAL, LevelNames
<1>4. Level(m) \in LevelNames \cup {Missing, Throws}
  BY <1>1, <1>2, <1>3
<1> QED
  BY <1>4, LevelsNamed

(* The variants of each concept as a set.                                  *)
LEMMA VariantSets ==
    /\ VariantsOfConcept("analysis") = {"Default"}
    /\ VariantsOfConcept("composition") =
           {"Chem", "Aerosol", "AerosolOptical", "ChemicalSource",
            "AerosolOpticalSource", "Default"}
    /\ VariantsOfConcept("dataType") = {"Default"}
    /\ VariantsOfConcept("derived") = {"ShiftOfTails", "Default"}
    /\ VariantsOfConcept("destine") = {"ClimateDT", "ExtremesDT"}
    /\ VariantsOfConcept("ensemble") =
           {"Individual", "PerturbedParameters", "RandomPatterns",
            "ProbabilityLargeEnsemble"}
    /\ VariantsOfConcept("generatingProcess") = {"Default"}
    /\ VariantsOfConcept("longrange") = {"Default"}
    /\ VariantsOfConcept("iteration") = {"Default"}
    /\ VariantsOfConcept("mars") = {"Default"}
    /\ VariantsOfConcept("nil") = {"Default"}
    /\ VariantsOfConcept("origin") = {"Default"}
    /\ VariantsOfConcept("packing") = {"Simple", "Ccsds", "SpectralComplex", "Default"}
    /\ VariantsOfConcept("param") = {"ParamId"}
    /\ VariantsOfConcept("pointInTime") = {"Default"}
    /\ VariantsOfConcept("referenceTime") = {"Standard", "Reforecast"}
    /\ VariantsOfConcept("representation") =
           {"Latlon", "RegularGaussian", "ReducedGaussian",
            "SphericalHarmonics", "GeneralUnstructured", "Healpix", "Orca",
            "Fesom", "Dummy", "Default"}
    /\ VariantsOfConcept("satellite") = {"Default"}
    /\ VariantsOfConcept("shapeOfTheEarth") = {"Dummy", "Default"}
    /\ VariantsOfConcept("statistics") =
           {"Average", "Accumulation", "Maximum", "Minimum",
            "DifferenceFromStart", "RootMeanSquare", "StandardDeviation",
            "Covariance", "DifferenceFromEnd", "Ratio",
            "StandardizedAnomaly", "Summation", "ReturnPeriod", "Median",
            "Severity", "Mode", "IndexProcessing", "Default"}
    /\ VariantsOfConcept("tables") = {"Custom", "Default"}
    /\ VariantsOfConcept("wave") = {"Spectra", "Period", "Default"}
    /\ VariantsOfConcept("modelError") = {"ComponentIndex", "FourierCoefficients"}
    /\ VariantsOfConcept("brightnessTemperature") = {"EnsembleMean", "Default"}
    /\ VariantsOfConcept("strikeProbability") = {"Default"}
    /\ VariantsOfConcept("referencePeriod") = {"Default"}
<1>1. /\ VariantsOfConcept("analysis") = Elements(AnalysisVariants)
      /\ VariantsOfConcept("composition") = Elements(CompositionVariants)
      /\ VariantsOfConcept("dataType") = Elements(DataTypeVariants)
      /\ VariantsOfConcept("derived") = Elements(DerivedVariants)
      /\ VariantsOfConcept("destine") = Elements(DestineVariants)
      /\ VariantsOfConcept("ensemble") = Elements(EnsembleVariants)
      /\ VariantsOfConcept("generatingProcess") = Elements(GeneratingProcessVariants)
      /\ VariantsOfConcept("longrange") = Elements(LongrangeVariants)
      /\ VariantsOfConcept("iteration") = Elements(IterationVariants)
      /\ VariantsOfConcept("mars") = Elements(MarsVariants)
      /\ VariantsOfConcept("nil") = Elements(NilVariants)
      /\ VariantsOfConcept("origin") = Elements(OriginVariants)
      /\ VariantsOfConcept("packing") = Elements(PackingVariants)
      /\ VariantsOfConcept("param") = Elements(ParamVariants)
      /\ VariantsOfConcept("pointInTime") = Elements(PointInTimeVariants)
      /\ VariantsOfConcept("referenceTime") = Elements(ReferenceTimeVariants)
      /\ VariantsOfConcept("representation") = Elements(RepresentationVariants)
      /\ VariantsOfConcept("satellite") = Elements(SatelliteVariants)
      /\ VariantsOfConcept("shapeOfTheEarth") = Elements(ShapeOfTheEarthVariants)
      /\ VariantsOfConcept("statistics") = Elements(StatisticsVariants)
      /\ VariantsOfConcept("tables") = Elements(TablesVariants)
      /\ VariantsOfConcept("wave") = Elements(WaveVariants)
      /\ VariantsOfConcept("modelError") = Elements(ModelErrorVariants)
      /\ VariantsOfConcept("brightnessTemperature") = Elements(BrightnessTemperatureVariants)
      /\ VariantsOfConcept("strikeProbability") = Elements(StrikeProbabilityVariants)
      /\ VariantsOfConcept("referencePeriod") = Elements(ReferencePeriodVariants)
  BY EntriesAre, ListOfConcept DEF Entry
<1>2. /\ VariantsOfConcept("analysis") = {"Default"}
      /\ VariantsOfConcept("composition") =
         {"Chem", "Aerosol", "AerosolOptical", "ChemicalSource",
          "AerosolOpticalSource", "Default"}
      /\ VariantsOfConcept("dataType") = {"Default"}
      /\ VariantsOfConcept("derived") = {"ShiftOfTails", "Default"}
      /\ VariantsOfConcept("destine") = {"ClimateDT", "ExtremesDT"}
      /\ VariantsOfConcept("ensemble") =
         {"Individual", "PerturbedParameters", "RandomPatterns",
          "ProbabilityLargeEnsemble"}
      /\ VariantsOfConcept("generatingProcess") = {"Default"}
  BY <1>1 DEF Elements, AnalysisVariants, CompositionVariants, DataTypeVariants, DerivedVariants,
         DestineVariants, EnsembleVariants, GeneratingProcessVariants
<1>3. /\ VariantsOfConcept("longrange") = {"Default"}
      /\ VariantsOfConcept("iteration") = {"Default"}
      /\ VariantsOfConcept("mars") = {"Default"}
      /\ VariantsOfConcept("nil") = {"Default"}
      /\ VariantsOfConcept("origin") = {"Default"}
      /\ VariantsOfConcept("packing") = {"Simple", "Ccsds", "SpectralComplex", "Default"}
      /\ VariantsOfConcept("param") = {"ParamId"}
  BY <1>1 DEF Elements, LongrangeVariants, IterationVariants, MarsVariants, NilVariants,
         OriginVariants, PackingVariants, ParamVariants
<1>4. /\ VariantsOfConcept("pointInTime") = {"Default"}
      /\ VariantsOfConcept("referenceTime") = {"Standard", "Reforecast"}
      /\ VariantsOfConcept("representation") =
         {"Latlon", "RegularGaussian", "ReducedGaussian",
          "SphericalHarmonics", "GeneralUnstructured", "Healpix", "Orca",
          "Fesom", "Dummy", "Default"}
      /\ VariantsOfConcept("satellite") = {"Default"}
      /\ VariantsOfConcept("shapeOfTheEarth") = {"Dummy", "Default"}
      /\ VariantsOfConcept("statistics") =
         {"Average", "Accumulation", "Maximum", "Minimum",
          "DifferenceFromStart", "RootMeanSquare", "StandardDeviation",
          "Covariance", "DifferenceFromEnd", "Ratio",
          "StandardizedAnomaly", "Summation", "ReturnPeriod", "Median",
          "Severity", "Mode", "IndexProcessing", "Default"}
      /\ VariantsOfConcept("tables") = {"Custom", "Default"}
  BY <1>1 DEF Elements, PointInTimeVariants, ReferenceTimeVariants, RepresentationVariants,
         SatelliteVariants, ShapeOfTheEarthVariants, StatisticsVariants, TablesVariants
<1>5. /\ VariantsOfConcept("wave") = {"Spectra", "Period", "Default"}
      /\ VariantsOfConcept("modelError") = {"ComponentIndex", "FourierCoefficients"}
      /\ VariantsOfConcept("brightnessTemperature") = {"EnsembleMean", "Default"}
      /\ VariantsOfConcept("strikeProbability") = {"Default"}
      /\ VariantsOfConcept("referencePeriod") = {"Default"}
  BY <1>1 DEF Elements, WaveVariants, ModelErrorVariants, BrightnessTemperatureVariants,
         StrikeProbabilityVariants, ReferencePeriodVariants
<1> QED
  BY <1>2, <1>3, <1>4, <1>5

(* What a matcher returns is a variant of its concept.                     *)
LEMMA MatchedIsRegistered ==
    ASSUME NEW m, NEW c \in Concepts, MatchersOk(Variants(m)), Variants(m)[c] # Missing
    PROVE  Variants(m)[c] \in VariantsOfConcept(c)
<1> DEFINE v == Variants(m)[c]
<1>1. CanBe(c, v)
  BY MatchersReturnVariants
<1>2. RequiredKeys \subseteq DOMAIN m /\ Variants(m) = ActiveVariants(m)
  <2>1. "nil" \in Concepts
    BY DEF Concepts, ConceptIds, NConcepts, EntryName, AllConcepts, Entry
  <2> QED
    BY <2>1 DEF Variants, MatchersOk
<1>3. v \notin {Missing, Throws} /\ v = ActiveVariants(m)[c]
  BY <1>2 DEF MatchersOk
<1> HIDE DEF v
<1>4. CASE c \notin AnyVariant
  <2>1. c \in DOMAIN Variant /\ v \in Variant[c]
    BY <1>1, <1>4 DEF CanBe
  <2>2. \A d \in DOMAIN Variant : Variant[d] \subseteq VariantsOfConcept(d)
    BY VariantSets DEF Variant
  <2> QED
    BY <2>1, <2>2 DEF v
<1>5. CASE c = "level"
  <2>1. v = Level(m)
    BY <1>3, <1>5 DEF ActiveVariants
  <2> QED
    BY <1>3, <1>5, <2>1, LevelMatched DEF v
<1>6. CASE c = "statistics"
  <2>1. v = OneOf(StatisticsParams, m.param, Missing)
    BY <1>3, <1>6 DEF ActiveVariants, Statistics
  <2>2. v \in DOMAIN StatisticsParams
    BY <1>3, <2>1, Tabled
  <2>3. DOMAIN StatisticsParams = {"Accumulation", "Average", "Maximum", "Minimum", "Mode",
                                   "Severity", "StandardDeviation", "IndexProcessing"}
    BY SMT DEF StatisticsParams
  <2> QED
    BY <1>6, <2>2, <2>3, VariantSets DEF v
<1>7. CASE c = "pointInTime"
  <2>1. v = PointInTime(m.param)
    BY <1>3, <1>7 DEF ActiveVariants
  <2>2. PointInTime(m.param) \in {"Default", Missing}
    BY DEF PointInTime
  <2> QED
    BY <1>3, <1>7, <2>1, <2>2, VariantSets DEF v
<1>8. CASE c \in {"satellite", "tables"}
  BY <1>3, <1>8, VariantSets DEF ActiveVariants, Satellite, When, Always, v
<1>9. CASE c = "derived"
  <2>1. v = Derived(m)
    BY <1>3, <1>9 DEF ActiveVariants
  <2>2. Derived(m) \in {"Default", "ShiftOfTails", Missing}
    BY Zenon DEF Derived
  <2> QED
    BY <1>3, <1>9, <2>1, <2>2, VariantSets DEF v
<1>10. CASE c = "modelError"
  BY <1>3, <1>10, VariantSets DEF ActiveVariants, ModelError, When, v
<1> QED
  BY <1>4, <1>5, <1>6, <1>7, <1>8, <1>9, <1>10 DEF AnyVariant, v

LEMMA NamesAreConcepts == ConceptNames \subseteq Concepts
<1>1. \A i \in 1 .. 27 : AllConcepts[i].concept \in Concepts
  BY ListOfConcept
<1>2. \A c \in ConceptNames : \E i \in 1 .. 27 : AllConcepts[i].concept = c
  BY EntriesAre DEF Entry, ConceptNames
<1> QED
  BY <1>1, <1>2

(* What a recipe takes are concepts and variants of the registry.          *)
LEMMA RecipesAreRegistered ==
    ASSUME NEW s \in Sections, NEW q \in SectionRecipes(s)
    PROVE  /\ Dimensions(q) \subseteq Concepts
           /\ q.select \cap DOMAIN q.only = {}
           /\ \A c \in DOMAIN q.only : q.only[c] \subseteq VariantsOfConcept(c)
<1>0. ConceptNames \subseteq Concepts
  BY NamesAreConcepts
<1>1. CASE s = 0
  BY <1>0, <1>1, RecipesOfSections, VariantSets DEF Section0Recipes, Recipe, NoVariants,
       Dimensions, ConceptNames
<1>2. CASE s = 1
  BY <1>0, <1>2, RecipesOfSections, VariantSets DEF Section1Recipes, Recipe, NoVariants,
       Dimensions, ConceptNames
<1>3. CASE s = 2
  BY <1>0, <1>3, RecipesOfSections, VariantSets DEF Section2Recipes, Recipe, RecipeOf,
       NoVariants, Dimensions, ConceptNames
<1>4. CASE s = 3
  BY <1>0, <1>4, RecipesOfSections, VariantSets DEF Section3Recipes, OnGrid, Recipe, RecipeOf,
       NoVariants, Dimensions, ConceptNames
<1>5. CASE s = 4
  BY <1>0, <1>5, RecipesOfSections, VariantSets DEF Section4Recipes, BasicRecipes,
       SpeciesRecipes, ReforecastRecipes, SourceRecipes,
       WaveRecipes, ProbabilityRecipes, RandomRecipes, Recipe, RecipeOf, Instant,
       OverTime, Product, OfSpecies, OfSpeciesMember, WaveOf, WaveMember, Individual, Probability,
       Reforecast, NoVariants, Dimensions, ConceptNames
<1>6. CASE s = 5
  BY <1>0, <1>6, RecipesOfSections, VariantSets DEF Section5Recipes, Recipe, RecipeOf,
       NoVariants, Dimensions, ConceptNames
<1> QED
  BY <1>1, <1>2, <1>3, <1>4, <1>5, <1>6 DEF Sections

----------------------------------------------------------------------------
(* A key of numbers and a key of concepts say the same.                    *)

Registered(v) == \A c \in Active(v) : v[c] \in VariantsOfConcept(c)

Number(v, c) == GlobalIndex(c, v[c])

LEMMA NumbersDiffer ==
    ASSUME NEW c \in Concepts, NEW d \in Concepts,
           NEW v \in VariantsOfConcept(c), NEW w \in VariantsOfConcept(d),
           GlobalIndex(c, v) = GlobalIndex(d, w)
    PROVE  c = d /\ v = w
<1>1. /\ ConceptNameArr[GlobalIndex(c, v)] = c /\ VariantNameArr[GlobalIndex(c, v)] = v
      /\ ConceptNameArr[GlobalIndex(d, w)] = d /\ VariantNameArr[GlobalIndex(d, w)] = w
  BY NumberOfVariant, Zenon
<1> QED
  BY <1>1, Zenon

(* The ids of a Select are the numbers of the variants it takes.           *)
LEMMA InDimension ==
    ASSUME NEW s \in Sections, NEW q \in SectionRecipes(s), NEW d \in Dimensions(q),
           NEW c \in Concepts, NEW v \in VariantsOfConcept(c)
    PROVE  GlobalIndex(c, v) \in Dimension(q, d) <=> c = d /\ Takes(q, c, v)
<1>1. d \in Concepts /\ \A e \in DOMAIN q.only : q.only[e] \subseteq VariantsOfConcept(e)
  BY RecipesAreRegistered
<1>2. CASE d \in q.select
  <2>1. Dimension(q, d) = {ConceptOffsets[ConceptId(d)] + i : i \in 0 .. Len(VariantList(d)) - 1}
    BY <1>2 DEF Dimension, MakeIdArrayFromConcept
  <2>2. ASSUME GlobalIndex(c, v) \in Dimension(q, d) PROVE c = d
    <3>1. PICK i \in 0 .. Len(VariantList(d)) - 1 :
              GlobalIndex(c, v) = ConceptOffsets[ConceptId(d)] + i
      BY <2>1, <2>2
    <3>2. ConceptNameArr[ConceptOffsets[ConceptId(d)] + i] = d
      BY <1>1, NumbersOfConcept
    <3>3. ConceptNameArr[GlobalIndex(c, v)] = c
      BY NumberOfVariant, Zenon
    <3> QED
      BY <3>1, <3>2, <3>3, Zenon
  <2>3. ASSUME c = d PROVE GlobalIndex(c, v) \in Dimension(q, d)
    <3>1. /\ LocalIndex(c, v) \in 0 .. Len(VariantList(c)) - 1
          /\ GlobalIndex(c, v) = ConceptOffsets[ConceptId(c)] + LocalIndex(c, v)
      BY NumberOfVariant, Zenon
    <3> QED
      BY <2>1, <2>3, <3>1, Zenon
  <2> QED
    BY <1>2, <2>2, <2>3 DEF Takes
<1>3. CASE d \notin q.select
  <2>1. d \in DOMAIN q.only
    BY <1>3 DEF Dimensions
  <2>2. Dimension(q, d) = {GlobalIndex(d, w) : w \in q.only[d]}
    BY <1>3 DEF Dimension, MakeIdArrayFromVariants
  <2>3. ASSUME GlobalIndex(c, v) \in Dimension(q, d) PROVE c = d /\ v \in q.only[d]
    <3>1. PICK w \in q.only[d] : GlobalIndex(c, v) = GlobalIndex(d, w)
      BY <2>2, <2>3
    <3>2. w \in VariantsOfConcept(d)
      BY <1>1, <2>1
    <3> QED
      BY <1>1, <3>1, <3>2, NumbersDiffer
  <2> QED
    BY <1>3, <2>1, <2>2, <2>3 DEF Takes
<1> QED
  BY <1>2, <1>3

LEMMA InIds ==
    ASSUME NEW s \in Sections, NEW q \in SectionRecipes(s),
           NEW c \in Concepts, NEW v \in VariantsOfConcept(c)
    PROVE  GlobalIndex(c, v) \in IdsOf(q) <=> Takes(q, c, v)
<1>1. Takes(q, c, v) => c \in Dimensions(q)
  BY DEF Takes, Dimensions
<1>2. GlobalIndex(c, v) \in IdsOf(q)
          <=> \E d \in Dimensions(q) : GlobalIndex(c, v) \in Dimension(q, d)
  BY DEF IdsOf
<1> QED
  BY <1>1, <1>2, InDimension

LEMMA InMask ==
    ASSUME NEW s \in Sections, NEW c \in Concepts, NEW v \in VariantsOfConcept(c)
    PROVE  GlobalIndex(c, v) \in Mask[s] <=> CompressionMask(s, c, v)
<1>1. GlobalIndex(c, v) \in Mask[s]
          <=> \E q \in SectionRecipes(s) : GlobalIndex(c, v) \in IdsOf(q)
  BY DEF Mask
<1> QED
  BY <1>1, InIds DEF CompressionMask

(* The compressed key of a section.                                        *)
LEMMA CompressedKey ==
    ASSUME NEW s \in Sections, NEW v, Registered(v)
    PROVE  \A i : i \in CompressKey(s, MakeKey(v)) <=> \E c \in Key(s, v) : i = Number(v, c)
<1>1. ASSUME NEW c \in Active(v)
      PROVE  /\ ConceptOffsets[ConceptId(c)] + LocalIndex(c, v[c]) = Number(v, c)
             /\ Number(v, c) \in Mask[s] <=> c \in Key(s, v)
  <2>1. c \in Concepts /\ v[c] \in VariantsOfConcept(c)
    BY DEF Registered, Active
  <2>2. ConceptOffsets[ConceptId(c)] + LocalIndex(c, v[c]) = Number(v, c)
    BY <2>1, NumberOfVariant, Zenon DEF Number
  <2>3. Number(v, c) \in Mask[s] <=> CompressionMask(s, c, v[c])
    BY <2>1, InMask DEF Number
  <2> QED
    BY <2>2, <2>3 DEF Key
<1>2. \A c : c \in Key(s, v) => c \in Active(v)
  BY DEF Key
<1>3. \A i : i \in MakeKey(v) <=> \E c \in Active(v) : i = Number(v, c)
  BY <1>1, Zenon DEF MakeKey
<1> QED
  BY <1>1, <1>2, <1>3, Zenon DEF CompressKey

(* What is left of a key in a Select.                                      *)
LEMMA InSelect ==
    ASSUME NEW s \in Sections, NEW v, Registered(v), NEW q \in SectionRecipes(s),
           NEW d \in Dimensions(q)
    PROVE  CompressKey(s, MakeKey(v)) \cap Dimension(q, d) =
               IF d \in Key(s, v) /\ Takes(q, d, v[d]) THEN {Number(v, d)} ELSE {}
<1> DEFINE key == CompressKey(s, MakeKey(v))
<1>1. \A i : i \in key <=> \E c \in Key(s, v) : i = Number(v, c)
  BY CompressedKey
<1>2. ASSUME NEW c \in Key(s, v)
      PROVE  Number(v, c) \in Dimension(q, d) <=> c = d /\ Takes(q, c, v[c])
  <2>1. c \in Concepts /\ v[c] \in VariantsOfConcept(c)
    BY DEF Registered, Active, Key
  <2> QED
    BY <2>1, InDimension DEF Number
<1> HIDE DEF key
<1>3. \A i : i \in key \cap Dimension(q, d)
                 <=> i \in (IF d \in Key(s, v) /\ Takes(q, d, v[d]) THEN {Number(v, d)} ELSE {})
  BY <1>1, <1>2
<1>4. key \cap Dimension(q, d) =
          IF d \in Key(s, v) /\ Takes(q, d, v[d]) THEN {Number(v, d)} ELSE {}
  BY <1>3
<1> QED
  BY <1>4 DEF key

(* A recipe has an entry with the key just when it matches.                *)
LEMMA EntryIsMatch ==
    ASSUME NEW s \in Sections, NEW v, Registered(v), NEW q \in SectionRecipes(s)
    PROVE  HasEntry(q, CompressKey(s, MakeKey(v))) <=> Matches(q, Key(s, v), v)
<1> DEFINE key == CompressKey(s, MakeKey(v))
<1>1. key \subseteq IdsOf(q) <=> \A c \in Key(s, v) : Takes(q, c, v[c])
  <2>1. ASSUME NEW c \in Key(s, v)
        PROVE  Number(v, c) \in IdsOf(q) <=> Takes(q, c, v[c])
    <3>1. c \in Concepts /\ v[c] \in VariantsOfConcept(c)
      BY DEF Registered, Active, Key
    <3> QED
      BY <3>1, InIds DEF Number
  <2>2. \A i : i \in key <=> \E c \in Key(s, v) : i = Number(v, c)
    BY CompressedKey
  <2> HIDE DEF key
  <2> QED
    BY <2>1, <2>2
<1>2. ASSUME NEW d \in Dimensions(q)
      PROVE  Cardinality(key \cap Dimension(q, d)) = 1
                 <=> d \in Key(s, v) /\ Takes(q, d, v[d])
  <2>1. key \cap Dimension(q, d) =
            IF d \in Key(s, v) /\ Takes(q, d, v[d]) THEN {Number(v, d)} ELSE {}
    BY InSelect
  <2>2. Cardinality({Number(v, d)}) = 1 /\ Cardinality({}) = 0
    BY FS_Singleton, FS_EmptySet
  <2> HIDE DEF key
  <2> QED
    BY <2>1, <2>2
<1> HIDE DEF key
<1>3. \A c \in Key(s, v) : Takes(q, c, v[c]) => c \in Dimensions(q)
  BY DEF Takes, Dimensions
<1>4. HasEntry(q, key) <=> Matches(q, Key(s, v), v)
  BY <1>1, <1>2, <1>3 DEF HasEntry, Matches, Dimensions
<1> QED
  BY <1>4 DEF key

(* The layout an entry makes of the key.                                   *)
LEMMA LayoutOfEntry ==
    ASSUME NEW s \in Sections, NEW v, Registered(v), NEW q
    PROVE  SectionLayout(q, CompressKey(s, MakeKey(v))) =
               [template |-> q.template, variants |-> [c \in Key(s, v) |-> v[c]]]
<1> DEFINE key == CompressKey(s, MakeKey(v))
           names == {ConceptNameArr[i] : i \in key}
<1>1. \A i : i \in key <=> \E c \in Key(s, v) : i = Number(v, c)
  BY CompressedKey
<1>2. ASSUME NEW c \in Key(s, v)
      PROVE  ConceptNameArr[Number(v, c)] = c /\ VariantNameArr[Number(v, c)] = v[c]
  <2>1. c \in Concepts /\ v[c] \in VariantsOfConcept(c)
    BY DEF Registered, Active, Key
  <2> QED
    BY <2>1, NumberOfVariant, Zenon DEF Number
<1> HIDE DEF key
<1>3. \A c : c \in names <=> c \in Key(s, v)
  BY <1>1, <1>2
<1>4. names = Key(s, v)
  BY <1>3
<1>5. ASSUME NEW c \in Key(s, v)
      PROVE  VariantNameArr[CHOOSE i \in key : ConceptNameArr[i] = c] = v[c]
  <2>1. Number(v, c) \in key /\ ConceptNameArr[Number(v, c)] = c
    BY <1>1, <1>2
  <2>2. \A i \in key : ConceptNameArr[i] = c => i = Number(v, c)
    BY <1>1, <1>2
  <2>3. (CHOOSE i \in key : ConceptNameArr[i] = c) = Number(v, c)
    BY <2>1, <2>2
  <2> QED
    BY <1>2, <2>3
<1>6. [c \in names |-> VariantNameArr[CHOOSE i \in key : ConceptNameArr[i] = c]]
          = [c \in Key(s, v) |-> v[c]]
  <2> HIDE DEF names
  <2> QED
    BY <1>4, <1>5
<1>7. SectionLayout(q, key) =
          [template |-> q.template,
           variants |-> [c \in names |-> VariantNameArr[CHOOSE i \in key : ConceptNameArr[i] = c]]]
  BY DEF SectionLayout
<1> HIDE DEF names
<1> QED
  BY <1>6, <1>7, Zenon DEF key

(* The search by numbers finds the layout that the recipes give, and no    *)
(* other.                                                                  *)
LEMMA SearchFindsLayout ==
    ASSUME NEW m, LayoutFor(Variants(m)) # <<>>, NEW s \in Sections
    PROVE  Search(s, Variants(m)) = {LayoutFor(Variants(m))[s]}
<1> DEFINE v == Variants(m)
           key == CompressKey(s, MakeKey(v))
<1>1. LayoutOk(v) /\ LayoutFor(v) = Layout(v)
  BY DEF LayoutFor
<1>2. Registered(v)
  BY <1>1, MatchedIsRegistered DEF Registered, Active, LayoutOk
<1>3. PICK q \in Matching(s, v) : TRUE
  BY <1>1 DEF LayoutOk
<1> HIDE DEF v
<1>4. \A p : p \in Matching(s, v) <=> p = q
  BY <1>3, OneRecipe
<1>5. \A p : p \in {r \in SectionRecipes(s) : HasEntry(r, key)} <=> p \in Matching(s, v)
  BY <1>2, EntryIsMatch DEF Matching
<1>6. Layout(v)[s] = [template |-> q.template, variants |-> [c \in Key(s, v) |-> v[c]]]
  <2>1. (CHOOSE r \in Matching(s, v) : TRUE) = q
    BY <1>4
  <2> QED
    BY <2>1 DEF Layout
<1>7. SectionLayout(q, key) = Layout(v)[s]
  BY <1>2, <1>6, LayoutOfEntry
<1>8. Search(s, v) = {SectionLayout(r, key) : r \in {p \in SectionRecipes(s) : HasEntry(p, key)}}
  BY DEF Search
<1> HIDE DEF key
<1>9. \A x : x \in Search(s, v) <=> x \in {Layout(v)[s]}
  BY <1>4, <1>5, <1>7, <1>8
<1>10. Search(s, v) = {Layout(v)[s]}
  BY <1>9
<1> QED
  BY <1>1, <1>10 DEF v

(* Whatever the requests, the layout of a call is what the search by the   *)
(* numbers of the registry finds in each section, and there is nothing     *)
(* else it could find (SelectorFindsTheLayout; SectionTemplateSelector.h). *)
THEOREM SearchIsRight == Spec => []SelectorFindsTheLayout
<1>1. ASSUME IInv, Running, job.call # "finalise", NEW s \in Sections
      PROVE  Selection[job.request][s] = {job.layout[s]}
  <2> DEFINE r == job.request
  <2>1. /\ r \in Requests /\ VariantsOf[r] = Variants(r.mars)
        /\ LayoutFor(VariantsOf[r]) # <<>> /\ job.layout = LayoutFor(VariantsOf[r])
    BY <1>1 DEF IInv, JobType, RunHeld, LayoutOf, VariantsOf, Running
  <2>2. Search(s, VariantsOf[r]) = {job.layout[s]}
    BY <2>1, SearchFindsLayout
  <2> QED
    BY <2>1, <2>2 DEF Selection
<1>2. IInv => SelectorFindsTheLayout
  BY <1>1 DEF SelectorFindsTheLayout
<1> QED
  BY <1>2, InvariantHolds, PTL
=============================================================================
