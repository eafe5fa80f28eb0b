------------------------------ MODULE GribStages ------------------------------
(***************************************************************************)
(* The encoder of mars2grib as its callers drive it: encode() runs the     *)
(* section initializers and the four stages of a request; prepare() runs   *)
(* all but the last and keeps the message as a cache entry; and            *)
(* finaliseEncoding() runs the last one, Runtime, for another request on a *)
(* copy of it (CoreOperations.h, frontend/header/SpecializedEncoder.h).    *)
(*                                                                         *)
(* One row of the encoding plan is a step.  Any row may throw, and the     *)
(* call ends there.                                                        *)
(***************************************************************************)
EXTENDS GribMessage

CONSTANTS
    Requests,           \* pairs [mars, misc] of dictionaries, after normalization
    Prepared            \* the bound: those a caller prepares a cache entry for

ASSUME PreparedAssumption == Prepared \subseteq Requests

VARIABLES
    cache,              \* <<>> or <<[of, layout, sample]>>: the entry of prepare()
    job                 \* the current, or else the last, call

vars == <<cache, job>>

Calls == {"encode", "prepare", "finalise"}

\* What the caller puts in the message besides the dictionaries.
FieldValues == "field"

Idle == [call |-> "none", state |-> "returned", request |-> <<>>, layout |-> <<>>,
         row |-> 0, out |-> EmptyMessage]
----------------------------------------------------------------------------
(* What each request asks for, and its layout.                             *)

VariantsOf == [r \in Requests |-> Variants(r.mars)]
LayoutOf   == [r \in Requests |-> LayoutFor(VariantsOf[r])]

\* The message that encode() makes of each, for the properties.
EncodedRequests == [r \in Requests |-> Encode(LayoutOf[r], r, FieldValues)]

\* And the sample that prepare() makes.
PreparedSample == [r \in Requests |-> AfterRows(LayoutOf[r], r)[Override + 1]]

LastRow(call) == IF call = "prepare" THEN Override + 1 ELSE Runtime + 1
----------------------------------------------------------------------------
Init == cache = <<>> /\ job = Idle

Running == job.state = "running"

Start(call, r, layout, row, out) ==
    job' = [call |-> call, state |-> "running", request |-> r, layout |-> layout,
            row |-> row, out |-> out]

\* The layout throws before any message is made.
NoLayout(call, r) ==
    /\ LayoutOf[r] = <<>>
    /\ job' = [Idle EXCEPT !.call = call, !.state = "threw", !.request = r]

EncodeOrPrepare(call, r) ==
    /\ ~Running
    /\ \/ LayoutOf[r] # <<>> /\ Start(call, r, LayoutOf[r], 0, EmptyMessage)
       \/ NoLayout(call, r)
    /\ UNCHANGED cache

FinaliseEncoding(r) ==
    /\ ~Running
    /\ cache # <<>>
    /\ Start("finalise", r, cache[1].layout, Runtime + 1, cache[1].sample)
    /\ UNCHANGED cache

RunRow ==
    /\ Running /\ job.row <= LastRow(job.call)
    /\ LET after == AfterRow(job.layout, job.row, job.request, Found(job.out))
       IN  IF after = Failed
           THEN job' = [job EXCEPT !.state = "threw"]
           ELSE job' = [job EXCEPT !.row = @ + 1, !.out = after[1]]
    /\ UNCHANGED cache

ReturnMessage ==
    /\ Running /\ job.row > LastRow(job.call)
    /\ job.call \in {"encode", "finalise"}
    /\ job' = [job EXCEPT !.state = "returned",
                          !.out = EncodeValues(job.request.misc, FieldValues) ++ @]
    /\ UNCHANGED cache

\* The new entry takes the place of the one the caller held.
ReturnCache ==
    /\ Running /\ job.row > LastRow(job.call)
    /\ job.call = "prepare"
    /\ cache' = <<[of |-> job.request, layout |-> job.layout, sample |-> job.out]>>
    /\ job' = Idle

Next ==
    \/ \E r \in Requests : EncodeOrPrepare("encode", r) \/ FinaliseEncoding(r)
    \/ \E r \in Prepared : EncodeOrPrepare("prepare", r)
    \/ RunRow
    \/ ReturnMessage
    \/ ReturnCache

Spec == Init /\ [][Next]_vars
----------------------------------------------------------------------------
(* A call in progress has a layout; an entry holds what prepare left.      *)
TypeOK ==
    /\ cache = <<>> \/ /\ cache[1].of \in Requests
                       /\ DOMAIN cache[1].layout = Sections
    /\ job.call \in Calls \cup {"none"}
    /\ job.state \in {"running", "returned", "threw"}
    /\ job.row \in 0 .. Runtime + 2
    /\ job.call # "none" => job.request \in Requests
    /\ Running => DOMAIN job.layout = Sections

Returned(call) == job.call = call /\ job.state = "returned"

(* Every section has one recipe for what a request asks and no other:      *)
(* which of two equal keys the selector's sort would put first is open     *)
(* (SectionTemplateSelector.h:165).                                        *)
LayoutIsDetermined ==
    Running /\ job.call # "finalise" =>
        \A s \in Sections : Cardinality(Matching(s, VariantsOf[job.request])) = 1

(* The layout that is found by the numbers of the registry is the one that  *)
(* the recipes give by the concepts (GribLayout), for each section of each  *)
(* request: no variant is mistaken for that of another concept, and no mask *)
(* hides one that a recipe takes.                                           *)
Selection == [r \in Requests |-> [s \in Sections |-> Search(s, VariantsOf[r])]]

SelectorFindsTheLayout ==
    Running /\ job.call # "finalise" =>
        \A s \in Sections : Selection[job.request][s] = {job.layout[s]}

(* The mask of a section hides the variants none of its recipes mentions,  *)
(* and a cell of the plan without a callback is passed over: a concept that*)
(* every section hides, or that is applicable in another section than the  *)
(* one whose recipe takes it, would be left out of the message without a   *)
(* word.  Every concept that is active has a section that takes it and a   *)
(* stage at which it is applicable there; but for those that only choose   *)
(* the template, and the indices, which no callback writes the time of.    *)
Markers == {<<"nil", "Default">>, <<"referencePeriod", "Default">>,
            <<"strikeProbability", "Default">>, <<"statistics", "IndexProcessing">>}

NothingDropped ==
    Running /\ job.call # "finalise" =>
        LET variants == VariantsOf[job.request]
        IN  \A c \in Active(variants) :
                \E s \in Sections :
                    /\ c \in DOMAIN job.layout[s].variants
                    /\ \/ <<c, variants[c]>> \in Markers
                       \/ \E stage \in Stages : Applicable(c, variants[c], stage, s)

(* A message of encode() is valid at the time that was asked for, and the  *)
(* end of its interval, which is written apart, is that time too.          *)
ValidAsRequested ==
    Returned("encode") /\ Has(job.out, "forecastTime") =>
        /\ MessageTime(job.out) = RequestedTime(job.request.mars)
        /\ Has(job.out, "endOfOverallTimeInterval") =>
               job.out.endOfOverallTimeInterval = RequestedTime(job.request.mars)

(* What differs from field to field of one cache entry: the times, the     *)
(* level, and the direction and the frequency of a wave spectrum.          *)
RuntimeKeys == {"date", "time", "hdate", "htime", "fcyear", "fcmonth", "step", "levelist",
                "direction", "frequency"}

OfMonths(m) == Has(m, "stattype") /\ \E i \in 1 .. Len(m.stattype) : m.stattype[i][1] = "mo"

SameStructure(a, b) ==
    /\ a.misc = b.misc
    /\ DOMAIN a.mars = DOMAIN b.mars
    /\ \A k \in DOMAIN a.mars \ RuntimeKeys : a.mars[k] = b.mars[k]
    /\ LayoutOf[a] = LayoutOf[b]
    /\ ~OfMonths(a.mars)

(* finaliseEncoding() on the entry of a request of the same structure      *)
(* gives the message that encode() would have given, and throws when       *)
(* encode() would have thrown (Mars2Grib.h: the cache supplies the         *)
(* pre-specialized, reusable encoding state).  Windows of months are left  *)
(* out: their length is written by prepare().                              *)
FinaliseIsEncode ==
    job.call = "finalise" /\ ~Running /\ SameStructure(cache[1].of, job.request) =>
        EncodedRequests[job.request] = If(job.state = "returned", job.out)

(* Two requests never become the same message: no key that tells them      *)
(* apart is lost on the way.                                               *)
Distinguishable ==
    Returned("encode") =>
        \A r \in Requests \ {job.request} : EncodedRequests[r] # Found(job.out)
=============================================================================
