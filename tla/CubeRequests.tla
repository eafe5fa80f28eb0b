---------------------------- MODULE CubeRequests ----------------------------
(***************************************************************************)
(* How a HyperCube turns the fields it still lacks (or already has) back   *)
(* into MARS requests: the set of indices is cut along an axis, each slice *)
(* in turn, and the pieces are merged on the way back (HyperCube.cc,       *)
(* request and mergeLast).  A request is the set of coordinates it has on  *)
(* each axis; how many fields it stands for is MarsRequest::count, which   *)
(* knows that on model levels some parameters exist on level 1 only.       *)
(***************************************************************************)
EXTENDS HyperCube, Sequences, SequencesExt

CONSTANTS Shape,        \* Shape[a]: number of values on axis a
          levelist,     \* the axis of that name, 0 if the request has none
          param,
          ModelLevels,  \* "ml" is among the values of levtype
          LevelOne,     \* the coordinate of level 1, -1 if it is not there
          SingleLevel   \* coordinates of the parameters that have only that level

Axes == 1 .. Len(Shape)

Stride[a \in 1 .. Len(Shape)] ==
    IF a = Len(Shape) THEN 1 ELSE Shape[a + 1] * Stride[a + 1]

ASSUME ShapeAssumption ==
    /\ Size = Shape[1] * Stride[1]
    /\ {levelist, param} \subseteq Axes \cup {0}

Coord(i, a) == (i \div Stride[a]) % Shape[a]

RequestOf(i) == [a \in Axes |-> {Coord(i, a)}]

Fields(r) == {i \in Cells : \A a \in Axes : Coord(i, a) \in r[a]}

Merge(r, s) == [a \in Axes |-> r[a] \cup s[a]]

CountOn(r, axes) == FoldSet(LAMBDA a, n : Cardinality(r[a]) * n, 1, axes)

(* MarsRequest::count *)
Count(r) ==
    LET singles == IF param = 0 THEN 0 ELSE Cardinality(r[param] \cap SingleLevel)
        params  == IF param = 0 THEN 0 ELSE Cardinality(r[param]) - singles
        levels  == IF levelist = 0 THEN 1 ELSE Cardinality(r[levelist])
        one     == levelist # 0 /\ LevelOne \in r[levelist]
        rest    == CountOn(r, Axes \ {levelist, param})
    IN  IF params + singles = 0 THEN rest
        ELSE IF ModelLevels THEN rest * (levels * params + IF one THEN singles ELSE 0)
        ELSE rest * (levels * (params + singles))

(* mutant: sizes are compared with >=, so requests far apart are merged *)
RelationLoose(base, additional) ==
    LET box == Count(Merge(base.request, additional.request)) IN
    IF box = base.size THEN "embedded"
    ELSE IF base.size + additional.size <= box THEN "adjacent" ELSE "disjoint"

(* getRelation *)
Relation(base, additional) ==
    LET box == Count(Merge(base.request, additional.request)) IN
    IF box = base.size THEN "embedded"
    ELSE IF base.size + additional.size = box THEN "adjacent" ELSE "disjoint"

(* mergeLast, as long as it merges; the last request goes to the first of the
   largest it is adjacent to *)
RECURSIVE MergeLast(_)
MergeLast(rs) ==
    LET last == rs[Len(rs)]
        rest == Front(rs)
        At(relation) == {j \in DOMAIN rest : Relation(rest[j], last) = relation}
        largest == CHOOSE j \in At("adjacent") :
                       \A k \in At("adjacent") :
                           \/ rest[k].size < rest[j].size
                           \/ rest[k].size = rest[j].size /\ j <= k
    IN  IF At("embedded") # {} THEN rest
        ELSE IF At("adjacent") = {} THEN rs
        ELSE MergeLast([rest EXCEPT ![largest] =
                           [request |-> Merge(@.request, last.request),
                            size    |-> @.size + last.size]])

Slice(idxs, a, c) == {i \in idxs : Coord(i, a) = c}
Slices(idxs, a)   == {Coord(i, a) : i \in idxs}

(* the axis that cuts the set into the fewest slices, but more than one *)
BestAxis(idxs) ==
    LET n(a) == Cardinality(Slices(idxs, a))
        cuts == {a \in Axes : n(a) > 1}
    IN  CHOOSE a \in cuts : \A b \in cuts : n(a) < n(b) \/ (n(a) = n(b) /\ a <= b)

(* HyperCube::request *)
RECURSIVE Request(_)
Request(idxs) ==
    IF Cardinality(idxs) = 1
    THEN << [request |-> RequestOf(CHOOSE i \in idxs : TRUE), size |-> 1] >>
    ELSE LET a == BestAxis(idxs)
         IN  FoldLeft(LAMBDA rs, c : MergeLast(rs \o Request(Slice(idxs, a, c))),
                      << >>, SetToSortSeq(Slices(idxs, a), <))

(* HyperCube::aggregatedRequests: of the vacant fields, or of the others *)
AggregatedRequests(idxs) == IF idxs = {} THEN << >> ELSE Request(idxs)

------------------------------------------------------------------------------
Both == {set, Cells \ set}

(* The requests for what is left, and for what was found, have exactly these
   fields, none of them twice: nothing is retrieved again and nothing that
   was asked for is forgotten, however the greedy merging went. *)
ExactlyCovered ==
    \A idxs \in Both :
        LET rs == AggregatedRequests(idxs) IN
        /\ UNION {Fields(rs[k].request) : k \in DOMAIN rs} = idxs
        /\ \A j, k \in DOMAIN rs :
               j # k => Fields(rs[j].request) \cap Fields(rs[k].request) = {}
        /\ \A k \in DOMAIN rs : rs[k].size = Cardinality(Fields(rs[k].request))

(* Fields that exist: a single-level parameter has level 1 only. *)
Exists(i) == ~(ModelLevels /\ Coord(i, param) \in SingleLevel /\ Coord(i, levelist) # LevelOne)

(* "... Mars requests that cover them": a field that exists and is vacant is requested. *)
ExistingCovered ==
    LET rs == AggregatedRequests(set) IN
    \A i \in set : Exists(i) => \E k \in DOMAIN rs : i \in Fields(rs[k].request)
=============================================================================
