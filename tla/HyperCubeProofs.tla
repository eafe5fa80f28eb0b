--------------------------- MODULE HyperCubeProofs ---------------------------
(***************************************************************************)
(* What is proved about a cube of any size, with any payloads and any      *)
(* deduplicator that is a strict order.                                    *)
(***************************************************************************)
EXTENDS HyperCube, FiniteSetTheorems, TLAPS

LEMMA CellsFinite == IsFiniteSet(Cells) /\ Cardinality(Cells) = Size
<1>1. Size - 1 \in Int /\ Size \in Nat
  BY CubeAssumption
<1> QED
  BY <1>1, FS_Interval DEF Cells

(* A part of the cube is finite, and loses one field at a time. *)
LEMMA PartOfCube ==
    ASSUME NEW S \in SUBSET Cells
    PROVE  /\ IsFiniteSet(S) /\ Cardinality(S) \in 0 .. Size
           /\ \A i \in S : Cardinality(S \ {i}) = Cardinality(S) - 1
<1>1. IsFiniteSet(S) /\ Cardinality(S) <= Size
  BY CellsFinite, FS_Subset
<1>2. Cardinality(S) \in Nat
  BY <1>1, FS_CardinalityType
<1>3. \A i \in S : Cardinality(S \ {i}) = Cardinality(S) - 1
  BY <1>1, FS_RemoveElement
<1> QED
  BY <1>1, <1>2, <1>3, CubeAssumption

Kept == TypeOK /\ CountIsVacant /\ PayloadNotVacant /\ BestPayloadKept

(* A cell keeps a payload exactly if it was given some. *)
GivenKept == \A i \in Cells : added[i] = {} => entries[i] = None

Inv == Kept /\ GivenKept

LEMMA InvInit == Init => Inv
<1> SUFFICES ASSUME Init PROVE Inv
  OBVIOUS
<1>1. TypeOK
  BY CubeAssumption DEF Init, TypeOK
<1>2. CountIsVacant
  BY CellsFinite DEF Init, CountIsVacant
<1> QED
  BY <1>1, <1>2 DEF Init, Inv, Kept, GivenKept, PayloadNotVacant, BestPayloadKept

(* Striking a field out keeps the count right, whether or not it was there. *)
LEMMA StrikeCounts ==
    ASSUME TypeOK, CountIsVacant, NEW i \in Cells, Strike(i)
    PROVE  set' = set \ {i} /\ set' \subseteq Cells /\ count' \in 0 .. Size /\ CountIsVacant'
<1>1. CASE i \in set
  <2>1. set' = set \ {i} /\ count' = Cardinality(set) - 1
    BY <1>1 DEF Strike, CountIsVacant
  <2>2. Cardinality(set') = count' /\ Cardinality(set') \in 0 .. Size
    BY <1>1, <2>1, PartOfCube DEF TypeOK
  <2> QED
    BY <2>1, <2>2 DEF TypeOK, CountIsVacant
<1>2. CASE i \notin set
  BY <1>2 DEF Strike, TypeOK, CountIsVacant
<1> QED
  BY <1>1, <1>2

LEMMA ClearKeeps ==
    ASSUME Inv, NEW i \in Cells, Clear(i)
    PROVE  Inv'
BY StrikeCounts
DEF Inv, Kept, GivenKept, Clear, TypeOK, PayloadNotVacant, BestPayloadKept

(* Which payload a cell has after one more was added. *)
LEMMA AddKeepsBest ==
    ASSUME Inv, NEW i \in Cells, NEW p \in Payloads, Add(i, p)
    PROVE  /\ entries' \in [Cells -> Payloads \cup {None}]
           /\ added' \in [Cells -> SUBSET Payloads]
           /\ entries'[i] # None
           /\ \A j \in Cells : j # i => entries'[j] = entries[j] /\ added'[j] = added[j]
           /\ entries'[i] \in added'[i]
           /\ \A q \in added'[i] : <<entries'[i], q>> \notin Replaces
<1>1. added' = [added EXCEPT ![i] = @ \cup {p}] /\ added[i] \subseteq Payloads
      /\ added'[i] = added[i] \cup {p}
  BY DEF Add, Inv, Kept, TypeOK
<1>2. CASE entries[i] = None
  <2>1. entries' = [entries EXCEPT ![i] = p]
    BY <1>2 DEF Add, Stored
  <2>2. added[i] = {}
    BY <1>2, <1>1, CubeAssumption DEF Inv, Kept, BestPayloadKept
  <2> QED
    BY <1>1, <2>1, <2>2, CubeAssumption DEF Inv, Kept, TypeOK
<1>3. CASE entries[i] # None /\ <<entries[i], p>> \in Replaces
  <2>1. entries' = [entries EXCEPT ![i] = p]
    BY <1>3 DEF Add, StoreBetter, Stored
  <2>2. \A q \in added[i] : <<p, q>> \notin Replaces
    BY <1>1, <1>3, CubeAssumption DEF Inv, Kept, BestPayloadKept, TypeOK
  <2> QED
    BY <1>1, <2>1, <2>2, CubeAssumption DEF Inv, Kept, TypeOK
<1>4. CASE entries[i] # None /\ <<entries[i], p>> \notin Replaces
  <2>1. UNCHANGED entries
    BY <1>4 DEF Add, StoreBetter
  <2> QED
    BY <1>1, <1>4, <2>1 DEF Inv, Kept, GivenKept, BestPayloadKept, TypeOK
<1> QED
  BY <1>2, <1>3, <1>4

LEMMA AddKeeps ==
    ASSUME Inv, NEW i \in Cells, NEW p \in Payloads, Add(i, p)
    PROVE  Inv'
<1>1. /\ set' \subseteq Cells /\ set' \subseteq set /\ count' \in 0 .. Size /\ CountIsVacant'
      /\ i \notin set'
  <2>1. CASE entries[i] = None
    BY <2>1, StrikeCounts DEF Add, Inv, Kept
  <2>2. CASE entries[i] # None
    BY <2>2 DEF Add, Inv, Kept, TypeOK, CountIsVacant, PayloadNotVacant
  <2> QED
    BY <2>1, <2>2
<1>2. TypeOK'
  BY <1>1, AddKeepsBest DEF TypeOK
<1>3. PayloadNotVacant'
  BY <1>1, AddKeepsBest DEF Inv, Kept, PayloadNotVacant
<1>4. BestPayloadKept' /\ GivenKept'
  BY AddKeepsBest DEF Inv, Kept, BestPayloadKept, GivenKept
<1> QED
  BY <1>1, <1>2, <1>3, <1>4 DEF Inv, Kept

LEMMA InvAlways == Spec => []Inv
<1>1. Inv /\ [Next]_vars => Inv'
  <2>1. Inv /\ UNCHANGED vars => Inv'
    BY DEF vars, Inv, Kept, GivenKept, TypeOK, CountIsVacant, PayloadNotVacant, BestPayloadKept
  <2> QED
    BY <2>1, ClearKeeps, AddKeeps, CubeAssumption DEF Next
<1> QED
  BY <1>1, InvInit, PTL DEF Spec

(***************************************************************************)
(* Marks, count, payloads and history keep their types.                    *)
(***************************************************************************)
THEOREM TypeCorrect == Spec => []TypeOK
BY InvAlways, PTL DEF Inv, Kept

(***************************************************************************)
(* count_ is the number of marks left in set_, though a field may be       *)
(* cleared twice, or cleared and then added.                               *)
(***************************************************************************)
THEOREM CountCorrect == Spec => []CountIsVacant
BY InvAlways, PTL DEF Inv, Kept

(***************************************************************************)
(* A field with a payload is never among the vacant ones.                  *)
(***************************************************************************)
THEOREM PayloadsAreNotVacant == Spec => []PayloadNotVacant
BY InvAlways, PTL DEF Inv, Kept

(***************************************************************************)
(* The payload kept is one of those added for the field, and the           *)
(* deduplicator prefers none of them to it, in whatever order they came.   *)
(***************************************************************************)
THEOREM DeduplicationCorrect == Spec => []BestPayloadKept
BY InvAlways, PTL DEF Inv, Kept

(***************************************************************************)
(* The ordinals of the vacant fields are distinct, in the order of the     *)
(* cube, and below countVacant(): they are 0, 1, ... countVacant() - 1.    *)
(***************************************************************************)
THEOREM OrdinalsCorrect == Spec => []OrdinalsAreDense
<1>1. Inv => OrdinalsAreDense
  <2> SUFFICES ASSUME Inv PROVE OrdinalsAreDense
    OBVIOUS
  <2> DEFINE Below(i) == {j \in set : j < i}
  <2>0. set \subseteq Cells /\ Cells \subseteq Int /\ count = Cardinality(set)
    BY DEF Inv, Kept, TypeOK, CountIsVacant, Cells
  <2>1. ASSUME NEW S \in SUBSET Cells, NEW R \in SUBSET S, NEW i \in S, i \notin R
        PROVE  Cardinality(R) < Cardinality(S)
    <3>1. R \subseteq S \ {i} /\ IsFiniteSet(S \ {i})
      BY <2>1, PartOfCube
    <3>2. Cardinality(R) <= Cardinality(S \ {i})
      BY <3>1, FS_Subset
    <3>3. Cardinality(S \ {i}) = Cardinality(S) - 1 /\ Cardinality(S) \in 0 .. Size
      BY PartOfCube
    <3>4. Cardinality(R) \in 0 .. Size
      BY PartOfCube
    <3> QED
      BY <3>2, <3>3, <3>4
  <2>2. \A i \in set : FieldOrdinal(i) < count
    <3> SUFFICES ASSUME NEW i \in set PROVE Cardinality(Below(i)) < Cardinality(set)
      BY <2>0 DEF FieldOrdinal
    <3>1. i \notin Below(i) /\ Below(i) \subseteq set
      BY <2>0
    <3> HIDE DEF Below
    <3> QED
      BY <2>0, <2>1, <3>1
  <2>3. \A i, j \in set : i < j => FieldOrdinal(i) < FieldOrdinal(j)
    <3> SUFFICES ASSUME NEW i \in set, NEW j \in set, i < j
                 PROVE  Cardinality(Below(i)) < Cardinality(Below(j))
      BY DEF FieldOrdinal
    <3>0. i \in Int /\ j \in Int /\ \A k \in set : k \in Int
      BY <2>0
    <3>1. i \notin Below(i) /\ i \in Below(j)
      BY <3>0
    <3>2. Below(j) \subseteq Cells
      BY <2>0
    <3>3. Below(i) \subseteq Below(j)
      <4> SUFFICES ASSUME NEW k \in set, k < i PROVE k < j
        OBVIOUS
      <4> QED
        BY <3>0
    <3> HIDE DEF Below
    <3> QED
      BY <2>1, <3>1, <3>2, <3>3
  <2> QED
    BY <2>2, <2>3 DEF OrdinalsAreDense
<1> QED
  BY <1>1, InvAlways, PTL
=============================================================================
