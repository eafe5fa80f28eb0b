------------------------------ MODULE HyperCube ------------------------------
(***************************************************************************)
(* metkit::hypercube: a request seen as the set of its fields, of which    *)
(* the caller strikes out those it has (clear) or stores a payload for     *)
(* each (HyperCubePayloaded::add).  A field is its index in the cube; the  *)
(* coordinates behind an index are in CubeRequests.                        *)
(***************************************************************************)
EXTENDS Integers, FiniteSets

CONSTANTS Size,       \* number of cells, cube_.count()
          Loaded,     \* the cells that payloads come for; the others are only cleared
          Payloads,   \* what add() stores
          Replaces,   \* <<old, new>> for which Deduplicator::toReplace(old, new)
          None        \* no payload

Cells == 0 .. Size - 1

(* A deduplicator prefers one payload to another: a strict order. *)
ASSUME CubeAssumption ==
    /\ Size \in Nat \ {0} /\ None \notin Payloads /\ Loaded \subseteq Cells
    /\ Replaces \subseteq Payloads \X Payloads
    /\ \A p \in Payloads : <<p, p>> \notin Replaces
    /\ \A p, q, r \in Payloads :
           <<p, q>> \in Replaces /\ <<q, r>> \in Replaces => <<p, r>> \in Replaces

VARIABLES set,      \* set_: the cells not yet cleared
          count,    \* count_
          entries,  \* entries_: the payload of each cell that has one
          added     \* history: every payload given to add() for a cell
vars == <<set, count, entries, added>>

TypeOK ==
    /\ set \subseteq Cells /\ count \in 0 .. Size
    /\ entries \in [Cells -> Payloads \cup {None}]
    /\ added \in [Cells -> SUBSET Payloads]

Init ==
    /\ set = Cells /\ count = Size
    /\ entries = [i \in Cells |-> None]
    /\ added = [i \in Cells |-> {}]

(* mutant: a cell already cleared is counted again *)
StrikeAgain(i) == set' = set \ {i} /\ count' = count - 1

Strike(i) ==
    IF i \in set THEN set' = set \ {i} /\ count' = count - 1
                 ELSE UNCHANGED <<set, count>>

(* clear(request); a request that is not in the cube has no index and changes
   nothing *)
Clear(i) == Strike(i) /\ UNCHANGED <<entries, added>>

Stored(i, p) == entries' = [entries EXCEPT ![i] = p]

(* mutant: the last payload wins *)
StoreBetterAlways(i, p) == Stored(i, p)

StoreBetter(i, p) ==
    IF <<entries[i], p>> \in Replaces THEN Stored(i, p) ELSE UNCHANGED entries

(* mutant: the cell keeps its mark *)
AddUncleared(i, p) ==
    /\ added' = [added EXCEPT ![i] = @ \cup {p}]
    /\ IF entries[i] = None THEN Stored(i, p) /\ UNCHANGED <<set, count>>
                            ELSE StoreBetter(i, p) /\ UNCHANGED <<set, count>>

Add(i, p) ==
    /\ added' = [added EXCEPT ![i] = @ \cup {p}]
    /\ IF entries[i] = None THEN Stored(i, p) /\ Strike(i)
                            ELSE StoreBetter(i, p) /\ UNCHANGED <<set, count>>

Next == \/ \E i \in Cells : Clear(i)
        \/ \E i \in Loaded, p \in Payloads : Add(i, p)
Spec == Init /\ [][Next]_vars

(* mutant: the field itself is counted *)
FieldOrdinalInclusive(i) == Cardinality({j \in set : j <= i})

(* fieldOrdinal(request, noholes = true) *)
FieldOrdinal(i) == Cardinality({j \in set : j < i})

------------------------------------------------------------------------------
(* The number of vacant fields is that of the marks left, whatever is cleared
   twice, and cleared and added. *)
CountIsVacant == count = Cardinality(set)

(* A field that has a payload is not reported as vacant. *)
PayloadNotVacant == \A i \in Cells : entries[i] # None => i \notin set

(* Whatever order the payloads of one field come in, the one kept is one the
   deduplicator prefers none of the others to. *)
BestPayloadKept ==
    \A i \in Cells :
        /\ added[i] # {} => entries[i] \in added[i]
        /\ \A p \in added[i] : <<entries[i], p>> \notin Replaces

(* The fields left are numbered 0, 1, 2 ... in the order of the cube, so the
   ordinals index a list that has exactly the vacant fields. *)
OrdinalsAreDense ==
    /\ \A i \in set : FieldOrdinal(i) < count
    /\ \A i, j \in set : i < j => FieldOrdinal(i) < FieldOrdinal(j)
=============================================================================
