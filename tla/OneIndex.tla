------------------------------ MODULE OneIndex ------------------------------
(***************************************************************************)
(* What the index cache promises of a grid: there is one index, it is made *)
(* once, it is complete when it can be seen, and whoever is given an index *)
(* is given that one, before and after any crash.  Clients may forget what *)
(* they were given; the cache never does.                                  *)
(***************************************************************************)
EXTENDS Naturals

CONSTANTS Clients,    \* who asks
          Indices     \* the indices that could be made, none of them 0

VARIABLES index,      \* the index of the grid, 0 as long as there is none
          answer      \* answer[c]: what c was given, 0 if nothing

Init == index = 0 /\ answer = [c \in Clients |-> 0]

Publish == index = 0 /\ index' \in Indices /\ UNCHANGED answer

Answer(c) == index # 0 /\ answer' = [answer EXCEPT ![c] = index] /\ UNCHANGED index

Forget(who) ==
    /\ answer' = [c \in Clients |-> IF c \in who THEN 0 ELSE answer[c]]
    /\ UNCHANGED index

Next == Publish \/ (\E c \in Clients : Answer(c)) \/ (\E who \in SUBSET Clients : Forget(who))

Spec == Init /\ [][Next]_<<index, answer>>
=============================================================================
