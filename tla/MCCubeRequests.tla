--------------------------- MODULE MCCubeRequests ---------------------------
(* CubeRequests for TLC: small cubes and an ordered set of payloads. *)
EXTENDS CubeRequests
CONSTANTS bad, good
Levels2      == <<3, 2>>
Brick        == <<2, 3, 2>>
NoneReplace  == {}
GoodReplaces == {<<bad, good>>}
First        == {0}
Empty        == {}
=============================================================================
