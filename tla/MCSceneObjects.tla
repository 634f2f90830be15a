--------------------------- MODULE MCSceneObjects ---------------------------
(* TLC instance of SceneObjects: players whose names contain each other.   *)
EXTENDS SceneObjects

\* Players 1, 2 and 11.
ThreePlayers == {<<1>>, <<2>>, <<1, 1>>}
=============================================================================
