--------------------------- MODULE MCSceneManager ---------------------------
(* TLC instance of SceneManager: the scenes.                               *)
EXTENDS SceneManager

CONSTANTS s1, s2, s3

ThreeScenes == {s1, s2, s3}
=============================================================================
