--------------------------- MODULE MCMovementSync ---------------------------
(* TLC instances of MovementSync.                                          *)
EXTENDS MovementSync

CONSTANT other

MCOthers == {other}
=============================================================================
