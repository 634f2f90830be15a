------------------------------ MODULE MCPacing ------------------------------
(* TLC instances of Pacing.                                                *)
EXTENDS Pacing
=============================================================================
