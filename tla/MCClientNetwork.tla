-------------------------- MODULE MCClientNetwork ---------------------------
(* TLC instances of ClientNetwork: a network that is started, stopped and  *)
(* started again.                                                          *)
EXTENDS ClientNetwork
=============================================================================
