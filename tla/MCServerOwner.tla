--------------------------- MODULE MCServerOwner ----------------------------
(* TLC instance of ServerOwner: nothing to define beyond the constants.    *)
EXTENDS ServerOwner
=============================================================================
