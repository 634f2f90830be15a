--------------------------- MODULE MCLoginServer ----------------------------
(* TLC instance of LoginServer: users and tokens.                          *)
EXTENDS LoginServer

CONSTANTS alice, bob, t1, t2, t3

BothUsers == {alice, bob}
ThreeTokens == {t1, t2, t3}
=============================================================================
