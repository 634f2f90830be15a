--------------------------- MODULE MCWorldServer ----------------------------
(* TLC instances of WorldServer: users, tokens and input frames.           *)
EXTENDS WorldServer, TLC

CONSTANTS alice, bob, a1, a2, b1

\* Alice logs in twice, Bob once.
BothUsers == {alice, bob}
ThreeTokens == {a1, a2, b1}
ThreeUserOf == a1 :> alice @@ a2 :> alice @@ b1 :> bob

\* Input frames that advance, overlap, repeat and come in the wrong order.
OverlappingFrames == {<<1>>, <<1, 2>>, <<2, 1>>}
NoFrames == {}
NoIds == {}
=============================================================================
