----------------------------- MODULE MCUnitTree -----------------------------
(* TLC instance of UnitTree.                                               *)
EXTENDS UnitTree

CONSTANTS o1, o2, o3, e1, e2

ThreeObjects == {o1, o2, o3}
TwoEffects == {e1, e2}
OneAnimated == {o1}
TwoBones == {0, 1}

\* What the managers hand out: objects count from 1, effects from 100.  The
\* last object has got that far.
OwnIds ==
    [u \in {o1, o2, o3, e1, e2} |->
        CASE u = o1 -> 1 [] u = o2 -> 2 [] u = o3 -> 100 [] u = e1 -> 100 [] u = e2 -> 101]
=============================================================================
