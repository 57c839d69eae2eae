-------------------------------- MODULE MCFeed --------------------------------
(* Small instances of Feed for TLC.                                         *)
EXTENDS Feed, TLC

CONSTANTS i1, i2, app, desk, s1, s2   \* model values

\* One incident lives: an assignment can find it written meanwhile.
TwiceOne == (i1 :> 0) @@ (i2 :> 2)

\* Sessions are interchangeable.
SessionSymmetry == Permutations(Sessions)
=============================================================================
