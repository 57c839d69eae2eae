------------------------------ MODULE MCDispatch ------------------------------
(* Small instances of Dispatch for TLC: each .cfg chooses the sets.         *)
EXTENDS Dispatch, TLC

CONSTANTS i1, i2, u1, r1, r2   \* model values

\* Requests are interchangeable (safety runs only).
RequestSymmetry == Permutations(Requests)
=============================================================================
