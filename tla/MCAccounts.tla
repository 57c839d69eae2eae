------------------------------ MODULE MCAccounts ------------------------------
(* Small instances of Accounts for TLC.                                     *)
EXTENDS Accounts, TLC

CONSTANTS ann, ben, r1, r2   \* model values

\* Requests are told apart by what they do only.
RequestSymmetry == Permutations(Requests)

\* A deactivation with a new password, an activation without one.
MCBodies == {<<"deactivate", TRUE>>, <<"activate", FALSE>>}
=============================================================================
