------------------------------ MODULE MCVerdict ------------------------------
(* A small instance of Verdict for TLC.                                     *)
EXTENDS Verdict

\* The demo's longest excursion is set to four samples.
MCTuning == [longest |-> 200]
=============================================================================
