------------------------------- MODULE MCIngest -------------------------------
(* Small instances of Ingest for TLC.                                       *)
EXTENDS Ingest

CONSTANTS e1, e2, a1, a2   \* model values
=============================================================================
