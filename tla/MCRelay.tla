------------------------------- MODULE MCRelay -------------------------------
(* A small instance of Relay for TLC.                                       *)
EXTENDS Relay, TLC

CONSTANTS node, ama, c1, c2, mum, mumLocal, fire, typo, numMum, numFire   \* model values

MCDeviceOf == (ama :> node)
MCNormal == (mum :> numMum @@ mumLocal :> numMum @@ fire :> numFire @@ typo :> Malformed)
=============================================================================
