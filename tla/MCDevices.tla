------------------------------ MODULE MCDevices ------------------------------
(* A small instance of Devices for TLC.                                     *)
EXTENDS Devices

CONSTANTS d1, d2, e1, e2, r1, r2, here, there
=============================================================================
