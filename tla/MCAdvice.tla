------------------------------ MODULE MCAdvice ------------------------------
(* A small instance of Advice for TLC: three ambulances and a police car.   *)
(* The ambulance that is nearest to the scene is not the fastest; the other *)
(* two are equally far, and only one of them can be shortlisted with it.    *)
EXTENDS Advice, TLC

CONSTANTS a1, a2, a3, p1

MCType == [u \in Units |-> IF u = p1 THEN "POLICE" ELSE "AMBULANCE"]
MCCrow == a1 :> 2 @@ a2 :> 4 @@ a3 :> 4 @@ p1 :> 3
MCRoad == a1 :> 9 @@ a2 :> 9 @@ a3 :> 8 @@ p1 :> 10
=============================================================================
