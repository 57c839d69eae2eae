------------------------------ MODULE Lifecycle ------------------------------
(***************************************************************************)
(* What the dispatch back end promises about the life of one incident,     *)
(* with units, routes and the database left out: a stage that only moves   *)
(* towards closure, and the one way back that the code really has.         *)
(*                                                                         *)
(* An assignment is admitted in one moment and recorded in a later one     *)
(* (app/modules/units.py awaits the road route in between).  An admitted   *)
(* assignment is a promise that remembers the stage it saw.  Keeping a     *)
(* promise given before the incident was dispatched makes the incident     *)
(* dispatched, whatever happened since; nothing else leaves a closed stage.*)
(***************************************************************************)

CONSTANTS Incidents, Requests, Outcomes

VARIABLES stage,    \* stage[i]: the incident's status as every reader sees it
          promise   \* promise[r]: none, or the admitted assignment of request r

Open == {"new", "acknowledged", "dispatched"}

Stages == Open \union Outcomes

NoPromise == [given |-> FALSE]

Promises == {NoPromise} \union
            [given: {TRUE}, incident: Incidents, saw: Open]

Init == /\ stage = [i \in Incidents |-> "new"]
        /\ promise = [r \in Requests |-> NoPromise]

Acknowledge(i) ==
    /\ stage[i] = "new"
    /\ stage' = [stage EXCEPT ![i] = "acknowledged"]
    /\ UNCHANGED promise

\* Any open incident may become dispatched; a dispatched one stays so.
Dispatch(i) ==
    /\ stage[i] \in Open
    /\ stage' = [stage EXCEPT ![i] = "dispatched"]
    /\ UNCHANGED promise

Close(i, outcome) ==
    /\ stage[i] \in Open
    /\ stage' = [stage EXCEPT ![i] = outcome]
    /\ UNCHANGED promise

Give(r, i) ==
    /\ promise[r] = NoPromise
    /\ stage[i] \in Open
    /\ promise' = [promise EXCEPT
                     ![r] = [given |-> TRUE, incident |-> i, saw |-> stage[i]]]
    /\ UNCHANGED stage

\* A promise that saw a dispatched incident writes no status of its own.
Keep(r) ==
    /\ promise[r] # NoPromise
    /\ stage' = IF promise[r].saw = "dispatched"
                THEN stage
                ELSE [stage EXCEPT ![promise[r].incident] = "dispatched"]
    /\ promise' = [promise EXCEPT ![r] = NoPromise]

\* Promises are held in memory: a failed request or a restart forgets them.
Forget(R) ==
    /\ promise' = [r \in Requests |-> IF r \in R THEN NoPromise ELSE promise[r]]
    /\ UNCHANGED stage

Next == \/ \E i \in Incidents :
             \/ Acknowledge(i)
             \/ Dispatch(i)
             \/ \E outcome \in Outcomes : Close(i, outcome)
             \/ \E r \in Requests : Give(r, i)
        \/ \E r \in Requests : Keep(r)
        \/ \E R \in SUBSET Requests : Forget(R)

Spec == Init /\ [][Next]_<<stage, promise>>
=============================================================================
