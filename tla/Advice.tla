------------------------------- MODULE Advice -------------------------------
(***************************************************************************)
(* Road routes and what they are used for:                                 *)
(*   app/modules/routing.py   road_route with its cache, route_many        *)
(*   app/modules/units.py     dispatch_options, the route of assign_unit   *)
(*                                                                         *)
(* One scene.  A unit stands for itself at the position it is routed from  *)
(* (a unit that has moved is another one), so a unit is a key of the cache.*)
(* OSRM is a service that answers or does not; a fetch that was sent while *)
(* it did not fails, up to eight seconds later.  One tick of the clock is  *)
(* longer than that, so at most one falls into a fetch.                    *)
(***************************************************************************)
EXTENDS Integers, FiniteSets

CONSTANTS
    Units, Type,       \* Type[u]: the unit's service
    Crow,              \* Crow[u]: kilometres to the scene, great circle
    Road,              \* Road[u]: minutes to the scene by road, OSRM's answer, rounded
    Candidates,        \* ROUTE_CANDIDATES_PER_TYPE
    Ttl,               \* _CACHE_TTL_S, in ticks
    Desks, Assigners,  \* requests for options, and requests that assign
    Sent,              \* bound: units that may be assigned or on this call already
    Ready,             \* bound: units that are available whenever options are asked for
    Severities,        \* classes the incident may have
    NoRoute

ASSUME AdviceAssumption ==
    /\ Crow \in [Units -> Nat] /\ Road \in [Units -> Nat]
    /\ IsFiniteSet(Units)
    /\ NoRoute \notin {"osrm", "straight_line", "asked", "lost"}
    /\ Candidates \in Nat \ {0} /\ Ttl \in Nat \ {0, 1}
    /\ Sent \subseteq Units /\ Ready \subseteq Units /\ Severities \subseteq 0..2

RequiredBySeverity ==
    [s \in 0..2 |-> CASE s = 2 -> {"AMBULANCE", "FIRE", "POLICE"}
                       [] s = 1 -> {"AMBULANCE", "POLICE"}
                       [] s = 0 -> {}]

VARIABLES
    osrm,      \* whether the routing service answers
    cache,     \* _CACHE: the source and the age of a unit's route, or NoRoute
    job        \* job[q]: the request's rows and the routes it waits for

vars == <<osrm, cache, job>>

Requests == Desks \union Assigners

Sources == {"osrm", "straight_line"}

\* A fetch was sent while the service answered, or while it did not.
Pending == {"asked", "lost"}

Entry == [source: Sources, age: 0..(Ttl - 1)]

\* `late`: a tick has passed since the request's fetches were sent.
Job == [available: SUBSET Units, shortlist: SUBSET Units, severity: 0..2, late: BOOLEAN,
        route: [Units -> Sources \union Pending \union {NoRoute}]]

NoJob == [available |-> {}, shortlist |-> {}, severity |-> 0, late |-> FALSE,
          route |-> [u \in Units |-> NoRoute]]

TypeOK ==
    /\ osrm \in BOOLEAN
    /\ cache \in [Units -> Entry \union {NoRoute}]
    /\ job \in [Requests -> Job]

Init == /\ osrm \in BOOLEAN
        /\ cache = [u \in Units |-> NoRoute]
        /\ job = [q \in Requests |-> NoJob]

-----------------------------------------------------------------------------
(* road_route                                                              *)

\* A faulty variant: an estimate is not worth keeping, and is asked for again.
HitOfRoad(u) == cache[u] # NoRoute /\ cache[u].source = "osrm"

\* An entry that has reached the age Ttl is never used again; it is NoRoute.
Hit(u) == cache[u] # NoRoute

Looked(u) == IF Hit(u) THEN cache[u].source ELSE IF osrm THEN "asked" ELSE "lost"

Started(rows, targets) ==
    [available |-> rows.available, shortlist |-> rows.shortlist, severity |-> rows.severity,
     late |-> FALSE,
     route |-> [u \in Units |-> IF u \in targets THEN Looked(u) ELSE NoRoute]]

\* A faulty variant: an entry that is used is kept for as long again.
AskRenewing(q, rows, targets) ==
    /\ job[q] = NoJob /\ targets # {}
    /\ job' = [job EXCEPT ![q] = Started(rows, targets)]
    /\ cache' = [u \in Units |-> IF u \in targets /\ Hit(u) THEN [cache[u] EXCEPT !.age = 0]
                                                         ELSE cache[u]]
    /\ UNCHANGED osrm

\* The lookups of one request are one step: none of them waits.
Ask(q, rows, targets) ==
    /\ job[q] = NoJob /\ targets # {}
    /\ job' = [job EXCEPT ![q] = Started(rows, targets)]
    /\ UNCHANGED <<osrm, cache>>

Store(u, source) == cache' = [cache EXCEPT ![u] = [source |-> source, age |-> 0]]

\* The fetch of one unit's route ends with the service's answer or, if the
\* service is or was not there, with an estimate; both are stored.
FetchEnds(q, u) ==
    \E source \in Sources :
        /\ job[q].route[u] \in Pending
        /\ source = "osrm" => job[q].route[u] = "asked"
        /\ source = "straight_line" => job[q].route[u] = "lost" \/ ~ osrm
        /\ Store(u, source)
        /\ job' = [job EXCEPT ![q].route[u] = source]
        /\ UNCHANGED osrm

-----------------------------------------------------------------------------
(* dispatch_options and assign_unit                                        *)

OfType(S, t) == {u \in S : Type[u] = t}

\* What the sort by distance and the cut after the first few can leave of each
\* type: units at the same distance may come in any order.
Shortlists(available) ==
    {S \in SUBSET available : \A u \in available :
        LET kept == OfType(S, Type[u])
        IN  /\ Cardinality(kept) <= Candidates
            /\ u \notin S => /\ Cardinality(kept) = Candidates
                            /\ \A v \in kept : Crow[v] <= Crow[u]}

\* The candidates and the units that are on this call already.
DispatchOptions(q) ==
    \E available \in SUBSET Units, severity \in Severities :
        \E shortlist \in Shortlists(available), committed \in SUBSET (Sent \ available) :
            /\ Ready \subseteq available
            /\ Ask(q, [available |-> available, shortlist |-> shortlist, severity |-> severity],
                   shortlist \union committed)

\* The route of the one unit that is assigned.
AssignUnit(q) ==
    \E u \in Sent :
        Ask(q, [available |-> {}, shortlist |-> {}, severity |-> 0], {u})

Routed(q) == {u \in Units : job[q].route[u] # NoRoute}

Complete(q) == Routed(q) # {} /\ \A u \in Routed(q) : job[q].route[u] \in Sources

\* 1.35 detours at 32 km/h.
Estimate(u) == (Crow[u] * 81) \div 32

\* What the request shows as the unit's time, once its route is there.
Eta(q, u) == IF job[q].route[u] = "osrm" THEN Road[u] ELSE Estimate(u)

\* A faulty variant: candidates stay in the order of their distance.
RankNearest(q, S) == {u \in S : \A v \in S : Crow[u] <= Crow[v]}

\* The sort by eta_min: what may come first among the units of S.
RankFirst(q, S) == {u \in S : \A v \in S : Eta(q, u) <= Eta(q, v)}

\* The first option of each required type; nothing else is recommended.
Recommended(q) ==
    UNION {RankFirst(q, OfType(job[q].shortlist, t)) : t \in RequiredBySeverity[job[q].severity]}

RoutingSource(q) ==
    LET sources == {job[q].route[u] : u \in Routed(q)}
    IN  IF sources = {"osrm"} THEN "osrm"
        ELSE IF "osrm" \in sources THEN "mixed" ELSE "straight_line"

Answer(q) ==
    /\ Complete(q)
    /\ job' = [job EXCEPT ![q] = NoJob]
    /\ UNCHANGED <<osrm, cache>>

-----------------------------------------------------------------------------
(* The clock and the service                                               *)

Waiting(q) == \E u \in Units : job[q].route[u] \in Pending

Aged(entry) == IF entry = NoRoute \/ entry.age + 1 = Ttl THEN NoRoute
               ELSE [entry EXCEPT !.age = @ + 1]

Tick ==
    /\ \A q \in Requests : Waiting(q) => ~ job[q].late
    /\ cache' = [u \in Units |-> Aged(cache[u])]
    /\ job' = [q \in Requests |-> IF Waiting(q) THEN [job[q] EXCEPT !.late = TRUE] ELSE job[q]]
    /\ UNCHANGED osrm

Outage == osrm' = ~ osrm /\ UNCHANGED <<cache, job>>

Next == \/ \E q \in Desks : DispatchOptions(q)
        \/ \E q \in Assigners : AssignUnit(q)
        \/ \E q \in Requests : Answer(q) \/ \E u \in Units : FetchEnds(q, u)
        \/ Tick
        \/ Outage

Spec == Init /\ [][Next]_vars

\* Handlers answer once their routes are there, a fetch ends within its timeout,
\* and time passes.
FairSpec ==
    /\ Spec
    /\ WF_vars(Tick)
    /\ \A q \in Requests : WF_vars(Answer(q)) /\ \A u \in Units : WF_vars(FetchEnds(q, u))

-----------------------------------------------------------------------------
(* Properties                                                              *)

\* Nobody asks for a route that is in the cache: an entry that can be used is
\* no older than any fetch of the same route.  So the only way for an estimate
\* to take the place of a road route is a failed fetch that overlapped with the
\* one that brought it (routing.py:94, routing.py:124).
EntriesAreNewerThanFetches ==
    \A q \in Requests, u \in Units :
        job[q].route[u] \in Pending /\ cache[u] # NoRoute =>
            cache[u].age <= IF job[q].late THEN 1 ELSE 0

\* Whatever is shortlisted is routed, so that every option has a time to be
\* ranked by; a request that assigns has no shortlist (units.py:168).
ShortlistIsRouted ==
    \A q \in Requests : job[q].shortlist \subseteq Routed(q)

\* The shortlist is the one that was cut, until the answer.
ShortlistIsKept ==
    \A q \in Requests : job[q].shortlist \in Shortlists(job[q].available)

\* All hold together and after every step, whatever the service does; what
\* is recommended follows from them.
AdviceInv ==
    /\ TypeOK
    /\ EntriesAreNewerThanFetches
    /\ ShortlistIsRouted
    /\ ShortlistIsKept

\* An answer that says it was routed by road recommends a unit of every required
\* type that has one, and an available unit of that type is faster only if it was
\* not routed at all: at least as many others of the type as are routed are as near
\* as the crow flies (units.py:158).
RecommendedIsFastest ==
    \A q \in Requests :
        Complete(q) /\ RoutingSource(q) = "osrm" =>
            \A t \in RequiredBySeverity[job[q].severity] :
                LET fleet == OfType(job[q].available, t)
                    picks == OfType(Recommended(q), t)
                IN  /\ fleet # {} => picks # {}
                    /\ picks \subseteq fleet
                    /\ \A u \in picks, v \in fleet :
                          Road[v] < Road[u] =>
                             Cardinality({w \in fleet \ {v} : Crow[w] <= Crow[v]}) >= Candidates

\* Once the service is back for good, estimates are used up: in the end every
\* answer is by road, however often it is asked for (routing.py:94).
EstimatesDieOut ==
    <>[]osrm => <>[](\A q \in Requests : Complete(q) => RoutingSource(q) = "osrm")
=============================================================================
