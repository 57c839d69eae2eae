------------------------------- MODULE Dispatch -------------------------------
(***************************************************************************)
(* Incidents, response units and the requests and loops that move them:    *)
(*   app/modules/dispatch.py   actions on an incident                      *)
(*   app/modules/units.py      roster, assignment, unit status             *)
(*   app/modules/movement.py   automatic status progression                *)
(*                                                                         *)
(* One process serves everything.  An `async def` handler runs on the      *)
(* event loop and is interrupted only where it awaits; of the handlers     *)
(* here only assign_unit awaits between reading the database and writing   *)
(* it (road_route, units.py:232), so it is two actions and the others are  *)
(* one.  A `def` handler (register, update, delete a unit) runs in a       *)
(* worker thread, so its read and its commit are two actions as well.      *)
(* What happens after the commit (the broadcasts) is not modelled here.    *)
(*                                                                         *)
(* A session keeps the row it loaded, and its UPDATE names only the        *)
(* columns whose new value differs from the loaded one.  Flushed is that   *)
(* rule; a commit applies it to each column of the CURRENT row.            *)
(***************************************************************************)
EXTENDS Naturals, FiniteSets

CONSTANTS
    Incidents,       \* incidents on record, all of them new at first
    Units,           \* call signs an operator may register
    Requests,        \* requests that may be between their read and their commit
    Routes,          \* road travel times that routing may answer
    HasFix,          \* incidents with coordinates: only these are routed to
    ManualActions,   \* actions operators take on an incident
    Reports,         \* statuses operators report for a unit
    PatchStatuses,   \* unit statuses operators write through PATCH
    PatchActives,    \* active flags operators write through PATCH
    NoIncident,      \* assigned_incident_id is null
    NoRoute          \* route_eta_s and route_geometry are null

ASSUME FixAssumption == HasFix \subseteq Incidents

ASSUME NullAssumption == NoIncident \notin Incidents /\ NoRoute \notin Routes

UnitStatuses == {"available", "dispatched", "en_route", "on_scene", "out_of_service"}

BusyStatuses == {"dispatched", "en_route", "on_scene"}

Closed == {"resolved", "false_alarm"}

IncidentStatuses == {"new", "acknowledged", "dispatched"} \union Closed

\* dispatch_events.action
Actions == {"acknowledge", "assign", "en_route", "on_scene", "resolve", "false_alarm"}

ASSUME InputAssumption == /\ ManualActions \subseteq Actions
                          /\ Reports \subseteq UnitStatuses
                          /\ PatchStatuses \subseteq UnitStatuses
                          /\ PatchActives \subseteq BOOLEAN

\* dispatched_at, as the phase it projects: time passing moves it on.
ClockPhases == {"none", "dispatched", "en_route", "on_scene"}

VARIABLES
    incident,   \* incident[i]: status, and which of its timestamps are set
    unit,       \* unit[u]: the row of call sign u
    roster,     \* call signs that have a row
    timeline,   \* dispatch_events: <<incident, action>> recorded at least once
    request     \* request[r]: what request r read, while it is in flight

vars == <<incident, unit, roster, timeline, request>>

IncidentRow == [status: IncidentStatuses, acknowledged: BOOLEAN, resolved: BOOLEAN]

UnitRow == [status: UnitStatuses,
            assigned: Incidents \union {NoIncident},
            eta: Routes \union {NoRoute},
            clock: ClockPhases,
            active: BOOLEAN]

\* The row register_unit inserts; also stands for a call sign with no row.
FreshUnit == [status |-> "available", assigned |-> NoIncident, eta |-> NoRoute,
              clock |-> "none", active |-> TRUE]

\* A request in flight remembers, of the rows it loaded (saw, sawStatus), the
\* columns it may write; a PATCH also the values it is going to write.
NoRequest == [kind |-> "none"]

RequestRow ==
    {NoRequest}
    \union [kind: {"assign"}, incident: HasFix, unit: Units,
            sawStatus: IncidentStatuses,
            saw: [status: UnitStatuses, assigned: Incidents \union {NoIncident},
                  eta: Routes \union {NoRoute}]]
    \union [kind: {"patch"}, unit: Units,
            saw: [status: UnitStatuses, active: BOOLEAN],
            status: UnitStatuses, active: BOOLEAN]
    \union [kind: {"delete"}, unit: Units]

TypeOK ==
    /\ incident \in [Incidents -> IncidentRow]
    /\ unit \in [Units -> UnitRow]
    /\ roster \subseteq Units
    /\ timeline \subseteq Incidents \X Actions
    /\ request \in [Requests -> RequestRow]

Init ==
    /\ incident = [i \in Incidents |->
                     [status |-> "new", acknowledged |-> FALSE, resolved |-> FALSE]]
    /\ unit = [u \in Units |-> FreshUnit]
    /\ roster = {}
    /\ timeline = {}
    /\ request = [r \in Requests |-> NoRequest]

-----------------------------------------------------------------------------
\* What a commit leaves in a column that holds `current`, when the session
\* loaded `loaded` and assigned `new`.
Flushed(current, loaded, new) == IF new = loaded THEN current ELSE new

\* Faulty variants of clear_dispatch_run: the link, or the route, is kept.
RunKeepsLink(row) ==
    [row EXCEPT !.status = "available", !.eta = NoRoute, !.clock = "none"]

RunKeepsRoute(row) ==
    [row EXCEPT !.status = "available", !.assigned = NoIncident, !.clock = "none"]

ClearDispatchRun(row) ==
    [row EXCEPT !.status = "available", !.assigned = NoIncident,
                !.eta = NoRoute, !.clock = "none"]

Linked(u) == unit[u].assigned # NoIncident

Free(r) == request[r] = NoRequest

Finish(r) == request' = [request EXCEPT ![r] = NoRequest]

-----------------------------------------------------------------------------
(* Actions on an incident: dispatch.py                                     *)

\* A faulty variant: the dispatch actions are legal from every status.
AllowedFromAnywhere(action) ==
    IF action = "acknowledge" THEN {"new"} ELSE IncidentStatuses

\* The statuses from which an action is legal.
Allowed(action) ==
    CASE action = "acknowledge"                 -> {"new"}
      [] action \in {"assign", "en_route"}      -> {"acknowledged", "dispatched"}
      [] action = "on_scene"                    -> {"dispatched"}
      [] action \in {"resolve", "false_alarm"}  -> IncidentStatuses \ Closed

\* A faulty variant: the incident takes the name of the action as its status.
NextStatusIsAction(action) ==
    IF action = "acknowledge" THEN "acknowledged" ELSE action

NextStatus(action) ==
    CASE action = "acknowledge"                       -> "acknowledged"
      [] action \in {"assign", "en_route", "on_scene"} -> "dispatched"
      [] action = "resolve"                           -> "resolved"
      [] action = "false_alarm"                       -> "false_alarm"

\* A faulty variant: a unit that has arrived is not freed.
ReleasedUnderWay(i) ==
    [u \in Units |-> IF unit[u].assigned = i /\ unit[u].status # "on_scene"
                     THEN ClearDispatchRun(unit[u]) ELSE unit[u]]

\* Closing an incident frees every unit linked to it, in the same commit.
Released(i) == [u \in Units |-> IF unit[u].assigned = i
                                THEN ClearDispatchRun(unit[u]) ELSE unit[u]]

Apply(i, action) ==
    /\ incident[i].status \in Allowed(action)
    /\ incident' = [incident EXCEPT
                      ![i] = [status       |-> NextStatus(action),
                              acknowledged |-> @.acknowledged \/ action = "acknowledge",
                              resolved     |-> @.resolved \/ NextStatus(action) \in Closed]]
    /\ timeline' = timeline \union {<<i, action>>}
    /\ unit' = IF NextStatus(action) \in Closed THEN Released(i) ELSE unit
    /\ UNCHANGED <<roster, request>>

-----------------------------------------------------------------------------
(* Assignment: units.py assign_unit                                        *)

\* A faulty variant: the check of the incident is forgotten.
AssignableUnchecked(i, u) ==
    /\ u \in roster
    /\ unit[u].status \in BusyStatuses => unit[u].assigned = i
    /\ unit[u].active

Assignable(i, u) ==
    /\ u \in roster
    /\ incident[i].status \notin Closed
    /\ unit[u].status \in BusyStatuses => unit[u].assigned = i
    /\ unit[u].active

\* Faulty variants: the incident is not acknowledged on the way, or no event is
\* recorded.
AssignmentUnacknowledged(i, u, sawStatus, saw, eta) ==
    /\ unit' = [unit EXCEPT
                  ![u] = [status |-> "dispatched", assigned |-> i, eta |-> eta,
                          clock |-> "dispatched", active |-> @.active]]
    /\ incident' = [incident EXCEPT ![i].status = "dispatched"]
    /\ timeline' = timeline \union {<<i, "assign">>}

AssignmentUnlogged(i, u, sawStatus, saw, eta) ==
    /\ unit' = [unit EXCEPT
                  ![u] = [status |-> "dispatched", assigned |-> i, eta |-> eta,
                          clock |-> "dispatched", active |-> @.active]]
    /\ incident' = [incident EXCEPT ![i].status = "dispatched",
                                    ![i].acknowledged = TRUE]
    /\ UNCHANGED timeline

\* The commit, for a request that loaded `sawStatus` and `saw` and now holds
\* travel time eta.  dispatched_at is the time of day, so it is always written.
RecordAssignment(i, u, sawStatus, saw, eta) ==
    /\ unit' = [unit EXCEPT
                  ![u] = [status   |-> Flushed(@.status, saw.status, "dispatched"),
                          assigned |-> Flushed(@.assigned, saw.assigned, i),
                          eta      |-> Flushed(@.eta, saw.eta, eta),
                          clock    |-> "dispatched",
                          active   |-> @.active]]
    /\ incident' = [incident EXCEPT
                      ![i] = [status       |-> Flushed(@.status, sawStatus, "dispatched"),
                              acknowledged |-> @.acknowledged \/ sawStatus = "new",
                              resolved     |-> @.resolved]]
    /\ timeline' = timeline \union {<<i, "assign">>}

\* No coordinates, no route, no await: the whole handler at once.
AssignUnrouted(i, u) ==
    /\ i \notin HasFix
    /\ Assignable(i, u)
    /\ RecordAssignment(i, u, incident[i].status, unit[u], NoRoute)
    /\ UNCHANGED <<roster, request>>

\* Up to `await road_route(...)`: the checks are made on rows that are
\* not read again.
AssignAdmit(r, i, u) ==
    /\ i \in HasFix
    /\ Free(r)
    /\ Assignable(i, u)
    /\ request' = [request EXCEPT
                     ![r] = [kind |-> "assign", incident |-> i, unit |-> u,
                             sawStatus |-> incident[i].status,
                             saw |-> [status   |-> unit[u].status,
                                      assigned |-> unit[u].assigned,
                                      eta      |-> unit[u].eta]]]
    /\ UNCHANGED <<incident, unit, roster, timeline>>

AssignCommit(r, eta) ==
    /\ request[r].kind = "assign"
    /\ RecordAssignment(request[r].incident, request[r].unit,
                        request[r].sawStatus, request[r].saw, eta)
    /\ Finish(r)
    /\ UNCHANGED roster

-----------------------------------------------------------------------------
(* Unit status: units.py set_unit_status                                   *)

SetUnitStatus(u, status) ==
    LET i == unit[u].assigned
    IN  /\ u \in roster
        /\ unit' = [unit EXCEPT
                      ![u] = IF status \in BusyStatuses
                             THEN [@ EXCEPT !.status = status]
                             ELSE [ClearDispatchRun(@) EXCEPT !.status = status]]
        /\ IF Linked(u) /\ status \in {"en_route", "on_scene"}
           THEN /\ timeline' = timeline \union {<<i, status>>}
                /\ incident' = IF incident[i].status \in {"new", "acknowledged"}
                               THEN [incident EXCEPT ![i].status = "dispatched"]
                               ELSE incident
           ELSE UNCHANGED <<timeline, incident>>
        /\ UNCHANGED <<roster, request>>

-----------------------------------------------------------------------------
(* Movement: movement.py advance_units_once, and the clock it reads        *)

Advancing == {"dispatched", "en_route"}

\* A faulty variant: arriving does not rank above travelling.
RankOfTravel(status) == IF status \in {"en_route", "on_scene"} THEN 1 ELSE 0

Rank(status) == CASE status = "dispatched" -> 0
                  [] status = "en_route"   -> 1
                  [] status = "on_scene"   -> 2
                  [] OTHER                 -> 0

\* Units whose projected status is past the stored one.
Overdue == {u \in roster : /\ Linked(u)
                           /\ unit[u].status \in Advancing
                           /\ unit[u].eta # NoRoute
                           /\ unit[u].clock # "none"
                           /\ Rank(unit[u].clock) > Rank(unit[u].status)}

Advance ==
    /\ Overdue # {}
    /\ unit' = [u \in Units |-> IF u \in Overdue
                                THEN [unit[u] EXCEPT !.status = unit[u].clock]
                                ELSE unit[u]]
    /\ timeline' = timeline \union {<<unit[u].assigned, unit[u].clock>> : u \in Overdue}
    /\ UNCHANGED <<incident, roster, request>>

\* Time passes: the crew rolls after MOBILIZE_S, then arrives after the route's
\* travel time.  A unit with no route has no projection.
Tick(u) ==
    /\ unit[u].eta # NoRoute
    /\ unit[u].clock \in Advancing
    /\ unit' = [unit EXCEPT
                  ![u].clock = IF @ = "dispatched" THEN "en_route" ELSE "on_scene"]
    /\ UNCHANGED <<incident, roster, timeline, request>>

-----------------------------------------------------------------------------
(* Roster: units.py register_unit, update_unit, delete_unit (threads)      *)

RegisterUnit(u) ==
    /\ u \notin roster
    /\ roster' = roster \union {u}
    /\ unit' = [unit EXCEPT ![u] = FreshUnit]
    /\ UNCHANGED <<incident, timeline, request>>

\* A field the body leaves out keeps the loaded value, and is not written.
PatchRead(r, u, status, active) ==
    /\ Free(r)
    /\ u \in roster
    /\ status \in PatchStatuses \union {unit[u].status}
    /\ active \in PatchActives \union {unit[u].active}
    /\ request' = [request EXCEPT
                     ![r] = [kind |-> "patch", unit |-> u,
                             saw |-> [status |-> unit[u].status,
                                      active |-> unit[u].active],
                             status |-> status, active |-> active]]
    /\ UNCHANGED <<incident, unit, roster, timeline>>

PatchCommit(r) ==
    LET q == request[r]
    IN  /\ q.kind = "patch"
        /\ unit' = [unit EXCEPT
                      ![q.unit].status = Flushed(@, q.saw.status, q.status),
                      ![q.unit].active = Flushed(@, q.saw.active, q.active)]
        /\ Finish(r)
        /\ UNCHANGED <<incident, roster, timeline>>

DeleteRead(r, u) ==
    /\ Free(r)
    /\ u \in roster
    /\ unit[u].status \notin BusyStatuses
    /\ request' = [request EXCEPT ![r] = [kind |-> "delete", unit |-> u]]
    /\ UNCHANGED <<incident, unit, roster, timeline>>

\* Requests that loaded the deleted row can only fail from here on: their
\* UPDATE matches no row and the session rolls back.
DeleteCommit(r) ==
    LET u == request[r].unit
    IN  /\ request[r].kind = "delete"
        /\ roster' = roster \ {u}
        /\ unit' = [unit EXCEPT ![u] = FreshUnit]
        /\ request' = [q \in Requests |->
                         IF request[q] # NoRequest /\ request[q].unit = u
                         THEN NoRequest ELSE request[q]]
        /\ UNCHANGED <<incident, timeline>>

\* The process dies: requests in flight are lost, the database is not.
Restart ==
    /\ request' = [r \in Requests |-> NoRequest]
    /\ UNCHANGED <<incident, unit, roster, timeline>>

-----------------------------------------------------------------------------
Next ==
    \/ \E i \in Incidents, action \in ManualActions : Apply(i, action)
    \/ \E i \in Incidents, u \in Units : AssignUnrouted(i, u)
    \/ \E r \in Requests, i \in Incidents, u \in Units : AssignAdmit(r, i, u)
    \/ \E r \in Requests, eta \in Routes : AssignCommit(r, eta)
    \/ \E u \in Units, status \in Reports : SetUnitStatus(u, status)
    \/ Advance
    \/ \E u \in Units : Tick(u)
    \/ \E u \in Units : RegisterUnit(u)
    \/ \E r \in Requests, u \in Units, status \in UnitStatuses, active \in BOOLEAN :
         PatchRead(r, u, status, active)
    \/ \E r \in Requests : PatchCommit(r)
    \/ \E r \in Requests, u \in Units : DeleteRead(r, u)
    \/ \E r \in Requests : DeleteCommit(r)
    \/ Restart

Spec == Init /\ [][Next]_vars

\* The movement loop runs every three seconds for as long as the process does,
\* and time passes; nothing obliges an operator to act.
Fairness == WF_vars(Advance) /\ \A u \in Units : WF_vars(Tick(u))

FairSpec == Spec /\ Fairness

-----------------------------------------------------------------------------
(* Properties                                                              *)

\* The timeline explains every status ("the mission timeline is derived from
\* that table, never from incident columns alone", dispatch.py:1-3): an
\* incident is acknowledged, dispatched or closed only if an action that leads
\* there is on its timeline.
StatusIsExplained ==
    \A i \in Incidents :
        incident[i].status # "new" =>
            \E action \in Actions : /\ <<i, action>> \in timeline
                                   /\ NextStatus(action) = incident[i].status

\* Timestamps agree with the status, also after late writes.  No incident is
\* worked on that nobody took responsibility for: each way into `dispatched`
\* acknowledges the incident, or is open only to one acknowledged before
\* (set_unit_status, units.py:284, does neither by itself).  And a closed
\* incident carries its closing time.
StampsMatchStatus ==
    \A i \in Incidents :
        /\ incident[i].status \in {"acknowledged", "dispatched"} => incident[i].acknowledged
        /\ incident[i].status \in Closed => incident[i].resolved

\* A unit is linked only to an incident that has an assignment on its timeline
\* and has left the queue of unattended ones, and its response clock runs;
\* however stale the rows were that the assignment was decided on.  A stored
\* route always has the start time the map animates it from.
OnRecord(u) ==
    /\ Linked(u) => /\ <<unit[u].assigned, "assign">> \in timeline
                    /\ incident[unit[u].assigned].status \notin {"new", "acknowledged"}
                    /\ incident[unit[u].assigned].acknowledged
                    /\ unit[u].clock # "none"
    /\ unit[u].eta # NoRoute => unit[u].clock # "none"

RunIsRecorded == \A u \in Units : OnRecord(u)

\* Without operator overrides of a unit's status, a unit linked to an incident
\* counts as busy: it is neither offered by dispatch-options nor deletable.
LinkedIsBusy ==
    PatchStatuses = {} =>
        \A u \in Units : Linked(u) => unit[u].status \in BusyStatuses

\* What an assignment in flight read still holds of the rows it will write, or
\* has become more so: the facts that make its late commit harmless to the
\* properties above.  Its status was open; an incident it saw acknowledged or
\* dispatched has not fallen back; a unit it saw linked elsewhere was not busy.
\* A PATCH in flight writes only what its operator may write.
StillTrue(r) ==
    LET i   == request[r].incident
        saw == request[r].saw
    IN  /\ request[r].kind = "assign" =>
             /\ request[r].sawStatus \notin Closed
             /\ request[r].sawStatus # "new" =>
                   /\ incident[i].acknowledged
                   /\ incident[i].status # "new"
             /\ request[r].sawStatus = "dispatched" =>
                   incident[i].status # "acknowledged"
             /\ saw.status \in BusyStatuses => saw.assigned = i
             /\ PatchStatuses = {} /\ saw.assigned # NoIncident =>
                   saw.status \in BusyStatuses
        /\ request[r].kind = "patch" =>
             request[r].status \in PatchStatuses \union {saw.status}

InFlight == \A r \in Requests : StillTrue(r)

\* The inductive invariant of the specification.
DispatchInv == /\ TypeOK
               /\ StatusIsExplained
               /\ StampsMatchStatus
               /\ RunIsRecorded
               /\ LinkedIsBusy
               /\ InFlight

\* r is an assignment to i that was admitted when i had one of the statuses.
Admitted(r, i, statuses) ==
    /\ request[r].kind = "assign"
    /\ request[r].incident = i
    /\ request[r].sawStatus \in statuses

\* What is true of "acting on a closed incident is always 409": a step changes
\* the status of a closed incident, or links a unit to it, only by finishing
\* an assignment that was admitted while the incident was still open.
ClosedYieldsOnlyToAdmitted ==
    [][\A i \in Incidents : incident[i].status \in Closed =>
          /\ incident'[i].status # incident[i].status =>
                \E r \in Requests : /\ Admitted(r, i, {"new", "acknowledged"})
                                    /\ request'[r] = NoRequest
          /\ \A u \in Units :
                unit'[u].assigned = i /\ unit[u].assigned # i =>
                   \E r \in Requests :
                      /\ Admitted(r, i, {"new", "acknowledged", "dispatched"})
                      /\ request[r].unit = u
                      /\ request'[r] = NoRequest]_vars

\* A unit is idle on paper and still linked to an incident only by the PATCH
\* that wrote its status (units.py:102); no report, no closing, no movement and
\* no stale assignment, which may mix the columns of two runs, leaves it so.
Stranded(u) == Linked(u) /\ unit[u].status \notin BusyStatuses

LinkedIdlesOnlyByPatch ==
    [][\A u \in Units : Stranded(u)' /\ ~ Stranded(u) =>
          \E r \in Requests : /\ request[r].kind = "patch"
                               /\ request[r].unit = u
                               /\ request[r].status # request[r].saw.status
                               /\ request'[r] = NoRequest]_vars

\* Closing an incident leaves no unit behind, however far it had come, and
\* whichever write of its row is under way (dispatch.py:67): a unit comes to be
\* linked to a closed incident only by finishing an assignment that was admitted
\* for both while the incident was open.
LeftBehind(u, i) == unit[u].assigned = i /\ incident[i].status \in Closed

NobodyIsLeftBehind ==
    [][\A u \in Units, i \in Incidents : LeftBehind(u, i)' /\ ~ LeftBehind(u, i) =>
          \E r \in Requests : /\ Admitted(r, i, {"new", "acknowledged", "dispatched"})
                               /\ request[r].unit = u
                               /\ request'[r] = NoRequest]_vars

\* The incident's life is the one module Lifecycle describes.
Promise(r) == IF request[r].kind = "assign"
              THEN [given |-> TRUE, incident |-> request[r].incident,
                    saw |-> request[r].sawStatus]
              ELSE [given |-> FALSE]

Life == INSTANCE Lifecycle WITH
            Outcomes <- Closed,
            stage    <- [i \in Incidents |-> incident[i].status],
            promise  <- [r \in Requests |-> Promise(r)]

LifecycleSpec == Life!Spec

\* A unit on its way with a route is shown on scene in the end, unless the run
\* is cut short: freed, taken over by a new assignment, or set aside by hand.
UnderWay(u) == /\ u \in roster
               /\ Linked(u)
               /\ unit[u].status \in Advancing
               /\ unit[u].eta # NoRoute
               /\ unit[u].clock # "dispatched"

ResponseArrives ==
    \A u \in Units : UnderWay(u) ~> ( \/ unit[u].status = "on_scene"
                                     \/ ~ Linked(u)
                                     \/ unit[u].clock = "dispatched"
                                     \/ unit[u].status \notin BusyStatuses )

-----------------------------------------------------------------------------
(* What the repository says of itself, and races refute                    *)

\* API_CONTRACT.md:308-309: the answer to an assignment is "409 if the incident
\* is closed, if the unit is already committed to a different incident, or if it
\* is inactive", so what is committed is legal when it is committed.
AssignmentsAreLegal ==
    [][\A r \in Requests, eta \in Routes :
          AssignCommit(r, eta) => Assignable(request[r].incident, request[r].unit)]_vars
=============================================================================
