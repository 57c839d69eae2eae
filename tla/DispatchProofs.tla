---------------------------- MODULE DispatchProofs ----------------------------
(***************************************************************************)
(* Theorems about module Dispatch, for every choice of its constants.      *)
(*                                                                         *)
(* DispatchInv is inductive.  Its parts hold each other up: an incident a  *)
(* unit is linked to has been acknowledged (RunIsRecorded), so reporting a *)
(* unit en route never dispatches an unacknowledged incident               *)
(* (StampsMatchStatus); and RunIsRecorded survives an assignment decided   *)
(* on stale rows because of what InFlight keeps of those rows.             *)
(*                                                                         *)
(* From it follow, step by step, that a closed incident gives way only to  *)
(* an assignment admitted while it was open, and that Dispatch keeps what  *)
(* module Lifecycle promises about an incident.                            *)
(***************************************************************************)
EXTENDS Dispatch, TLAPS

-----------------------------------------------------------------------------
(* Lemmas about the operators                                              *)

\* The fields of a request that is an assignment in flight.
LEMMA AssignFields ==
    ASSUME TypeOK, NEW r \in Requests, request[r].kind = "assign"
    PROVE  /\ request[r].incident \in HasFix
           /\ request[r].incident \in Incidents
           /\ request[r].unit \in Units
           /\ request[r].sawStatus \in IncidentStatuses
           /\ request[r].saw.status \in UnitStatuses
           /\ request[r].saw.assigned \in Incidents \union {NoIncident}
           /\ request[r].saw.eta \in Routes \union {NoRoute}
  BY FixAssumption DEF TypeOK, RequestRow, NoRequest

\* The fields of a PATCH in flight.
LEMMA PatchFields ==
    ASSUME TypeOK, NEW r \in Requests, request[r].kind = "patch"
    PROVE  /\ request[r].unit \in Units
           /\ request[r].status \in UnitStatuses
           /\ request[r].active \in BOOLEAN
           /\ request[r].saw.status \in UnitStatuses
           /\ request[r].saw.active \in BOOLEAN
  BY DEF TypeOK, RequestRow, NoRequest

\* The fields of a deletion in flight.
LEMMA DeleteFields ==
    ASSUME TypeOK, NEW r \in Requests, request[r].kind = "delete"
    PROVE  request[r].unit \in Units
  BY DEF TypeOK, RequestRow, NoRequest

\* The columns of a row.
LEMMA UnitFields ==
    ASSUME TypeOK, NEW u \in Units
    PROVE  /\ unit[u].status \in UnitStatuses
           /\ unit[u].assigned \in Incidents \union {NoIncident}
           /\ unit[u].eta \in Routes \union {NoRoute}
           /\ unit[u].clock \in ClockPhases
           /\ unit[u].active \in BOOLEAN
           /\ unit[u] \in UnitRow
  BY DEF TypeOK, UnitRow

LEMMA IncidentFields ==
    ASSUME TypeOK, NEW i \in Incidents
    PROVE  /\ incident[i].status \in IncidentStatuses
           /\ incident[i].acknowledged \in BOOLEAN
           /\ incident[i].resolved \in BOOLEAN
  BY DEF TypeOK, IncidentRow

\* A freed row is a row.
LEMMA ClearedRow ==
    ASSUME NEW row \in UnitRow
    PROVE  /\ ClearDispatchRun(row) \in UnitRow
           /\ ClearDispatchRun(row).assigned = NoIncident
           /\ ClearDispatchRun(row).eta = NoRoute
  BY DEF ClearDispatchRun, UnitRow, UnitStatuses, ClockPhases

LEMMA FreshRow == FreshUnit \in UnitRow /\ FreshUnit.assigned = NoIncident
                                        /\ FreshUnit.eta = NoRoute
  BY DEF FreshUnit, UnitRow, UnitStatuses, ClockPhases

-----------------------------------------------------------------------------
(* Types                                                                   *)

\* Recording an assignment writes well-typed rows.
LEMMA RecordAssignmentTypes ==
    ASSUME TypeOK, NEW i \in Incidents, NEW u \in Units,
           NEW sawStatus \in IncidentStatuses, NEW saw,
           NEW eta \in Routes \union {NoRoute},
           RecordAssignment(i, u, sawStatus, saw, eta)
    PROVE  /\ incident' \in [Incidents -> IncidentRow]
           /\ unit' \in [Units -> UnitRow]
           /\ timeline' \subseteq Incidents \X Actions
<1>1. incident' \in [Incidents -> IncidentRow]
  BY DEF TypeOK, RecordAssignment, Flushed, IncidentRow, IncidentStatuses
<1>2. unit' \in [Units -> UnitRow]
  BY DEF TypeOK, RecordAssignment, Flushed, UnitRow, UnitStatuses, ClockPhases
<1>3. timeline' \subseteq Incidents \X Actions
  BY DEF TypeOK, RecordAssignment, Actions
<1>4. QED BY <1>1, <1>2, <1>3

\* Every step keeps the types.
LEMMA TypeStep == TypeOK /\ [Next]_vars => TypeOK'
<1> SUFFICES ASSUME TypeOK, [Next]_vars PROVE TypeOK'
  OBVIOUS
<1>1. ASSUME NEW i \in Incidents, NEW action \in ManualActions, Apply(i, action)
      PROVE  TypeOK'
  <2>1. action \in Actions
    BY <1>1, InputAssumption
  <2>2. NextStatus(action) \in IncidentStatuses
    BY <2>1 DEF Actions, NextStatus, IncidentStatuses, Closed
  <2>3. incident' \in [Incidents -> IncidentRow]
    BY <1>1, <2>2 DEF Apply, TypeOK, IncidentRow
  <2>4. unit' \in [Units -> UnitRow]
    <3>1. Released(i) \in [Units -> UnitRow]
      BY UnitFields, ClearedRow DEF Released
    <3>2. QED BY <1>1, <3>1 DEF Apply, TypeOK
  <2>5. timeline' \subseteq Incidents \X Actions
    BY <1>1, <2>1 DEF Apply, TypeOK
  <2>6. QED BY <1>1, <2>3, <2>4, <2>5 DEF Apply, TypeOK
<1>2. ASSUME NEW i \in Incidents, NEW u \in Units, AssignUnrouted(i, u)
      PROVE  TypeOK'
  BY <1>2, RecordAssignmentTypes, IncidentFields DEF AssignUnrouted, TypeOK
<1>3. ASSUME NEW r \in Requests, NEW i \in Incidents, NEW u \in Units,
             AssignAdmit(r, i, u)
      PROVE  TypeOK'
  BY <1>3, UnitFields, IncidentFields DEF AssignAdmit, TypeOK, RequestRow
<1>4. ASSUME NEW r \in Requests, NEW eta \in Routes, AssignCommit(r, eta)
      PROVE  TypeOK'
  <2>1. request' \in [Requests -> RequestRow]
    BY <1>4 DEF AssignCommit, Finish, TypeOK, RequestRow
  <2>2. QED
    BY <1>4, <2>1, AssignFields, RecordAssignmentTypes DEF AssignCommit, TypeOK
<1>5. ASSUME NEW u \in Units, NEW status \in Reports, SetUnitStatus(u, status)
      PROVE  TypeOK'
  <2>1. status \in UnitStatuses
    BY <1>5, InputAssumption
  <2>2. unit' \in [Units -> UnitRow]
    <3>1. [unit[u] EXCEPT !.status = status] \in UnitRow
      BY <2>1, UnitFields DEF UnitRow
    <3>2. [ClearDispatchRun(unit[u]) EXCEPT !.status = status] \in UnitRow
      BY <2>1, UnitFields, ClearedRow DEF UnitRow
    <3>3. QED BY <1>5, <3>1, <3>2 DEF SetUnitStatus, TypeOK
  <2>3. incident' \in [Incidents -> IncidentRow]
    BY <1>5, UnitFields DEF SetUnitStatus, TypeOK, IncidentRow, IncidentStatuses, Linked
  <2>4. timeline' \subseteq Incidents \X Actions
    BY <1>5, UnitFields DEF SetUnitStatus, TypeOK, Linked, Actions
  <2>5. QED BY <1>5, <2>2, <2>3, <2>4 DEF SetUnitStatus, TypeOK
<1>6. CASE Advance
  <2>1. \A u \in Overdue : /\ u \in Units
                           /\ unit[u].assigned \in Incidents
                           /\ unit[u].clock \in {"dispatched", "en_route", "on_scene"}
    BY UnitFields DEF Overdue, Linked, TypeOK, ClockPhases
  <2>2. unit' \in [Units -> UnitRow]
    BY <1>6, <2>1, UnitFields DEF Advance, TypeOK, UnitRow, UnitStatuses
  <2>3. timeline' \subseteq Incidents \X Actions
    <3>1. Actions = {"acknowledge", "assign", "en_route", "on_scene", "resolve", "false_alarm"}
      BY DEF Actions
    <3>2. \A u \in Overdue : unit[u].clock \in {"en_route", "on_scene"}
      BY <2>1, UnitFields DEF Overdue, Rank, Advancing
    <3>3. QED BY <1>6, <2>1, <3>1, <3>2 DEF Advance, TypeOK
  <2>4. QED BY <1>6, <2>2, <2>3 DEF Advance, TypeOK
<1>7. ASSUME NEW u \in Units, Tick(u)
      PROVE  TypeOK'
  BY <1>7, UnitFields DEF Tick, TypeOK, UnitRow, ClockPhases
<1>8. ASSUME NEW u \in Units, RegisterUnit(u)
      PROVE  TypeOK'
  BY <1>8, FreshRow DEF RegisterUnit, TypeOK
<1>9. ASSUME NEW r \in Requests, NEW u \in Units, NEW status \in UnitStatuses,
             NEW active \in BOOLEAN, PatchRead(r, u, status, active)
      PROVE  TypeOK'
  BY <1>9, UnitFields DEF PatchRead, TypeOK, RequestRow
<1>10. ASSUME NEW r \in Requests, PatchCommit(r)
       PROVE  TypeOK'
  <2>1. request' \in [Requests -> RequestRow]
    BY <1>10 DEF PatchCommit, Finish, TypeOK, RequestRow
  <2>2. unit' \in [Units -> UnitRow]
    BY <1>10, PatchFields, UnitFields DEF PatchCommit, Flushed, TypeOK, UnitRow
  <2>3. QED BY <1>10, <2>1, <2>2 DEF PatchCommit, TypeOK
<1>11. ASSUME NEW r \in Requests, NEW u \in Units, DeleteRead(r, u)
       PROVE  TypeOK'
  BY <1>11 DEF DeleteRead, TypeOK, RequestRow
<1>12. ASSUME NEW r \in Requests, DeleteCommit(r)
       PROVE  TypeOK'
  <2>1. request' \in [Requests -> RequestRow]
    BY <1>12 DEF DeleteCommit, TypeOK, RequestRow
  <2>2. QED BY <1>12, <2>1, FreshRow DEF DeleteCommit, TypeOK
<1>13. CASE Restart
  BY <1>13 DEF Restart, TypeOK, RequestRow
<1>14. CASE UNCHANGED vars
  BY <1>14 DEF vars, TypeOK
<1>15. QED
  BY <1>1, <1>2, <1>3, <1>4, <1>5, <1>6, <1>7, <1>8, <1>9, <1>10, <1>11, <1>12,
     <1>13, <1>14 DEF Next

\* Every reachable state is well typed.
THEOREM TypeCorrect == Spec => []TypeOK
<1>1. Init => TypeOK
  BY FreshRow DEF Init, TypeOK, IncidentRow, IncidentStatuses, RequestRow
<1>2. QED BY <1>1, TypeStep, PTL DEF Spec

-----------------------------------------------------------------------------
(* What every step keeps                                                   *)

\* No step returns an incident to an earlier stage of attention, unmakes its
\* acknowledgement, or removes anything from the timeline.
Progress ==
    /\ timeline \subseteq timeline'
    /\ \A i \in Incidents :
         /\ incident[i].acknowledged => incident'[i].acknowledged
         /\ incident[i].status # "new" => incident'[i].status # "new"
         /\ incident[i].status \notin {"new", "acknowledged"} =>
               incident'[i].status \notin {"new", "acknowledged"}

\* A recorded assignment dispatches the incident, or leaves a status that was
\* already dispatched when the request read it; it never reads as a regression.
LEMMA RecordAssignmentProgress ==
    ASSUME TypeOK, NEW i \in Incidents, NEW u \in Units, NEW sawStatus, NEW saw, NEW eta,
           RecordAssignment(i, u, sawStatus, saw, eta)
    PROVE  Progress
  BY DEF RecordAssignment, Flushed, Progress, TypeOK, IncidentRow

LEMMA StepProgress == TypeOK /\ [Next]_vars => Progress
<1> SUFFICES ASSUME TypeOK, [Next]_vars PROVE Progress
  OBVIOUS
<1>1. ASSUME NEW i \in Incidents, NEW action \in ManualActions, Apply(i, action)
      PROVE  Progress
  <2>1. action \in Actions
    BY <1>1, InputAssumption
  <2>2. /\ incident[i].status \in Allowed(action)
        /\ incident'[i].status = NextStatus(action)
        /\ incident'[i].acknowledged =
              (incident[i].acknowledged \/ action = "acknowledge")
        /\ \A j \in Incidents : j # i => incident'[j] = incident[j]
        /\ timeline \subseteq timeline'
    BY <1>1 DEF Apply, TypeOK
  <2>3. /\ NextStatus(action) # "new"
        /\ NextStatus(action) = "acknowledged" => Allowed(action) = {"new"}
    BY <2>1 DEF NextStatus, Allowed, Actions
  <2>4. QED BY <2>2, <2>3 DEF Progress
<1>2. ASSUME NEW i \in Incidents, NEW u \in Units, AssignUnrouted(i, u)
      PROVE  Progress
  BY <1>2, RecordAssignmentProgress DEF AssignUnrouted
<1>3. ASSUME NEW r \in Requests, NEW eta \in Routes, AssignCommit(r, eta)
      PROVE  Progress
  BY <1>3, AssignFields, RecordAssignmentProgress DEF AssignCommit
<1>4. ASSUME NEW u \in Units, NEW status \in Reports, SetUnitStatus(u, status)
      PROVE  Progress
  BY <1>4 DEF SetUnitStatus, Progress, TypeOK, IncidentRow
<1>5. CASE Advance
  BY <1>5 DEF Advance, Progress
<1>6. CASE UNCHANGED <<incident, timeline>>
  BY <1>6 DEF Progress
<1>7. CASE UNCHANGED vars
  BY <1>7 DEF vars, Progress
<1>8. QED
  BY <1>1, <1>2, <1>3, <1>4, <1>5, <1>6, <1>7
  DEF Next, AssignAdmit, Tick, RegisterUnit, PatchRead, PatchCommit, DeleteRead,
      DeleteCommit, Restart

\* Progress alone keeps what requests in flight rely on, as long as no request
\* is admitted.
LEMMA InFlightKept ==
    ASSUME TypeOK, InFlight, Progress,
           \A r \in Requests : request'[r] \in {request[r], NoRequest}
    PROVE  InFlight'
<1> SUFFICES ASSUME NEW r \in Requests, request'[r] = request[r]
             PROVE  StillTrue(r)'
  BY DEF InFlight, StillTrue, NoRequest
<1>1. CASE request[r].kind = "assign"
  BY <1>1, AssignFields DEF InFlight, StillTrue, Progress
<1>2. CASE request[r].kind # "assign"
  BY <1>2 DEF InFlight, StillTrue
<1>3. QED BY <1>1, <1>2

\* A unit whose link, route and clock a step leaves alone, or clears, or whose
\* clock only moves on, stays on the record.
LEMMA RunKept ==
    ASSUME TypeOK, RunIsRecorded, Progress, NEW u \in Units,
           \/ /\ unit'[u].assigned = unit[u].assigned
              /\ unit'[u].eta = unit[u].eta
              /\ unit[u].clock # "none" => unit'[u].clock # "none"
           \/ /\ unit'[u].assigned = NoIncident
              /\ unit'[u].eta = NoRoute
    PROVE  OnRecord(u)'
  BY UnitFields DEF RunIsRecorded, OnRecord, Progress, Linked

-----------------------------------------------------------------------------
(* The inductive invariant                                                 *)

\* What one recorded assignment does to the four conjuncts, from facts that
\* hold both at once (no await) and for a request that waited for its route.
LEMMA RecordAssignmentKeeps ==
    ASSUME TypeOK, StatusIsExplained, StampsMatchStatus, RunIsRecorded, LinkedIsBusy,
           NEW i \in Incidents, NEW u \in Units,
           NEW sawStatus \in IncidentStatuses, NEW saw,
           NEW eta \in Routes \union {NoRoute},
           RecordAssignment(i, u, sawStatus, saw, eta),
           sawStatus # "new" => /\ incident[i].acknowledged
                                /\ incident[i].status # "new",
           sawStatus = "dispatched" => incident[i].status # "acknowledged",
           saw.status \in BusyStatuses => saw.assigned = i,
           PatchStatuses = {} /\ saw.assigned # NoIncident => saw.status \in BusyStatuses
    PROVE  /\ StatusIsExplained'
           /\ StampsMatchStatus'
           /\ RunIsRecorded'
           /\ LinkedIsBusy'
<1>1. Progress
  BY RecordAssignmentProgress
<1>2. /\ incident'[i].status \in {"dispatched", incident[i].status}
      /\ incident'[i].status \notin {"new", "acknowledged"}
      /\ incident'[i].acknowledged
      /\ incident'[i].resolved = incident[i].resolved
      /\ \A j \in Incidents : j # i => incident'[j] = incident[j]
      /\ <<i, "assign">> \in timeline'
  BY IncidentFields DEF RecordAssignment, Flushed, TypeOK, IncidentRow
<1>3. /\ unit'[u].assigned = IF i = saw.assigned THEN unit[u].assigned ELSE i
      /\ unit'[u].status = IF saw.status = "dispatched" THEN unit[u].status ELSE "dispatched"
      /\ unit'[u].clock = "dispatched"
      /\ \A v \in Units : v # u => unit'[v] = unit[v]
  BY DEF RecordAssignment, Flushed, TypeOK, UnitRow
<1>4. StatusIsExplained'
  <2>1. NextStatus("assign") = "dispatched" /\ "assign" \in Actions
    BY DEF NextStatus, Actions
  <2>2. QED BY <1>1, <1>2, <2>1 DEF StatusIsExplained, Progress
<1>5. StampsMatchStatus'
  BY <1>2 DEF StampsMatchStatus, Closed
<1>6. RunIsRecorded'
  <2> SUFFICES ASSUME NEW v \in Units PROVE OnRecord(v)'
    BY DEF RunIsRecorded
  <2>1. CASE v # u
    BY <2>1, <1>1, <1>3, RunKept
  <2>2. CASE v = u /\ i = saw.assigned
    BY <2>2, <1>1, <1>3, UnitFields DEF RunIsRecorded, OnRecord, Progress, Linked
  <2>3. CASE v = u /\ i # saw.assigned
    BY <2>3, <1>2, <1>3 DEF OnRecord, Linked
  <2>4. QED BY <2>1, <2>2, <2>3
<1>7. LinkedIsBusy'
  BY <1>3 DEF LinkedIsBusy, Linked, BusyStatuses
<1>8. QED BY <1>4, <1>5, <1>6, <1>7

\* No step breaks the inductive invariant.
LEMMA InvStep == DispatchInv /\ [Next]_vars => DispatchInv'
<1> SUFFICES ASSUME DispatchInv, [Next]_vars PROVE DispatchInv'
  OBVIOUS
<1> USE DEF DispatchInv
<1>1. TypeOK' /\ Progress
  BY TypeStep, StepProgress
<1>2. ASSUME NEW i \in Incidents, NEW action \in ManualActions, Apply(i, action)
      PROVE  DispatchInv'
  <2>1. action \in Actions
    BY <1>2, InputAssumption
  <2>2. /\ incident[i].status \in Allowed(action)
        /\ incident'[i].status = NextStatus(action)
        /\ incident'[i].acknowledged =
              (incident[i].acknowledged \/ action = "acknowledge")
        /\ incident'[i].resolved =
              (incident[i].resolved \/ NextStatus(action) \in Closed)
        /\ \A j \in Incidents : j # i => incident'[j] = incident[j]
        /\ <<i, action>> \in timeline'
        /\ request' = request
    BY <1>2 DEF Apply, TypeOK
  <2>3. StatusIsExplained'
    BY <1>1, <2>1, <2>2 DEF StatusIsExplained, Progress
  <2>4. StampsMatchStatus'
    <3>1. \/ action = "acknowledge"
          \/ NextStatus(action) \in Closed
          \/ incident[i].acknowledged
      BY <2>1, <2>2 DEF Actions, NextStatus, Allowed, Closed, StampsMatchStatus
    <3>2. NextStatus(action) \in {"acknowledged", "dispatched"} =>
             NextStatus(action) \notin Closed
      BY DEF Closed
    <3>3. QED BY <2>2, <3>1, <3>2 DEF StampsMatchStatus
  <2>5. \A u \in Units : unit'[u] \in {unit[u], ClearDispatchRun(unit[u])}
    BY <1>2 DEF Apply, Released
  <2>6. RunIsRecorded'
    BY <1>1, <2>5, UnitFields, ClearedRow, RunKept DEF RunIsRecorded
  <2>7. LinkedIsBusy'
    BY <2>5, UnitFields, ClearedRow DEF LinkedIsBusy, Linked
  <2>8. InFlight'
    BY <1>1, <2>2, InFlightKept
  <2>9. QED BY <1>1, <2>3, <2>4, <2>6, <2>7, <2>8
<1>3. ASSUME NEW i \in Incidents, NEW u \in Units, AssignUnrouted(i, u)
      PROVE  DispatchInv'
  <2>1. /\ incident[i].status = "dispatched" => incident[i].acknowledged
        /\ incident[i].status = "acknowledged" => incident[i].acknowledged
        /\ incident[i].status \in {"new", "acknowledged", "dispatched"}
    BY <1>3, IncidentFields
    DEF AssignUnrouted, Assignable, StampsMatchStatus, IncidentStatuses, Closed
  <2>2. /\ unit[u].status \in BusyStatuses => unit[u].assigned = i
        /\ PatchStatuses = {} /\ unit[u].assigned # NoIncident =>
              unit[u].status \in BusyStatuses
    BY <1>3 DEF AssignUnrouted, Assignable, LinkedIsBusy, Linked
  <2>3. /\ StatusIsExplained'
        /\ StampsMatchStatus'
        /\ RunIsRecorded'
        /\ LinkedIsBusy'
    BY <1>3, <2>1, <2>2, IncidentFields, RecordAssignmentKeeps DEF AssignUnrouted
  <2>4. InFlight'
    BY <1>1, <1>3, InFlightKept DEF AssignUnrouted
  <2>5. QED BY <1>1, <2>3, <2>4
<1>4. ASSUME NEW r \in Requests, NEW i \in Incidents, NEW u \in Units,
             AssignAdmit(r, i, u)
      PROVE  DispatchInv'
  <2>1. UNCHANGED <<incident, unit, timeline>>
    BY <1>4 DEF AssignAdmit
  <2>2. StatusIsExplained' /\ StampsMatchStatus' /\ RunIsRecorded' /\ LinkedIsBusy'
    BY <2>1 DEF StatusIsExplained, StampsMatchStatus, RunIsRecorded, OnRecord,
                LinkedIsBusy, Linked
  <2>3. StillTrue(r)'
    <3>1. /\ request'[r].kind = "assign"
          /\ request'[r].incident = i
          /\ request'[r].sawStatus = incident[i].status
          /\ request'[r].saw.status = unit[u].status
          /\ request'[r].saw.assigned = unit[u].assigned
      BY <1>4 DEF AssignAdmit, TypeOK
    <3>2. QED
      BY <1>4, <2>1, <3>1, IncidentFields
      DEF AssignAdmit, Assignable, StillTrue, StampsMatchStatus, LinkedIsBusy, Linked,
          IncidentStatuses, Closed
  <2>4. \A q \in Requests : q # r => request'[q] = request[q]
    BY <1>4 DEF AssignAdmit, TypeOK
  <2>5. InFlight'
    BY <2>1, <2>3, <2>4 DEF InFlight, StillTrue
  <2>6. QED BY <1>1, <2>2, <2>5
<1>5. ASSUME NEW r \in Requests, NEW eta \in Routes, AssignCommit(r, eta)
      PROVE  DispatchInv'
  <2>1. /\ StatusIsExplained'
        /\ StampsMatchStatus'
        /\ RunIsRecorded'
        /\ LinkedIsBusy'
    BY <1>5, AssignFields, RecordAssignmentKeeps DEF AssignCommit, InFlight, StillTrue
  <2>2. InFlight'
    BY <1>1, <1>5, InFlightKept DEF AssignCommit, Finish, TypeOK
  <2>3. QED BY <1>1, <2>1, <2>2
<1>6. ASSUME NEW u \in Units, NEW status \in Reports, SetUnitStatus(u, status)
      PROVE  DispatchInv'
  <2>1. Linked(u) => /\ unit[u].assigned \in Incidents
                     /\ incident[unit[u].assigned].status \notin {"new", "acknowledged"}
    BY UnitFields DEF RunIsRecorded, OnRecord, Linked
  <2>2. incident' = incident /\ request' = request
    BY <1>6, <2>1 DEF SetUnitStatus
  <2>3. StatusIsExplained' /\ StampsMatchStatus'
    BY <1>1, <2>2 DEF StatusIsExplained, StampsMatchStatus, Progress
  <2>4. \A v \in Units : v # u => unit'[v] = unit[v]
    BY <1>6 DEF SetUnitStatus, TypeOK
  <2>5. \/ /\ unit'[u].assigned = unit[u].assigned
           /\ unit'[u].eta = unit[u].eta
           /\ unit'[u].clock = unit[u].clock
           /\ unit'[u].status \in BusyStatuses
        \/ /\ unit'[u].assigned = NoIncident
           /\ unit'[u].eta = NoRoute
    <3>1. CASE status \in BusyStatuses
      BY <1>6, <3>1 DEF SetUnitStatus, TypeOK, UnitRow
    <3>2. CASE status \notin BusyStatuses
      BY <1>6, <3>2 DEF SetUnitStatus, ClearDispatchRun, TypeOK, UnitRow
    <3>3. QED BY <3>1, <3>2
  <2>6. RunIsRecorded'
    BY <1>1, <2>4, <2>5, RunKept DEF RunIsRecorded
  <2>7. LinkedIsBusy'
    BY <2>4, <2>5 DEF LinkedIsBusy, Linked
  <2>8. InFlight'
    BY <1>1, <2>2, InFlightKept
  <2>9. QED BY <1>1, <2>3, <2>6, <2>7, <2>8
<1>7. CASE Advance
  <2>1. incident' = incident /\ request' = request
    BY <1>7 DEF Advance
  <2>2. StatusIsExplained' /\ StampsMatchStatus'
    BY <1>1, <2>1 DEF StatusIsExplained, StampsMatchStatus, Progress
  <2>3. \A u \in Units : /\ unit'[u].assigned = unit[u].assigned
                         /\ unit'[u].eta = unit[u].eta
                         /\ unit'[u].clock = unit[u].clock
                         /\ u \notin Overdue => unit'[u] = unit[u]
                         /\ u \in Overdue => unit'[u].status = unit[u].clock
    BY <1>7, UnitFields DEF Advance, UnitRow
  <2>4. RunIsRecorded'
    BY <1>1, <2>3, RunKept DEF RunIsRecorded
  <2>5. \A u \in Overdue : unit[u].clock \in BusyStatuses
    BY UnitFields DEF Overdue, BusyStatuses, ClockPhases, TypeOK
  <2>6. LinkedIsBusy'
    BY <2>3, <2>5 DEF LinkedIsBusy, Linked
  <2>7. InFlight'
    BY <1>1, <2>1, InFlightKept
  <2>8. QED BY <1>1, <2>2, <2>4, <2>6, <2>7
<1>8. ASSUME NEW u \in Units, Tick(u)
      PROVE  DispatchInv'
  <2>1. /\ UNCHANGED <<incident, timeline, request>>
        /\ \A v \in Units : /\ unit'[v].assigned = unit[v].assigned
                            /\ unit'[v].eta = unit[v].eta
                            /\ unit[v].clock # "none" => unit'[v].clock # "none"
                            /\ unit'[v].status = unit[v].status
    BY <1>8, UnitFields DEF Tick, TypeOK, UnitRow
  <2>2. StatusIsExplained' /\ StampsMatchStatus'
    BY <2>1 DEF StatusIsExplained, StampsMatchStatus
  <2>3. RunIsRecorded'
    BY <1>1, <2>1, RunKept DEF RunIsRecorded
  <2>4. LinkedIsBusy'
    BY <2>1 DEF LinkedIsBusy, Linked
  <2>5. InFlight'
    BY <1>1, <2>1, InFlightKept
  <2>6. QED BY <1>1, <2>2, <2>3, <2>4, <2>5
<1>9. ASSUME NEW u \in Units, RegisterUnit(u)
      PROVE  DispatchInv'
  <2>1. /\ UNCHANGED <<incident, timeline, request>>
        /\ \A v \in Units : unit'[v] \in {unit[v], FreshUnit}
    BY <1>9 DEF RegisterUnit, TypeOK
  <2>2. StatusIsExplained' /\ StampsMatchStatus'
    BY <2>1 DEF StatusIsExplained, StampsMatchStatus
  <2>3. RunIsRecorded'
    BY <1>1, <2>1, FreshRow, RunKept DEF RunIsRecorded
  <2>4. LinkedIsBusy'
    BY <2>1, FreshRow DEF LinkedIsBusy, Linked
  <2>5. InFlight'
    BY <1>1, <2>1, InFlightKept
  <2>6. QED BY <1>1, <2>2, <2>3, <2>4, <2>5
<1>10. ASSUME NEW r \in Requests, NEW u \in Units, NEW status \in UnitStatuses,
              NEW active \in BOOLEAN, PatchRead(r, u, status, active)
       PROVE  DispatchInv'
  <2>1. UNCHANGED <<incident, unit, timeline>>
    BY <1>10 DEF PatchRead
  <2>2. StatusIsExplained' /\ StampsMatchStatus' /\ RunIsRecorded' /\ LinkedIsBusy'
    BY <2>1 DEF StatusIsExplained, StampsMatchStatus, RunIsRecorded, OnRecord,
                LinkedIsBusy, Linked
  <2>3. StillTrue(r)'
    <3>1. /\ request'[r].kind = "patch"
          /\ request'[r].status = status
          /\ request'[r].saw.status = unit[u].status
      BY <1>10 DEF PatchRead, TypeOK
    <3>2. QED BY <1>10, <3>1 DEF PatchRead, StillTrue
  <2>4. \A q \in Requests : q # r => request'[q] = request[q]
    BY <1>10 DEF PatchRead, TypeOK
  <2>5. InFlight'
    BY <2>1, <2>3, <2>4 DEF InFlight, StillTrue
  <2>6. QED BY <1>1, <2>2, <2>5
<1>11. ASSUME NEW r \in Requests, PatchCommit(r)
       PROVE  DispatchInv'
  <2>1. /\ UNCHANGED <<incident, timeline>>
        /\ \A v \in Units : /\ unit'[v].assigned = unit[v].assigned
                            /\ unit'[v].eta = unit[v].eta
                            /\ unit'[v].clock = unit[v].clock
                            /\ PatchStatuses = {} => unit'[v].status = unit[v].status
    BY <1>11, PatchFields, UnitFields
    DEF PatchCommit, Flushed, TypeOK, UnitRow, InFlight, StillTrue
  <2>2. StatusIsExplained' /\ StampsMatchStatus'
    BY <2>1 DEF StatusIsExplained, StampsMatchStatus
  <2>3. RunIsRecorded'
    BY <1>1, <2>1, RunKept DEF RunIsRecorded
  <2>4. LinkedIsBusy'
    BY <2>1 DEF LinkedIsBusy, Linked
  <2>5. InFlight'
    BY <1>1, <1>11, InFlightKept DEF PatchCommit, Finish, TypeOK
  <2>6. QED BY <1>1, <2>2, <2>3, <2>4, <2>5
<1>12. ASSUME NEW r \in Requests, NEW u \in Units, DeleteRead(r, u)
       PROVE  DispatchInv'
  <2>1. UNCHANGED <<incident, unit, timeline>>
    BY <1>12 DEF DeleteRead
  <2>2. StatusIsExplained' /\ StampsMatchStatus' /\ RunIsRecorded' /\ LinkedIsBusy'
    BY <2>1 DEF StatusIsExplained, StampsMatchStatus, RunIsRecorded, OnRecord,
                LinkedIsBusy, Linked
  <2>3. /\ request'[r].kind = "delete"
        /\ \A q \in Requests : q # r => request'[q] = request[q]
    BY <1>12 DEF DeleteRead, TypeOK
  <2>4. InFlight'
    BY <2>1, <2>3 DEF InFlight, StillTrue
  <2>5. QED BY <1>1, <2>2, <2>4
<1>13. ASSUME NEW r \in Requests, DeleteCommit(r)
       PROVE  DispatchInv'
  <2>1. /\ UNCHANGED <<incident, timeline>>
        /\ \A v \in Units : unit'[v] \in {unit[v], FreshUnit}
        /\ \A q \in Requests : request'[q] \in {request[q], NoRequest}
    BY <1>13 DEF DeleteCommit, TypeOK
  <2>2. StatusIsExplained' /\ StampsMatchStatus'
    BY <2>1 DEF StatusIsExplained, StampsMatchStatus
  <2>3. RunIsRecorded'
    BY <1>1, <2>1, FreshRow, RunKept DEF RunIsRecorded
  <2>4. LinkedIsBusy'
    BY <2>1, FreshRow DEF LinkedIsBusy, Linked
  <2>5. InFlight'
    BY <1>1, <2>1, InFlightKept
  <2>6. QED BY <1>1, <2>2, <2>3, <2>4, <2>5
<1>14. CASE Restart
  <2>1. /\ UNCHANGED <<incident, unit, timeline>>
        /\ \A q \in Requests : request'[q] = NoRequest
    BY <1>14 DEF Restart
  <2>2. StatusIsExplained' /\ StampsMatchStatus' /\ RunIsRecorded' /\ LinkedIsBusy'
    BY <2>1 DEF StatusIsExplained, StampsMatchStatus, RunIsRecorded, OnRecord,
                LinkedIsBusy, Linked
  <2>3. InFlight'
    BY <1>1, <2>1, InFlightKept
  <2>4. QED BY <1>1, <2>2, <2>3
<1>15. CASE UNCHANGED vars
  BY <1>1, <1>15 DEF vars, StatusIsExplained, StampsMatchStatus, RunIsRecorded, OnRecord,
                     LinkedIsBusy, Linked, InFlight, StillTrue
<1>16. QED
  BY <1>2, <1>3, <1>4, <1>5, <1>6, <1>7, <1>8, <1>9, <1>10, <1>11, <1>12, <1>13,
     <1>14, <1>15 DEF Next

LEMMA InvInit == Init => DispatchInv
<1> SUFFICES ASSUME Init PROVE DispatchInv
  OBVIOUS
<1>1. TypeOK
  BY FreshRow DEF Init, TypeOK, IncidentRow, IncidentStatuses, RequestRow
<1>2. StatusIsExplained /\ StampsMatchStatus
  BY DEF Init, StatusIsExplained, StampsMatchStatus, Closed
<1>3. RunIsRecorded /\ LinkedIsBusy
  BY FreshRow DEF Init, RunIsRecorded, OnRecord, LinkedIsBusy, Linked
<1>4. InFlight
  BY DEF Init, InFlight, StillTrue, NoRequest
<1>5. QED BY <1>1, <1>2, <1>3, <1>4 DEF DispatchInv

\* The invariant all safety results rest on: it holds in every reachable state.
THEOREM Invariance == Spec => []DispatchInv
<1>1. QED BY InvInit, InvStep, PTL DEF Spec

\* The timeline explains every status, with any number of incidents, units and
\* concurrent requests.
THEOREM TimelineExplains == Spec => []StatusIsExplained
<1>1. DispatchInv => StatusIsExplained
  BY DEF DispatchInv
<1>2. QED BY <1>1, Invariance, PTL

\* Nothing is dispatched that was not acknowledged; what is closed is stamped.
THEOREM StampsHold == Spec => []StampsMatchStatus
<1>1. DispatchInv => StampsMatchStatus
  BY DEF DispatchInv
<1>2. QED BY <1>1, Invariance, PTL

\* A link is backed by an assignment on the timeline, whatever races made it.
THEOREM RunsAreRecorded == Spec => []RunIsRecorded
<1>1. DispatchInv => RunIsRecorded
  BY DEF DispatchInv
<1>2. QED BY <1>1, Invariance, PTL

\* Without operator overrides of the status, linked units count as busy: the
\* state in which OnlyAPatchIdles leaves them if no PATCH writes a status.
THEOREM LinkedUnitsAreBusy == Spec => []LinkedIsBusy
<1>1. DispatchInv => LinkedIsBusy
  BY DEF DispatchInv
<1>2. QED BY <1>1, Invariance, PTL

-----------------------------------------------------------------------------
(* Closed incidents                                                        *)

\* The body of ClosedYieldsOnlyToAdmitted, for one incident.
Yields(i) ==
    incident[i].status \in Closed =>
       /\ incident'[i].status # incident[i].status =>
             \E r \in Requests : /\ Admitted(r, i, {"new", "acknowledged"})
                                 /\ request'[r] = NoRequest
       /\ \A u \in Units :
             unit'[u].assigned = i /\ unit[u].assigned # i =>
                \E r \in Requests :
                   /\ Admitted(r, i, {"new", "acknowledged", "dispatched"})
                   /\ request[r].unit = u
                   /\ request'[r] = NoRequest

LEMMA YieldStep ==
    ASSUME DispatchInv, [Next]_vars, NEW i \in Incidents
    PROVE  Yields(i)
<1> SUFFICES ASSUME incident[i].status \in Closed PROVE Yields(i)
  BY DEF Yields
<1> USE DEF DispatchInv
<1>1. ASSUME NEW j \in Incidents, NEW action \in ManualActions, Apply(j, action)
      PROVE  Yields(i)
  <2>1. j # i
    BY <1>1, InputAssumption DEF Apply, Allowed, Actions, Closed
  <2>2. incident'[i] = incident[i]
    BY <1>1, <2>1 DEF Apply, TypeOK
  <2>3. \A u \in Units : unit'[u].assigned \in {unit[u].assigned, NoIncident}
    BY <1>1, UnitFields, ClearedRow DEF Apply, Released
  <2>4. QED BY <2>2, <2>3, NullAssumption DEF Yields
<1>2. ASSUME NEW j \in Incidents, NEW u \in Units, AssignUnrouted(j, u)
      PROVE  Yields(i)
  <2>1. j # i
    BY <1>2 DEF AssignUnrouted, Assignable
  <2>2. /\ incident'[i] = incident[i]
        /\ \A v \in Units : unit'[v].assigned \in {unit[v].assigned, j}
    BY <1>2, <2>1 DEF AssignUnrouted, RecordAssignment, Flushed, TypeOK, UnitRow
  <2>3. QED BY <2>1, <2>2 DEF Yields
<1>3. ASSUME NEW r \in Requests, NEW eta \in Routes, AssignCommit(r, eta)
      PROVE  Yields(i)
  <2> DEFINE j == request[r].incident
             u == request[r].unit
  <2>1. /\ j \in Incidents
        /\ u \in Units
        /\ request[r].sawStatus \in {"new", "acknowledged", "dispatched"}
    BY <1>3, AssignFields
    DEF AssignCommit, InFlight, StillTrue, IncidentStatuses, Closed
  <2>2. /\ request[r].kind = "assign"
        /\ request'[r] = NoRequest
        /\ \A k \in Incidents : k # j => incident'[k] = incident[k]
        /\ request[r].sawStatus = "dispatched" => incident'[j].status = incident[j].status
        /\ \A v \in Units : v # u => unit'[v] = unit[v]
        /\ unit'[u].assigned \in {unit[u].assigned, j}
    BY <1>3, <2>1
    DEF AssignCommit, RecordAssignment, Finish, Flushed, TypeOK, UnitRow, IncidentRow
  <2>3. CASE i = j
    BY <2>1, <2>2, <2>3 DEF Yields, Admitted
  <2>4. CASE i # j
    BY <2>1, <2>2, <2>4 DEF Yields
  <2>5. QED BY <2>3, <2>4
<1>4. ASSUME NEW u \in Units, NEW status \in Reports, SetUnitStatus(u, status)
      PROVE  Yields(i)
  <2>1. incident'[i].status = incident[i].status
    BY <1>4 DEF SetUnitStatus, TypeOK, IncidentRow, Closed
  <2>2. \A v \in Units : unit'[v].assigned \in {unit[v].assigned, NoIncident}
    BY <1>4 DEF SetUnitStatus, ClearDispatchRun, TypeOK, UnitRow
  <2>3. QED BY <2>1, <2>2, NullAssumption DEF Yields
<1>5. CASE Advance
  BY <1>5, UnitFields DEF Advance, Yields, UnitRow
<1>6. ASSUME NEW u \in Units, Tick(u)
      PROVE  Yields(i)
  BY <1>6 DEF Tick, Yields, TypeOK, UnitRow
<1>7. ASSUME NEW u \in Units, RegisterUnit(u)
      PROVE  Yields(i)
  BY <1>7, FreshRow, NullAssumption DEF RegisterUnit, Yields, TypeOK
<1>8. ASSUME NEW r \in Requests, PatchCommit(r)
      PROVE  Yields(i)
  BY <1>8, PatchFields DEF PatchCommit, Yields, TypeOK, UnitRow
<1>9. ASSUME NEW r \in Requests, DeleteCommit(r)
      PROVE  Yields(i)
  BY <1>9, DeleteFields, FreshRow, NullAssumption DEF DeleteCommit, Yields, TypeOK
<1>10. CASE UNCHANGED <<incident, unit>>
  BY <1>10 DEF Yields
<1>11. CASE UNCHANGED vars
  BY <1>11 DEF vars, Yields
<1>12. QED
  BY <1>1, <1>2, <1>3, <1>4, <1>5, <1>6, <1>7, <1>8, <1>9, <1>10, <1>11
  DEF Next, AssignAdmit, PatchRead, DeleteRead, Restart

\* A closed incident changes status, or gains a unit, only when an assignment
\* that was admitted while it was open is recorded late.
THEOREM ClosedYields == Spec => ClosedYieldsOnlyToAdmitted
<1>1. DispatchInv /\ [Next]_vars => [\A i \in Incidents : Yields(i)]_vars
  BY YieldStep
<1>2. [\A i \in Incidents : Yields(i)]_vars =>
         [\A i \in Incidents : incident[i].status \in Closed =>
            /\ incident'[i].status # incident[i].status =>
                  \E r \in Requests : /\ Admitted(r, i, {"new", "acknowledged"})
                                      /\ request'[r] = NoRequest
            /\ \A u \in Units :
                  unit'[u].assigned = i /\ unit[u].assigned # i =>
                     \E r \in Requests :
                        /\ Admitted(r, i, {"new", "acknowledged", "dispatched"})
                        /\ request[r].unit = u
                        /\ request'[r] = NoRequest]_vars
  BY DEF Yields
<1>3. QED BY <1>1, <1>2, Invariance, PTL DEF Spec, ClosedYieldsOnlyToAdmitted

-----------------------------------------------------------------------------
(* Units                                                                   *)

\* The body of LinkedIdlesOnlyByPatch, for one unit.
Idles(u) ==
    Stranded(u)' /\ ~ Stranded(u) =>
       \E r \in Requests : /\ request[r].kind = "patch"
                            /\ request[r].unit = u
                            /\ request[r].status # request[r].saw.status
                            /\ request'[r] = NoRequest

\* The body of NobodyIsLeftBehind, for one unit and one incident.
Leaves(u, i) ==
    LeftBehind(u, i)' /\ ~ LeftBehind(u, i) =>
       \E r \in Requests : /\ Admitted(r, i, {"new", "acknowledged", "dispatched"})
                            /\ request[r].unit = u
                            /\ request'[r] = NoRequest

\* What a recorded assignment does to its unit's row: it writes the status, or
\* leaves both the status and the link to others.
LEMMA RecordAssignmentIdlesNobody ==
    ASSUME TypeOK, NEW i \in Incidents, NEW v \in Units, NEW sawStatus, NEW saw, NEW eta,
           RecordAssignment(i, v, sawStatus, saw, eta),
           saw.status \in BusyStatuses => saw.assigned = i,
           NEW u \in Units
    PROVE  Stranded(u)' => Stranded(u)
<1>1. /\ unit'[v].assigned = IF i = saw.assigned THEN unit[v].assigned ELSE i
      /\ unit'[v].status = IF saw.status = "dispatched" THEN unit[v].status ELSE "dispatched"
      /\ u # v => unit'[u] = unit[u]
  BY DEF RecordAssignment, Flushed, TypeOK, UnitRow
<1>2. CASE saw.status = "dispatched"
  BY <1>1, <1>2 DEF Stranded, Linked, BusyStatuses
<1>3. CASE saw.status # "dispatched"
  BY <1>1, <1>3 DEF Stranded, Linked, BusyStatuses
<1>4. QED BY <1>2, <1>3

LEMMA IdleStep ==
    ASSUME DispatchInv, [Next]_vars, NEW u \in Units
    PROVE  Idles(u)
<1> USE DEF DispatchInv
<1>1. ASSUME NEW i \in Incidents, NEW action \in ManualActions, Apply(i, action)
      PROVE  Idles(u)
  <2>1. unit'[u] \in {unit[u], ClearDispatchRun(unit[u])}
    BY <1>1 DEF Apply, Released
  <2>2. QED BY <2>1, UnitFields, ClearedRow DEF Idles, Stranded, Linked
<1>2. ASSUME NEW i \in Incidents, NEW v \in Units, AssignUnrouted(i, v)
      PROVE  Idles(u)
  <2>1. unit[v].status \in BusyStatuses => unit[v].assigned = i
    BY <1>2 DEF AssignUnrouted, Assignable
  <2>2. QED BY <1>2, <2>1, RecordAssignmentIdlesNobody DEF AssignUnrouted, Idles
<1>3. ASSUME NEW r \in Requests, NEW eta \in Routes, AssignCommit(r, eta)
      PROVE  Idles(u)
  <2>1. /\ request[r].incident \in Incidents /\ request[r].unit \in Units
        /\ request[r].saw.status \in BusyStatuses =>
              request[r].saw.assigned = request[r].incident
    BY <1>3, AssignFields DEF AssignCommit, InFlight, StillTrue
  <2>2. QED BY <1>3, <2>1, RecordAssignmentIdlesNobody DEF AssignCommit, Idles
<1>4. ASSUME NEW v \in Units, NEW status \in Reports, SetUnitStatus(v, status)
      PROVE  Idles(u)
  <2>1. u # v => unit'[u] = unit[u]
    BY <1>4 DEF SetUnitStatus, TypeOK
  <2>2. unit'[v].status \in BusyStatuses \/ unit'[v].assigned = NoIncident
    <3>1. CASE status \in BusyStatuses
      BY <1>4, <3>1 DEF SetUnitStatus, TypeOK, UnitRow
    <3>2. CASE status \notin BusyStatuses
      BY <1>4, <3>2 DEF SetUnitStatus, ClearDispatchRun, TypeOK, UnitRow
    <3>3. QED BY <3>1, <3>2
  <2>3. QED BY <2>1, <2>2 DEF Idles, Stranded, Linked
<1>5. CASE Advance
  <2>1. /\ unit'[u].assigned = unit[u].assigned
        /\ u \notin Overdue => unit'[u] = unit[u]
        /\ u \in Overdue => unit'[u].status = unit[u].clock
    BY <1>5, UnitFields DEF Advance, UnitRow
  <2>2. u \in Overdue => unit[u].clock \in BusyStatuses
    BY UnitFields DEF Overdue, BusyStatuses, ClockPhases, TypeOK
  <2>3. QED BY <2>1, <2>2 DEF Idles, Stranded, Linked
<1>6. ASSUME NEW v \in Units, Tick(v)
      PROVE  Idles(u)
  BY <1>6 DEF Tick, Idles, Stranded, Linked, TypeOK, UnitRow
<1>7. ASSUME unit'[u] \in {unit[u], FreshUnit}
      PROVE  Idles(u)
  BY <1>7, FreshRow DEF Idles, Stranded, Linked
<1>8. ASSUME NEW r \in Requests, PatchCommit(r)
      PROVE  Idles(u)
  <2> DEFINE q == request[r]
  <2>1. /\ q.kind = "patch" /\ q.unit \in Units /\ request'[r] = NoRequest
        /\ unit'[u].assigned = unit[u].assigned
        /\ u # q.unit \/ q.status = q.saw.status => unit'[u].status = unit[u].status
    BY <1>8, PatchFields DEF PatchCommit, Finish, Flushed, TypeOK, UnitRow
  <2>2. QED BY <2>1 DEF Idles, Stranded, Linked
<1>9. CASE UNCHANGED vars
  BY <1>7, <1>9 DEF vars
<1>10. ASSUME NEW r \in Requests, DeleteCommit(r)
       PROVE  Idles(u)
  BY <1>7, <1>10 DEF DeleteCommit, TypeOK
<1>11. ASSUME NEW v \in Units, RegisterUnit(v)
       PROVE  Idles(u)
  BY <1>7, <1>11 DEF RegisterUnit, TypeOK
<1>12. QED
  BY <1>1, <1>2, <1>3, <1>4, <1>5, <1>6, <1>7, <1>8, <1>9, <1>10, <1>11
  DEF Next, AssignAdmit, PatchRead, DeleteRead, Restart

\* A linked unit falls idle only by the PATCH that says so, for any numbers of
\* units and of requests under way at once (units.py:102, units.py:241).
THEOREM OnlyAPatchIdles == Spec => LinkedIdlesOnlyByPatch
<1>1. DispatchInv /\ [Next]_vars => [\A u \in Units : Idles(u)]_vars
  BY IdleStep
<1>2. [\A u \in Units : Idles(u)]_vars =>
         [\A u \in Units : Stranded(u)' /\ ~ Stranded(u) =>
             \E r \in Requests : /\ request[r].kind = "patch"
                                  /\ request[r].unit = u
                                  /\ request[r].status # request[r].saw.status
                                  /\ request'[r] = NoRequest]_vars
  BY DEF Idles
<1>3. QED BY <1>1, <1>2, Invariance, PTL DEF Spec, LinkedIdlesOnlyByPatch

\* A unit that a step leaves behind is linked to an incident that was closed
\* before, so that the link is new (Yields), or that the step closes, and then
\* the step has freed the unit.
LEMMA LeaveStep ==
    ASSUME DispatchInv, [Next]_vars, NEW u \in Units, NEW i \in Incidents
    PROVE  Leaves(u, i)
<1> SUFFICES ASSUME LeftBehind(u, i)', ~ LeftBehind(u, i) PROVE Leaves(u, i)
  BY DEF Leaves
<1> USE DEF DispatchInv
<1>1. CASE incident[i].status \in Closed
  BY <1>1, YieldStep DEF Yields, Leaves, LeftBehind
<1>2. CASE incident[i].status \notin Closed
  <2>1. incident'[i].status # incident[i].status /\ incident'[i].status \in Closed
    BY <1>2 DEF LeftBehind
  <2>2. ASSUME NEW j \in Incidents, NEW action \in ManualActions, Apply(j, action)
        PROVE  FALSE
    <3>1. j = i /\ NextStatus(action) \in Closed
      BY <2>1, <2>2 DEF Apply, TypeOK
    <3>2. unit'[u] = IF unit[u].assigned = i THEN ClearDispatchRun(unit[u]) ELSE unit[u]
      BY <2>2, <3>1 DEF Apply, Released
    <3>3. QED BY <3>2, UnitFields, ClearedRow, NullAssumption DEF LeftBehind
  <2>3. ASSUME NEW j \in Incidents, NEW v \in Units, AssignUnrouted(j, v)
        PROVE  FALSE
    <3>1. incident'[i].status \in {incident[i].status, "dispatched"}
      BY <2>3 DEF AssignUnrouted, RecordAssignment, Flushed, TypeOK, IncidentRow
    <3>2. QED BY <2>1, <3>1 DEF Closed
  <2>4. ASSUME NEW r \in Requests, NEW eta \in Routes, AssignCommit(r, eta)
        PROVE  FALSE
    <3>1. incident'[i].status \in {incident[i].status, "dispatched"}
      BY <2>4, AssignFields DEF AssignCommit, RecordAssignment, Flushed, TypeOK, IncidentRow
    <3>2. QED BY <2>1, <3>1 DEF Closed
  <2>5. ASSUME NEW v \in Units, NEW status \in Reports, SetUnitStatus(v, status)
        PROVE  FALSE
    <3>1. incident'[i].status \in {incident[i].status, "dispatched"}
      BY <2>5 DEF SetUnitStatus, TypeOK, IncidentRow
    <3>2. QED BY <2>1, <3>1 DEF Closed
  <2>6. incident' # incident
    BY <2>1
  <2>7. QED
    BY <2>2, <2>3, <2>4, <2>5, <2>6
    DEF Next, vars, AssignAdmit, Advance, Tick, RegisterUnit, PatchRead, PatchCommit,
        DeleteRead, DeleteCommit, Restart
<1>3. QED BY <1>1, <1>2

\* No closing leaves a unit behind, whatever status it had reached and whatever
\* requests are under way (dispatch.py:67).
THEOREM ClosingFreesAll == Spec => NobodyIsLeftBehind
<1>1. DispatchInv /\ [Next]_vars => [\A u \in Units, i \in Incidents : Leaves(u, i)]_vars
  BY LeaveStep
<1>2. [\A u \in Units, i \in Incidents : Leaves(u, i)]_vars =>
         [\A u \in Units, i \in Incidents : LeftBehind(u, i)' /\ ~ LeftBehind(u, i) =>
             \E r \in Requests : /\ Admitted(r, i, {"new", "acknowledged", "dispatched"})
                                  /\ request[r].unit = u
                                  /\ request'[r] = NoRequest]_vars
  BY DEF Leaves
<1>3. QED BY <1>1, <1>2, Invariance, PTL DEF Spec, NobodyIsLeftBehind

-----------------------------------------------------------------------------
(* Refinement                                                              *)

LEMMA LifeInit == Init => Life!Init
<1> SUFFICES ASSUME Init PROVE Life!Init
  OBVIOUS
<1>1. [i \in Incidents |-> incident[i].status] = [i \in Incidents |-> "new"]
  BY DEF Init
<1>2. \A r \in Requests : Promise(r) = [given |-> FALSE]
  BY DEF Init, Promise, NoRequest
<1>3. QED BY <1>1, <1>2 DEF Life!Init, Life!NoPromise

Stage == [i \in Incidents |-> incident[i].status]

Promised == [r \in Requests |-> Promise(r)]

LifeStep == Life!Next \/ UNCHANGED <<Stage, Promised>>

\* Requests in flight that end without a trace are forgotten promises.
LEMMA ForgetStep ==
    ASSUME UNCHANGED incident,
           \A r \in Requests : request'[r] \in {request[r], NoRequest}
    PROVE  LifeStep
<1> DEFINE R == {r \in Requests : request'[r] # request[r]}
<1>1. \A r \in Requests : Promise(r)' = IF r \in R THEN [given |-> FALSE] ELSE Promise(r)
  <2> SUFFICES ASSUME NEW r \in Requests
               PROVE  Promise(r)' = IF r \in R THEN [given |-> FALSE] ELSE Promise(r)
    OBVIOUS
  <2>1. CASE request'[r] = request[r]
    BY <2>1 DEF Promise
  <2>2. CASE request'[r] # request[r]
    <3>1. request'[r].kind = "none"
      BY <2>2 DEF NoRequest
    <3>2. QED BY <2>2, <3>1 DEF Promise
  <2>3. QED BY <2>1, <2>2
<1>2. Promised' = [r \in Requests |-> IF r \in R THEN [given |-> FALSE] ELSE Promised[r]]
  BY <1>1 DEF Promised
<1>3. UNCHANGED Stage
  BY DEF Stage
<1>4. Life!Forget(R)
  BY <1>2, <1>3 DEF Life!Forget, Life!NoPromise, Stage, Promised
<1>5. R \in SUBSET Requests
  OBVIOUS
<1>6. QED BY <1>4, <1>5 DEF LifeStep, Life!Next

\* A step that touches one incident's status and no request is an
\* acknowledgement, a dispatch or a closure.
LEMMA StageStep ==
    ASSUME TypeOK, UNCHANGED request, NEW i \in Incidents,
           \A j \in Incidents : j # i => incident'[j].status = incident[j].status,
           \/ incident'[i].status = incident[i].status
           \/ incident[i].status = "new" /\ incident'[i].status = "acknowledged"
           \/ incident[i].status \notin Closed /\ incident'[i].status \in Closed \union {"dispatched"}
    PROVE  LifeStep
<1>1. UNCHANGED Promised
  BY DEF Promised, Promise
<1>2. Stage' = [Stage EXCEPT ![i] = incident'[i].status]
  BY DEF Stage
<1>3. Stage[i] = incident[i].status /\ incident[i].status \in IncidentStatuses
  BY IncidentFields DEF Stage
<1>4. CASE incident'[i].status = incident[i].status
  BY <1>1, <1>2, <1>4 DEF LifeStep, Stage
<1>5. CASE incident[i].status = "new" /\ incident'[i].status = "acknowledged"
  <2>1. Life!Acknowledge(i)
    BY <1>1, <1>2, <1>3, <1>5 DEF Life!Acknowledge, Stage, Promised
  <2>2. QED BY <2>1 DEF LifeStep, Life!Next
<1>6. CASE incident[i].status \notin Closed /\ incident'[i].status = "dispatched"
  <2>1. Life!Dispatch(i)
    BY <1>1, <1>2, <1>3, <1>6
    DEF Life!Dispatch, Life!Open, Stage, Promised, IncidentStatuses, Closed
  <2>2. QED BY <2>1 DEF LifeStep, Life!Next
<1>7. ASSUME NEW outcome \in Closed,
             incident[i].status \notin Closed /\ incident'[i].status = outcome
      PROVE  LifeStep
  <2>1. Life!Close(i, outcome)
    BY <1>1, <1>2, <1>3, <1>7
    DEF Life!Close, Life!Open, Stage, Promised, IncidentStatuses, Closed
  <2>2. QED BY <2>1 DEF LifeStep, Life!Next
<1>8. QED BY <1>4, <1>5, <1>6, <1>7

LEMMA LifeNext == DispatchInv /\ [Next]_vars => LifeStep
<1> SUFFICES ASSUME DispatchInv, [Next]_vars PROVE LifeStep
  OBVIOUS
<1> USE DEF DispatchInv
<1>1. ASSUME NEW i \in Incidents, NEW action \in ManualActions, Apply(i, action)
      PROVE  LifeStep
  <2>1. action \in Actions
    BY InputAssumption
  <2>2. /\ incident[i].status \in Allowed(action)
        /\ incident'[i].status = NextStatus(action)
        /\ \A j \in Incidents : j # i => incident'[j].status = incident[j].status
        /\ UNCHANGED request
    BY <1>1 DEF Apply, TypeOK
  <2>3. \/ Allowed(action) = {"new"} /\ NextStatus(action) = "acknowledged"
        \/ /\ Allowed(action) \cap Closed = {}
           /\ NextStatus(action) \in Closed \union {"dispatched"}
    BY <2>1 DEF Actions, Allowed, NextStatus, Closed, IncidentStatuses
  <2>4. QED BY <2>2, <2>3, StageStep
<1>2. ASSUME NEW i \in Incidents, NEW u \in Units, AssignUnrouted(i, u)
      PROVE  LifeStep
  <2>1. /\ incident[i].status \notin Closed
        /\ incident'[i].status = "dispatched"
        /\ \A j \in Incidents : j # i => incident'[j].status = incident[j].status
        /\ UNCHANGED request
    BY <1>2 DEF AssignUnrouted, Assignable, RecordAssignment, Flushed, TypeOK, IncidentRow
  <2>2. QED BY <2>1, StageStep
<1>3. ASSUME NEW r \in Requests, NEW i \in Incidents, NEW u \in Units,
             AssignAdmit(r, i, u)
      PROVE  LifeStep
  <2>1. UNCHANGED Stage
    BY <1>3 DEF AssignAdmit, Stage
  <2>2. Stage[i] = incident[i].status /\ Stage[i] \in Life!Open
    BY <1>3, IncidentFields
    DEF Stage, AssignAdmit, Assignable, Life!Open, IncidentStatuses, Closed
  <2>3. Promise(r)' = [given |-> TRUE, incident |-> i, saw |-> Stage[i]]
    BY <1>3, <2>2 DEF AssignAdmit, Promise, TypeOK
  <2>4. \A q \in Requests : q # r => Promise(q)' = Promise(q)
    BY <1>3 DEF AssignAdmit, Promise, TypeOK
  <2>5. Promised' = [Promised EXCEPT
                       ![r] = [given |-> TRUE, incident |-> i, saw |-> Stage[i]]]
    BY <2>3, <2>4 DEF Promised
  <2>6. Promised[r] = [given |-> FALSE]
    BY <1>3 DEF AssignAdmit, Free, NoRequest, Promised, Promise
  <2>7. Life!Give(r, i)
    BY <2>1, <2>2, <2>5, <2>6 DEF Life!Give, Life!NoPromise, Stage, Promised
  <2>8. QED BY <2>7 DEF LifeStep, Life!Next
<1>4. ASSUME NEW r \in Requests, NEW eta \in Routes, AssignCommit(r, eta)
      PROVE  LifeStep
  <2> DEFINE i == request[r].incident
  <2>1. /\ i \in Incidents
        /\ request[r].kind = "assign"
    BY <1>4, AssignFields DEF AssignCommit
  <2>2. Promised[r] = [given |-> TRUE, incident |-> i, saw |-> request[r].sawStatus]
    BY <2>1 DEF Promised, Promise
  <2>3. incident'[i].status = IF request[r].sawStatus = "dispatched"
                              THEN incident[i].status ELSE "dispatched"
    BY <1>4, <2>1 DEF AssignCommit, RecordAssignment, Flushed, TypeOK, IncidentRow
  <2>4. \A j \in Incidents : j # i => incident'[j].status = incident[j].status
    BY <1>4, <2>1 DEF AssignCommit, RecordAssignment, TypeOK
  <2>5. Stage' = IF request[r].sawStatus = "dispatched"
                 THEN Stage ELSE [Stage EXCEPT ![i] = "dispatched"]
    BY <2>3, <2>4 DEF Stage
  <2>6. \A q \in Requests : Promise(q)' = IF q = r THEN [given |-> FALSE] ELSE Promise(q)
    BY <1>4 DEF AssignCommit, Finish, Promise, NoRequest, TypeOK
  <2>7. Promised' = [Promised EXCEPT ![r] = [given |-> FALSE]]
    BY <2>6 DEF Promised
  <2>8. Promised[r] # [given |-> FALSE]
    <3>1. Promised[r].given = TRUE
      BY <2>2
    <3>2. QED BY <3>1
  <2>9. Life!Keep(r)
    <3>1. Promised[r].saw = request[r].sawStatus /\ Promised[r].incident = i
      BY <2>2
    <3>2. Stage' = IF Promised[r].saw = "dispatched"
                   THEN Stage ELSE [Stage EXCEPT ![Promised[r].incident] = "dispatched"]
      BY <2>5, <3>1
    <3>3. QED BY <2>7, <2>8, <3>2 DEF Life!Keep, Life!NoPromise, Stage, Promised
  <2>10. QED BY <2>9 DEF LifeStep, Life!Next
<1>5. ASSUME NEW u \in Units, NEW status \in Reports, SetUnitStatus(u, status)
      PROVE  LifeStep
  <2>1. UNCHANGED request
    BY <1>5 DEF SetUnitStatus
  <2>2. CASE UNCHANGED incident
    BY <2>1, <2>2, ForgetStep
  <2>3. CASE incident' # incident
    <3>1. /\ unit[u].assigned \in Incidents
          /\ incident[unit[u].assigned].status \in {"new", "acknowledged"}
          /\ incident' = [incident EXCEPT ![unit[u].assigned].status = "dispatched"]
      BY <1>5, <2>3, UnitFields DEF SetUnitStatus, Linked
    <3>2. /\ incident[unit[u].assigned].status \notin Closed
          /\ incident'[unit[u].assigned].status = "dispatched"
          /\ \A j \in Incidents : j # unit[u].assigned =>
                                    incident'[j].status = incident[j].status
      BY <3>1 DEF Closed, TypeOK, IncidentRow
    <3>3. QED BY <2>1, <3>1, <3>2, StageStep
  <2>4. QED BY <2>2, <2>3
<1>6. CASE /\ UNCHANGED incident
           /\ \A q \in Requests : request'[q] \in {request[q], NoRequest}
  BY <1>6, ForgetStep
<1>7. ASSUME NEW r \in Requests, PatchCommit(r)
      PROVE  LifeStep
  BY <1>6, <1>7 DEF PatchCommit, Finish, TypeOK
<1>8. ASSUME NEW r \in Requests, DeleteCommit(r)
      PROVE  LifeStep
  BY <1>6, <1>8 DEF DeleteCommit
<1>9. CASE Restart
  BY <1>6, <1>9 DEF Restart
<1>10. ASSUME UNCHANGED incident, NEW r \in Requests, Free(r),
              request'[r].kind # "assign",
              \A q \in Requests : q # r => request'[q] = request[q]
       PROVE  LifeStep
  <2>1. \A q \in Requests : Promise(q)' = Promise(q)
    <3>1. Promise(r) = [given |-> FALSE] /\ Promise(r)' = [given |-> FALSE]
      BY <1>10 DEF Promise, Free, NoRequest
    <3>2. \A q \in Requests : q # r => Promise(q)' = Promise(q)
      BY <1>10 DEF Promise
    <3>3. QED BY <3>1, <3>2
  <2>2. QED BY <1>10, <2>1 DEF LifeStep, Stage, Promised
<1>11. ASSUME NEW r \in Requests, NEW u \in Units, NEW status \in UnitStatuses,
              NEW active \in BOOLEAN, PatchRead(r, u, status, active)
       PROVE  LifeStep
  BY <1>10, <1>11 DEF PatchRead, TypeOK
<1>12. ASSUME NEW r \in Requests, NEW u \in Units, DeleteRead(r, u)
       PROVE  LifeStep
  BY <1>10, <1>12 DEF DeleteRead, TypeOK
<1>13. CASE UNCHANGED <<incident, request>>
  BY <1>13, <1>6
<1>14. QED
  BY <1>1, <1>2, <1>3, <1>4, <1>5, <1>7, <1>8, <1>9, <1>11, <1>12, <1>13
  DEF Next, vars, Advance, Tick, RegisterUnit

\* Dispatch implements Lifecycle: whatever the interleaving of requests, loops
\* and restarts, an incident only ever does what the abstract life allows.
THEOREM DispatchImplementsLifecycle == Spec => LifecycleSpec
<1>1. LifeStep <=> [Life!Next]_<<Stage, Promised>>
  BY DEF LifeStep
<1>2. QED
  BY <1>1, LifeInit, LifeNext, Invariance, PTL
  DEF Spec, LifecycleSpec, Life!Spec, Stage, Promised
=============================================================================
