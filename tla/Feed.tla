--------------------------------- MODULE Feed ---------------------------------
(***************************************************************************)
(* What connected dashboards and driver apps are shown of the incidents:   *)
(*   app/modules/ws.py        the hub: connect, broadcast, disconnect      *)
(*   app/modules/incidents.py, sentinel.py   what a client backfills from  *)
(*   and the broadcasts after the commits of ingest.py, main.py,           *)
(*   dispatch.py, units.py, movement.py and sentinel.py.                   *)
(*                                                                         *)
(* A frame carries the session's own copy of the row, loaded before the    *)
(* session's awaits and never loaded again (db.py:22, expire_on_commit).   *)
(* A writer commits the columns it has set, and broadcasts its copy with   *)
(* all the others as old as they were loaded.  The columns are the         *)
(* classification (ingest and the retry loop write it, from pending to     *)
(* done) and those of the life cycle (operators, assignments and units):   *)
(* the status, here a version that counts its writes, and the two stamps,  *)
(* acknowledged_at and resolved_at, which are set and never cleared.       *)
(* Which status allows which action is module Dispatch.                    *)
(*                                                                         *)
(* A commit, the choice of receivers and the first send are one step: none *)
(* of them waits for anything.  Every further send may, so the frames of   *)
(* two sessions can reach a client in another order than their commits.    *)
(* The hub sends in the order its clients connected; here in any order.    *)
(* The clients are outside the repository; they do what API_CONTRACT.md    *)
(* section 5 obliges them to.                                              *)
(***************************************************************************)
EXTENDS Naturals

CONSTANTS
    Incidents,      \* incidents that may arrive
    OwnIncidents,   \* those of the device the drivers are linked to
    Drivers,        \* driver apps, linked to one device
    Responders,     \* dashboards of signed-in responders
    Sessions,       \* requests and retries that may be open at once
    NoCard,         \* an incident a client has not been shown
    MaxLife,        \* bound: MaxLife[i] writes to the status of incident i
    MaxDrops        \* bound: lost connections and restarts

ASSUME ClientAssumption == OwnIncidents \subseteq Incidents /\ Drivers \intersect Responders = {}

ASSUME BoundAssumption == MaxLife \in [Incidents -> Nat] /\ MaxDrops \in Nat

Row == [received: Nat, status: Nat, acknowledged: BOOLEAN, closed: BOOLEAN, done: BOOLEAN]

ASSUME CardAssumption == NoCard \notin Row

VARIABLES
    row,        \* row[i]: received_at (0: not stored) and the columns above
    latest,     \* the latest received_at
    session,    \* session[s]: the open request or retry s
    link,       \* link[d]: d's connection, and the last received_at it has seen
    shown,      \* shown[d][i]: the card of incident i at client d
    drops       \* how many connections were lost, restarts included

vars == <<row, latest, session, link, shown, drops>>

Clients == Drivers \union Responders

Places == {"ingest", "retry", "assign", "announce", "send"}

NoSession == [at |-> "none"]

Unclassified(time) == [received |-> time, status |-> 0, acknowledged |-> FALSE,
                       closed |-> FALSE, done |-> FALSE]

\* What panic stores needs no classification.
Manual(time) == [Unclassified(time) EXCEPT !.done = TRUE]

OpenSession == [at: Places, incident: Incidents, copy: Row, to: SUBSET Clients]

TypeOK ==
    /\ row \in [Incidents -> Row]
    /\ latest \in Nat
    /\ session \in [Sessions -> OpenSession \union {NoSession}]
    /\ link \in [Clients -> [at: {"off", "behind", "live"}, from: Nat]]
    /\ shown \in [Clients -> [Incidents -> Row \union {NoCard}]]
    /\ drops \in 0..MaxDrops

Init ==
    /\ row = [i \in Incidents |-> Unclassified(0)]
    /\ latest = 0
    /\ session = [s \in Sessions |-> NoSession]
    /\ link = [d \in Clients |-> [at |-> "off", from |-> 0]]
    /\ shown = [d \in Clients |-> [i \in Incidents |-> NoCard]]
    /\ drops = 0

-----------------------------------------------------------------------------
(* The hub: ws.py                                                          *)

Stored(i) == row[i].received # 0

Free(s) == session[s] = NoSession

At(s, place) == session[s].at = place

Connected(d) == link[d].at # "off"

\* can_receive: drivers hear of their own device only.
CanReceive(d, i) == d \in Drivers => i \in OwnIncidents

\* The clients a broadcast will send to are chosen when it starts.
Receivers(i) == {d \in Clients : Connected(d) /\ CanReceive(d, i)}

Become(s, next) == session' = [session EXCEPT ![s] = next]

Waiting(place, i, copy) == [at |-> place, incident |-> i, copy |-> copy, to |-> {}]

\* A faulty variant: one send that fails ends the broadcast for the others.
SendingEnds(i, copy, D) == NoSession

\* A broadcast of `copy` that still has to go to the clients in D.
Sending(i, copy, D) ==
    IF D = {} THEN NoSession
    ELSE [at |-> "send", incident |-> i, copy |-> copy, to |-> D]

\* A client merges a frame.  What arrives before it has caught up does not
\* count as the last it has seen: it would skip what it has not fetched yet.
Show(d, i, copy) ==
    /\ shown' = [shown EXCEPT ![d][i] = copy]
    /\ link' = IF link[d].at = "live" /\ copy.received > link[d].from
               THEN [link EXCEPT ![d].from = copy.received] ELSE link

\* The broadcast of a session, up to the end of its first send.
Broadcast(s, i, copy) ==
    IF Receivers(i) = {}
    THEN Become(s, NoSession) /\ UNCHANGED <<link, shown>>
    ELSE \E d \in Receivers(i) : /\ Show(d, i, copy)
                                /\ Become(s, Sending(i, copy, Receivers(i) \ {d}))

Send(s, d) ==
    /\ At(s, "send")
    /\ d \in session[s].to
    /\ Show(d, session[s].incident, session[s].copy)
    /\ Become(s, Sending(session[s].incident, session[s].copy, session[s].to \ {d}))
    /\ UNCHANGED <<row, latest, drops>>

Connect(d) ==
    /\ ~ Connected(d)
    /\ link' = [link EXCEPT ![d].at = "behind"]
    /\ UNCHANGED <<row, latest, session, shown, drops>>

\* A faulty variant: the bound of the query is taken for its end.
InBackfillUpTo(d, i) ==
    /\ Stored(i)
    /\ CanReceive(d, i)
    /\ d \in Responders => row[i].received <= link[d].from

\* GET /me/incidents has no bound, GET /incidents?from= has.
InBackfill(d, i) ==
    /\ Stored(i)
    /\ CanReceive(d, i)
    /\ d \in Responders => row[i].received >= link[d].from

Backfill(d) ==
    /\ link[d].at = "behind"
    /\ shown' = [shown EXCEPT ![d] = [i \in Incidents |->
                                        IF InBackfill(d, i) THEN row[i] ELSE @[i]]]
    /\ link' = [link EXCEPT ![d] = [at |-> "live", from |-> latest]]
    /\ UNCHANGED <<row, latest, session, drops>>

\* What was still to be sent on a broken connection is lost.
Drop(d) ==
    /\ Connected(d)
    /\ drops < MaxDrops
    /\ drops' = drops + 1
    /\ link' = [link EXCEPT ![d].at = "off"]
    /\ session' = [s \in Sessions |->
                     IF At(s, "send")
                     THEN Sending(session[s].incident, session[s].copy, session[s].to \ {d})
                     ELSE session[s]]
    /\ UNCHANGED <<row, latest, shown>>

-----------------------------------------------------------------------------
(* Those who commit and broadcast                                          *)

\* A faulty variant: nothing is committed.
CommitForgotten(i, new) == UNCHANGED row

Commit(i, new) == row' = [row EXCEPT ![i] = new]

CanMove(i) == row[i].status < MaxLife[i]

\* `card` after a write to the status that row i has, and to one of the stamps.
\* (The status is "new" until its first write.)
Stamped(card, i, acknowledges, closes) ==
    [card EXCEPT !.status = row[i].status + 1,
                 !.acknowledged = @ \/ acknowledges,
                 !.closed = @ \/ closes]

\* ingest_event up to the await of classify.
Ingest(s, i) ==
    /\ Free(s)
    /\ ~ Stored(i)
    /\ latest' = latest + 1
    /\ Commit(i, Unclassified(latest + 1))
    /\ Become(s, Waiting("ingest", i, Unclassified(latest + 1)))
    /\ UNCHANGED <<link, shown, drops>>

Panic(s, i) ==
    /\ Free(s)
    /\ ~ Stored(i)
    /\ latest' = latest + 1
    /\ Commit(i, Manual(latest + 1))
    /\ Broadcast(s, i, Manual(latest + 1))
    /\ UNCHANGED drops

\* The retry loop loads a batch of pending rows at once and keeps its copies
\* while it works through them; each row of the batch is a session here.
PickUp(s, i) ==
    /\ Free(s)
    /\ Stored(i)
    /\ ~ row[i].done
    /\ \A t \in Sessions : At(t, "retry") => session[t].incident # i
    /\ Become(s, Waiting("retry", i, row[i]))
    /\ UNCHANGED <<row, latest, link, shown, drops>>

\* A result: the classification is written, the other columns of the copy are as
\* old as the copy.
Classify(s) ==
    LET i == session[s].incident
    IN  /\ At(s, "ingest") \/ At(s, "retry")
        /\ Commit(i, [row[i] EXCEPT !.done = TRUE])
        /\ Broadcast(s, i, [session[s].copy EXCEPT !.done = TRUE])
        /\ UNCHANGED <<latest, drops>>

\* No result: the request broadcasts its copy as it is.
LeavePending(s) ==
    /\ At(s, "ingest")
    /\ Broadcast(s, session[s].incident, session[s].copy)
    /\ UNCHANGED <<row, latest, drops>>

\* The retry of the row is given up, or the request fails with an exception.
Abandon(s) ==
    /\ At(s, "ingest") \/ At(s, "retry")
    /\ Become(s, NoSession)
    /\ UNCHANGED <<row, latest, link, shown, drops>>

\* An operator's action (dispatch.py): read, written and committed in one go.
Operate(s, i, action) ==
    LET new == Stamped(row[i], i, action = "acknowledge", action = "close")
    IN  /\ Free(s)
        /\ Stored(i)
        /\ CanMove(i)
        /\ action = "acknowledge" => row[i].status = 0
        /\ Commit(i, new)
        /\ Broadcast(s, i, new)
        /\ UNCHANGED <<latest, drops>>

\* A unit's status (units.py): the frame about the unit is sent first, and the
\* incident's copy is not loaded again.
ReportStatus(s, i, moves) ==
    /\ Free(s)
    /\ Stored(i)
    /\ moves => CanMove(i)
    /\ LET new == IF moves THEN Stamped(row[i], i, FALSE, FALSE) ELSE row[i]
       IN  /\ Commit(i, new)
           /\ Become(s, Waiting("announce", i, new))
    /\ UNCHANGED <<latest, link, shown, drops>>

Announce(s) ==
    /\ At(s, "announce")
    /\ Broadcast(s, session[s].incident, session[s].copy)
    /\ UNCHANGED <<row, latest, drops>>

\* The movement loop loads the incident when it comes to its frame.
Refresh(s, i) ==
    /\ Free(s)
    /\ Stored(i)
    /\ Broadcast(s, i, row[i])
    /\ UNCHANGED <<row, latest, drops>>

\* An assignment holds its copy while it waits for the route.
Assign(s, i) ==
    /\ Free(s)
    /\ Stored(i)
    /\ Become(s, Waiting("assign", i, row[i]))
    /\ UNCHANGED <<row, latest, link, shown, drops>>

\* It writes the status unless its copy has that status already, and
\* acknowledged_at if the copy is still new.  What others wrote meanwhile stays in
\* the row, and is missing from the frame.
Assigned(s, moves) ==
    LET i    == session[s].incident
        copy == session[s].copy
        new  == copy.status = 0
    IN  /\ At(s, "assign")
        /\ new => moves
        /\ moves => CanMove(i)
        /\ IF moves
           THEN /\ Commit(i, Stamped(row[i], i, new, FALSE))
                /\ Broadcast(s, i, Stamped(copy, i, new, FALSE))
           ELSE /\ UNCHANGED row
                /\ Broadcast(s, i, copy)
        /\ UNCHANGED <<latest, drops>>

\* Connections and sessions are lost with the process.
Restart ==
    /\ drops < MaxDrops
    /\ drops' = drops + 1
    /\ link' = [d \in Clients |-> [link[d] EXCEPT !.at = "off"]]
    /\ session' = [s \in Sessions |-> NoSession]
    /\ UNCHANGED <<row, latest, shown>>

-----------------------------------------------------------------------------
Next ==
    \/ \E s \in Sessions, d \in Clients : Send(s, d)
    \/ \E d \in Clients : Connect(d) \/ Backfill(d) \/ Drop(d)
    \/ \E s \in Sessions, i \in Incidents :
         Ingest(s, i) \/ Panic(s, i) \/ PickUp(s, i) \/ Refresh(s, i) \/ Assign(s, i)
    \/ \E s \in Sessions, i \in Incidents, action \in {"acknowledge", "dispatch", "close"} :
         Operate(s, i, action)
    \/ \E s \in Sessions, i \in Incidents, moves \in BOOLEAN : ReportStatus(s, i, moves)
    \/ \E s \in Sessions : Classify(s) \/ LeavePending(s) \/ Abandon(s) \/ Announce(s)
    \/ \E s \in Sessions, moves \in BOOLEAN : Assigned(s, moves)
    \/ Restart

Spec == Init /\ [][Next]_vars

-----------------------------------------------------------------------------
(* Properties                                                              *)

NotAhead(card, i) == /\ Stored(i)
                     /\ card.received = row[i].received
                     /\ card.status <= row[i].status
                     /\ card.acknowledged => row[i].acknowledged
                     /\ card.closed => row[i].closed
                     /\ card.done => row[i].done

\* No column is shown with a value that is not on record: each column of each
\* card, and of each copy on its way to becoming one, was stored at some time; so
\* a crash can never take back a status, a stamp or a classification a client has
\* been shown.  It is said of the columns one by one, for a card as a whole need
\* never have been stored: after an operator has closed the incident during the
\* route await, assign_unit shows "dispatched" without resolved_at, and stores
\* "dispatched" with it (units.py:246-257).
ShownIsPast ==
    /\ \A s \in Sessions : ~ Free(s) => NotAhead(session[s].copy, session[s].incident)
    /\ \A d \in Clients, i \in Incidents :
          shown[d][i] # NoCard => NotAhead(shown[d][i], i)

\* A frame about i is on its way to d.
Coming(d, i) == \E s \in Sessions : /\ At(s, "send")
                                   /\ session[s].incident = i
                                   /\ d \in session[s].to

\* A classified incident that concerns d, which d has caught up without.
Missed(d, i) == /\ link[d].at = "live"
                /\ CanReceive(d, i)
                /\ Stored(i) /\ row[i].done
                /\ shown[d][i] = NoCard
                /\ ~ Coming(d, i)

\* What backfilling by received_at is good for: only a responder's client can
\* miss a classified incident, and only one received before another it shows.
OnlyOlderAreMissed ==
    \A d \in Clients, i \in Incidents :
        Missed(d, i) => /\ d \in Responders
                        /\ \E j \in Incidents :
                              /\ shown[d][j] # NoCard
                              /\ shown[d][j].received > row[i].received

(* The invariant that proves both.                                         *)

\* `latest` is the newest arrival, and no client believes to have seen more.
LatestIsNewest ==
    /\ \A i \in Incidents : row[i].received <= latest
    /\ latest # 0 => \E i \in Incidents : row[i].received = latest
    /\ \A d \in Clients : link[d].from <= latest

\* The last a dashboard has seen is on the dashboard.
FromWasSeen ==
    \A d \in Responders : link[d].from # 0 =>
        \E i \in Incidents : shown[d][i] # NoCard /\ shown[d][i].received >= link[d].from

\* Who misses an incident has seen a later one, by its own count.
MissedIsBehindFrom ==
    \A d \in Clients, i \in Incidents :
        Missed(d, i) => d \in Responders /\ row[i].received < link[d].from

\* How far backfilling covers a dropped connection rests on what `from` stands
\* for at each client: it is a time that client has a card for, and nothing
\* classified from then on is lacking.  Inductive.
FeedInv == TypeOK /\ ShownIsPast /\ LatestIsNewest /\ FromWasSeen /\ MissedIsBehindFrom

-----------------------------------------------------------------------------
(* What the repository says of itself, and this code does not do           *)

LifeCycle(card) == <<card.status, card.acknowledged, card.closed>>

\* tests/test_mobile_dashboard_sync.py:1: "A driver's app and the responder
\* dashboard share one incident lifecycle."  When nothing is under way any more,
\* the cards of clients that have caught up show the life cycle that is stored:
\* status, acknowledged_at and resolved_at.
OneLifecycle ==
    (\A s \in Sessions : Free(s)) =>
        \A d \in Clients, i \in Incidents :
            link[d].at = "live" /\ shown[d][i] # NoCard =>
                LifeCycle(shown[d][i]) = LifeCycle(row[i])
=============================================================================
