# Sentinel backend: TLA+ models, checks and proofs

The Sentinel backend receives crash events from devices in vehicles, has an ML
service grade them, shows them to dispatchers, and follows the response units
sent to them. This directory specifies what that program does between its
database commits, checks it with TLC on small instances, and proves the most
important results with TLAPS for every size of instance.

All paths below are relative to the repository's root.

## 1. The system

One `uvicorn` process with one event loop serves everything; PostgreSQL holds
all state that survives it. `async def` handlers and three background loops run
on the event loop and are interrupted only where they `await`. `def` handlers
run in worker threads, one thread per request. Every request has a session
of its own (`app/db.py`: no autoflush, nothing expires on commit), so a
handler goes on working with the rows it loaded, and its commit writes only the
columns whose value it changed.

### Inventory

| Component | State | Operations | What is hard | What makes it correct |
|---|---|---|---|---|
| Incident actions, `app/modules/dispatch.py` | `incidents.status`, its timestamps, `dispatch_events` | acknowledge, dispatch (assign, en_route, on_scene), resolve | actions by several operators in any order | only legal transitions; the timeline explains the status; closing frees all units |
| Units, `app/modules/units.py` | `response_units` | register, PATCH, DELETE, assign, report status, dispatch options | assign awaits a route between check and write; PATCH and DELETE in threads; a shortlist by distance ranked by travel time | a unit serves one incident; linked units are busy and on record; what is recommended is the fastest of those routed |
| Movement, `app/modules/movement.py` | `dispatched_at`, `route_eta_s` | advance every 3 s, clear a run | clock and stored status drift apart; manual reports | a unit under way arrives; a freed unit is never advanced |
| Ingest, `app/modules/ingest.py` | incident, window, device rows | POST /events, heartbeat | the device repeats; crash and outage between persist and classify | one incident per event; nothing told is lost |
| Retry loop, `app/main.py` | rows of the current batch | every 60 s, ten oldest | races with open requests; one bad window | the backlog drains |
| Inference, `app/modules/inference/` | none (model cached) | classify: remote with retries, local, or thresholds | 4xx, 5xx, timeouts, a model that does not load | three kinds of outcome, handled differently |
| WebSocket hub, `app/modules/ws.py` | connected clients | connect, drop, broadcast, ping | frames missed or out of order | a client that backfills shows what is stored |
| Incident queries, `app/modules/incidents.py` | none | list, active queue, detail | paging while rows arrive | |
| Accounts, `app/modules/accounts.py`, `app/auth.py` | users, refresh tokens, session cutoff | register, login, refresh, logout, change password, manage responders | rotation, reuse and revocation in concurrent threads | a revoked family stays dead; somebody can sign in |
| App hooks, `app/modules/sentinel.py` | incidents, contacts | panic, milestones, contacts | first contact of a device; panic without a fix | a panic is placed at the last real fix |
| Devices, `app/modules/devices.py`, `_upsert_device`, `_prune_heartbeats` | devices, heartbeats | first contact, heartbeat, prune, list | a registration in a thread holds the new row while a handler on the event loop inserts it | one row per device; the loop is never blocked for good; the list has no gaps |
| Routing, `app/modules/routing.py` | a cache in memory | road_route, route_many | an estimate cached as if it were a route; concurrent fetches of one route | never raises; estimates are marked and used up |
| SMS, `app/modules/sms.py` | send times in memory | send | the edge of the sliding window | never more than the limit in a window |
| Local inference, `app/modules/inference/phase2_vendored.py` | none (model cached) | crash signature, two decisions | boundaries of the gate; gate and model disagree | a crash is confirmed exactly if both agree |
| Stats, `app/modules/stats.py` | none | summary | comparison with NULL | counts exactly what the model decided |
| Geo, config, schemas | none | pure | | null island is no fix |

### How the components interact

* Ingest, the retry loop and the incident actions write the same incident rows,
  but different columns: classification on one side, life cycle on the other.
* An assignment writes the incident and the unit in one commit; closing the
  incident writes the incident and all units linked to it in one commit.
* The movement loop reads what assignments wrote and writes unit statuses and
  timeline entries; it never writes an incident.
* Every writer broadcasts after its commit, from the copy of the row it holds;
  clients merge these frames with what they fetch when they connect.
* Options and assignments share the route cache; assignments write its travel
  times into the unit's row.
* Events, heartbeats and panics (event loop) and registrations (threads) insert
  the same device rows; a panic is placed by what events and heartbeats left there.
* Contacts decide whom the SMS relay may reach; its limit is kept in memory.

## 2. The modules

| Module | Models | Kind |
|---|---|---|
| `Lifecycle` | what the back end promises of an incident's life | abstract specification |
| `Dispatch` | `dispatch.py`, `units.py`, `movement.py` together | detailed specification |
| `MCDispatch` | small instances of it | for TLC |
| `DispatchProofs` | inductive invariant of `Dispatch`, its refinement of `Lifecycle` | theorems |
| `Ingest` | `ingest.py`, the retry loop of `main.py`, the outcomes of `service.py` | detailed specification |
| `MCIngest` | small instances of it | for TLC |
| `IngestProofs` | inductive invariant of `Ingest` | theorems |
| `Feed` | `ws.py`, the backfill queries of `incidents.py` and `sentinel.py`, and every commit-then-broadcast of an incident | detailed specification |
| `MCFeed` | small instances of it | for TLC |
| `FeedProofs` | inductive invariant of `Feed` | theorems |
| `Sessions` | what the accounts promise of the sessions of an account | abstract specification |
| `Accounts` | `accounts.py`, and who a request is made by from `auth.py` | detailed specification |
| `MCAccounts` | small instances of it | for TLC |
| `AccountsProofs` | inductive invariant of `Accounts`, its action properties, its refinement of `Sessions` | theorems |
| `Devices` | `_upsert_device`, heartbeat, panic's position, `register`'s rows, heartbeat retention and listing | detailed specification |
| `MCDevices` | a small instance of it | for TLC |
| `DevicesProofs` | inductive invariant of `Devices`, where panics are placed, and that no wait is circular | theorems |
| `Advice` | `routing.py`, `dispatch_options`, the route of `assign_unit` | detailed specification |
| `MCAdvice` | a small instance of it | for TLC |
| `AdviceProofs` | inductive invariant of `Advice`, and that the recommended unit is the fastest | theorems |
| `Relay` | `sms.py`, the contacts of `sentinel.py` | detailed specification |
| `MCRelay` | a small instance of it | for TLC |
| `RelayProofs` | inductive invariant of `Relay` | theorems |
| `Verdict` | `phase2_vendored.py`'s gate and decisions, what `ingest.py` keeps and `stats.py` counts | algorithm and operators |
| `MCVerdict` | a small instance of it | for TLC |
| `VerdictProofs` | the scan, the decision and the figures, for windows of any length | theorems |

### Dispatch

State: `incident[i]` holds the status and whether `acknowledged_at` and
`resolved_at` are set; `unit[u]` the row of call sign `u` (`status`,
`assigned_incident_id` as `assigned`, `route_eta_s` and `route_geometry`, which
are set and cleared together, as `eta`, `dispatched_at` as `clock`, `active`);
`roster` the call signs that have a row; `timeline` the pairs of incident and
action that `dispatch_events` contains; `request[r]` what a request between its
read and its commit has loaded.

`dispatched_at` is only ever compared with the present through
`response_phase`, so `clock` is the phase it projects; `Tick` is time passing.

| Action | Code |
|---|---|
| `Apply(i, action)` | `_apply` in `dispatch.py`, for all three endpoints, with the release of units in the same commit |
| `AssignAdmit`, `AssignCommit` | `assign_unit` before and after `await road_route` |
| `AssignUnrouted` | `assign_unit` for an incident without coordinates: no await, one step |
| `SetUnitStatus` | `set_unit_status` |
| `Advance` | `advance_units_once`, all overdue units in one commit |
| `RegisterUnit` | `register_unit` (its check and insert are one step: a second insert of one call sign fails on the unique column) |
| `PatchRead`, `PatchCommit` | `update_unit`, a worker thread |
| `DeleteRead`, `DeleteCommit` | `delete_unit`, a worker thread |
| `Restart` | the process dies; `request` is lost, the database is not |

`Flushed(current, loaded, new)` is what SQLAlchemy's unit of work does to a
column: it is written if the new value differs from the loaded one and left
alone otherwise. `AssignCommit` applies it column by column to the row as
it is *now*, which is how rows mixed from two requests arise. A request whose
row was deleted can only fail (its UPDATE matches no row, the session rolls
back), so `DeleteCommit` drops it.

### Ingest

State: `stored[e]` the incident's row for event `e` (absent, pending,
classified), `queue` the stored events by `received_at`, of which `IsNextBatch`
says what the loop's query returns (the oldest pending ones), `handler[a]` an
open POST /events with its own copy of the row, `loop` the retry loop with the
rest of its batch, `ml` the ML service, `runs[e]` how many classifications were
obtained, `card[e]` the last frame broadcast, `answer[e]` what reached the
device; `overlapped` is history: the events whose row the loop loaded while the
request that stored it waited for its own classification. `Persist`,
`Classified`/`LeftPending`/`Failed`, `Broadcast` and `Reply` are the stretches
of `ingest_event` between its awaits; `LoopWakes`, `LoopClassifies`,
`LoopGivesUp` and `LoopBroadcasts` those of `_retry_pending_classifications`.
The retries inside one call of `classify` are one step: nothing but time
separates them.

### Feed

State: `row[i]` the incident's `received_at`, its classification (`done`) and
the columns of its life cycle: the status as a version number that counts its
writes, and whether `acknowledged_at` and `resolved_at` are set; `session[s]` a
request or retry with its own copy, waiting for a classification or a route or
sending to the clients it still has to reach; `link[d]` whether client `d` is
connected and has caught up, and the last `received_at` it has seen;
`shown[d][i]` the card it shows.

| Action | Code |
|---|---|
| `Connect`, `Drop`, `Send` | `ConnectionManager.connect`, `disconnect` and each `await ws.send_text` of `broadcast` |
| `Backfill` | `list_incidents` with `from=` (responders), `my_incidents` (drivers) |
| `Ingest`, then `Classify`, `LeavePending` or `Abandon` | `ingest_event` around `await classify`, with its broadcast |
| `PickUp`, then `Classify` or `Abandon` | the retry loop; each row of a batch is a session of its own |
| `Panic`, `Operate`, `Refresh` | `panic`, `_apply`, the movement loop: commit and broadcast from a fresh row |
| `Assign`, `Assigned` | `assign_unit` around `await road_route`: the columns it sets go into the row, its frame is its copy with these columns, all others as old as they were loaded |
| `ReportStatus`, `Announce` | `set_unit_status`, which sends the unit's frame before the incident's |
| `Restart` | the process dies with its connections and sessions |

A commit, the choice of receivers and the first send are one step (the hub's
lock is never held across a send, so taking it does not wait). Further sends
interleave with everything. Clients are outside the repository: they do what
API_CONTRACT.md section 5 obliges them to. Two choices favour them, so that what
is refuted is refuted for careful clients as well: the merge of a backfill is
atomic with the server's read, and frames that arrive before a client has caught
up do not count as the last it has seen. Page sizes and the limit of 200 rows
are not modelled: a backfill returns all rows that match.

### Accounts

State: `account[u]` the row of an email (absent, a driver, an active or an
inactive responder: the endpoint that creates a row fixes its role), `token[t]` a
row of `refresh_tokens` with its owner, whether it is revoked or past its
expiry, and the session it belongs to, that is, the first token of the chain it
was rotated from; `req[r]` a request in its thread: where it is, the rows it has
locked and what it read.

Each request has a thread and a transaction of its own, so an action here is one
SQL statement, or a statement and the commit that follows it. PostgreSQL runs
them READ COMMITTED, which the model spells out where it matters: a bulk
`UPDATE refresh_tokens` chooses its rows when it begins (`SweepStarts`), then
takes them in any order, waits for each row's lock and looks at the row
again (`SweepTakes`); what it wrote shows when its request commits.
Two statements that wait for each other's rows are a deadlock, which the
database ends by aborting one (`Aborts`).

| Action | Code |
|---|---|
| `Register`, `RegisterInserts` | `register`: the check of the email; account and token in one commit, or 409 |
| `Login`, `LoginInserts` | `login` and `_token_out` |
| `RefreshValid`, `RefreshLoads`, `Rotate` | `refresh` of a live token: SELECT FOR UPDATE, the account's row, the commit |
| `RefreshExpired`, `RefreshReused`, `ReuseCommits` | its two refusals that write |
| `Logout`, `LogoutWrites` | `logout`, which reads without a lock |
| `Authenticate` | `resolve_principal` and `require_role`, before the handler |
| `ChangePassword`, `PasswordCommits` | `change_password` around its bulk UPDATE; it goes on with the account its authentication loaded, or with the row as it is now if the session, which refers to its objects weakly, has dropped that one |
| `CreateResponder`, `CreateInserts` | `create_responder` |
| `PatchReads`, `PatchCounts`, `PatchCommits` | `update_responder`: the target, the count of those who remain, up to two bulk UPDATEs, the commit |
| `Answers` | requests that only read or are refused for what they carry |

`existing` and `others` are history: what a request found when it began, for the
properties to speak of.

`Sessions` leaves threads, locks and rows out: `owner[s]` and `current[s]` are
the account of a session and the one token that carries it on, `issued` the
tokens handed out, and `promise[r]` the tokens that request `r` is to end.
Sessions begin, rotate and end in one step; a bulk revocation is a promise
(`Give`) that is kept later (`Keep`, `KeepAndBegin`), by ending in one moment
the sessions whose current token it names and possibly others of the same
account, or not kept (`Forget`: refused with 409, or aborted). `Granted` in
`Accounts` maps `current[s]` to the one unrevoked token of the chain that began
with `s` and `promise[r]` to `existing`. The steps in between, locks taken and
rows visited, are stutters. The responders that exist initially (`Provisioned`)
come from `scripts/create_responder.py`.

### Devices

State: `device[d]` the committed row (whether there is one, whether it was heard
from, its last fix), `history[d]` the ages of its stored heartbeats,
`incident[d]` where its last incident is, `account[e]` the
device of an account, `request[r]` a registration in its thread and whether it
holds an uncommitted device row, `loop` the handler the event loop is stuck
in. `heard`, `beats` and `lost` are history: the last real fix that was
answered, the heartbeats that were, and the contacts that ended in an error.

| Action | Code |
|---|---|
| `Contact(c)`, with `Handle` | `ingest_event`, `heartbeat` or `panic` from `_upsert_device` to their commit: one step, there is no await in it |
| `GoOn` | the same handler after its INSERT had to wait for a registration's transaction |
| `Register` ... `Answers` | `register`, a statement per step: the check of the email, the look for the device, its flush, the flush of the account after the hash, the commit, the end of the session |
| `Tick`, `Prune` | time, and `_prune_heartbeats` |

A row's insert waits for another uncommitted insert of the same unique key:
after that one's commit it fails, after its rollback it succeeds. When it is a
handler on the event loop that waits, everything on the loop waits, also what
would end a request: `Answers` needs the loop, as the code that closes a
session of a `def` handler's dependency is scheduled from it. So `register` has to end its
transaction before it is refused: a flush that fails has rolled back already,
and accounts.py:86 makes it sure.

`Retention` is the configurable one of the pruning loop (config.py:41), `Longest`
the longest list that may be asked for (168 hours, devices.py:54). They are equal
by default only.

### Advice

State: `cache[u]` the source and the age of a unit's route, `osrm` whether the
routing service answers, `job[q]` the rows a request for options or an assignment
has read and, per unit, the route it has or waits for.

| Action | Code |
|---|---|
| `DispatchOptions(q)` with `Ask` | `dispatch_options` to its await: the available units, the shortlist, the units already on the call, the lookups in the cache |
| `AssignUnit(q)` | `assign_unit`'s call of `road_route` |
| `FetchEnds(q, u)` | one fetch of `road_route`: an answer, or after any error the estimate; both are stored |
| `Answer(q)` | the ranking, `Recommended` and `RoutingSource`, and the answer |
| `Tick`, `Outage` | time (an entry of age `Ttl` is gone), and OSRM |

A shortlist is any set that the sort by distance and its cut may leave
(`Shortlists`): units of equal distance keep the order of the query, which is not
specified. A unit stands for itself at one position, so it is a key of the cache. A tick
is longer than a fetch's timeout of eight seconds, so at most one falls into a
fetch.

### Relay

State: `contact[c]` a row of `emergency_contacts`, `sent[k]` the queue of a
limit's key, `clock`; `log[k]` the admissions since the start, for the properties.

| Action | Code |
|---|---|
| `AddContact`, `UpdateContact`, `DeleteContact` | the handlers of `sentinel.py`, with `ensure_device_access` and `_contact_owner` |
| `Send(k, p)` | `send`: the number, `_allowed_recipients`, `_check_rate`; refused by the limit or admitted, the provider's answer changes nothing |
| `Tick`, `Restart` | `time.monotonic()`; the queues live in the process |

No property speaks of the contacts: who may be messaged decides which requests
reach the limit, and what it means for one request is the definition itself.
`Normal` is `normalize_phone` as a table from spellings to numbers, so several
spellings of one number and malformed ones are covered without their characters.

### Verdict

State: the window `mag`, what the model says of it, the `setting` of
`SIGNATURE_PROFILE`, the scan (`seen`, `run`, `longest`), the incident's `row`.
`ScanSample` is one round of the loop in `crash_signature`; `Decide` is
`classify` in this process (`run_inference`, `run_threshold_only`) and
`_apply_classification`. `Selected`, `Total`, `BySeverity` and `ByLabelSource` are
`stats_summary` as operators on the rows. Magnitudes, durations and impulses are
integers (thousandths of g, ms), with the comparisons of the code.

## 3. Properties

`Dispatch`

* `StatusIsExplained`: every status other than `new` has an action on the
  timeline that leads to it.
* `StampsMatchStatus`: an incident at work is acknowledged, a closed one has
  its closing time, also after late writes.
* `RunIsRecorded`: a linked unit has an assignment on the timeline, its
  incident is no longer unattended, its clock runs, and a route never
  lacks a start time.
* `LinkedIdlesOnlyByPatch`: a unit that is linked to an incident is busy; it becomes
  idle on paper and stays linked only by the PATCH that wrote its status.
* `ClosedYieldsOnlyToAdmitted`: what is true of "acting on a closed incident is
  always 409": only an assignment admitted before the incident was closed can
  change it.
* `NobodyIsLeftBehind`: closing an incident frees every unit linked to it, however
  far it had come and whatever writes of its row are under way; a unit is linked to
  a closed incident only by an assignment admitted while it was open.
* `ResponseArrives`: a unit under way is shown on scene in the end, unless its
  run is cut short.
* `LifecycleSpec`: the incident's life is that of module `Lifecycle`.

`Ingest`

* `OneShakeOneIncident`, `ToldIsStored`: one row per event; whatever a device or
  dashboard was told is in the database.
* `SecondRunNeedsOverlap`: inference runs once per event, however often the device
  repeats it; a second time only if the loop loaded the row while the request that
  stored it still waited, and never a third time. ARCHITECTURE.md:210 promises one
  run, see section 6.
* `IngestInv`: the inductive invariant behind the safety properties: open
  requests and the loop's batch agree with the rows.
* `NothingIsUnmade`: no stored event disappears, no classification is undone.
* `BacklogDrains`: once the ML service is up for good, pending events become
  classified.

`Feed`

* `ShownIsPast`: every column of every card, and of every copy on its way to a
  client, was stored at some time, also across restarts. Not so the card as a
  whole, see section 6.
* `OnlyOlderAreMissed`: a client that has caught up and lacks a classified
  incident, with no frame for it under way, is a dashboard, and shows an
  incident received later. That is how far `from=` can be trusted.
* `FeedInv`: the inductive invariant behind both.

`Accounts`

* `OneLivePerSession`: refresh tokens rotate; of the tokens that descend from
  one login at most one is unrevoked, however the requests that present it
  overlap.
* `EndedStaysEnded`: a session without an unrevoked token stays so; no
  refresh that was under way revives it.
* `ExistingTokensAreRevoked`: "Every existing refresh token is revoked"
  (accounts.py:167): a committed password change, deactivation or reuse has
  revoked every token its account had when the request began, also those that
  others held locked. Tokens inserted after the UPDATE began are not
  covered, and do survive.
* `LogoutEndsTheSession`: a logout ends its session, unless a refresh of the same
  token overlaps it; the row is read without a lock.
* `TeamIsLostOnlyInARace`: the last active responder is lost only to a
  deactivation that had counted another active one, whom a concurrent request
  then deactivated. The code promises more (accounts.py:284), see section 6.
* `AccountsInv`: the inductive invariant: no row is locked twice, a token being
  rotated or revoked is unrevoked until its holder commits, and what a request
  is to end is its account's and is locked by it, yet to be visited, or gone.
* `SessionsSpec`: the table acts as module `Sessions` says. No
  token carries on a session it was not issued for, no step but a sign-in of the
  account begins one, and a bulk revocation ends sessions of its own account
  only, among them all it was to end that were not refreshed meanwhile.

`Devices`

* `DevicesInv`: a device row is inserted by one transaction at a time; an
  account's device exists; a refused registration leaves no device behind.
* `AtMostOneContactIsLost`: a first contact that overlaps a registration may end
  in an error, once per device; its repetition finds the row.
* `HistoryIsComplete`: a list shows heartbeats that were answered and all of them
  within the retention, for every length the list may have, however pruning falls.
* `PanicIsPlaced`: a panic without a fix is placed where the device last
  reported a real, valid one, and nowhere only if it never did.
* `LoopIsFreed`: whatever handler waits for a registration, the loop goes on.

`Advice`

* `AdviceInv`: the inductive invariant. Nobody fetches a route that is in the
  cache (`EntriesAreNewerThanFetches`), so an estimate can take a road route's
  place only through a failed fetch that overlapped the successful one; a shortlist
  holds the nearest of each type (`ShortlistIsKept`), and
  every shortlisted unit is routed (`ShortlistIsRouted`), so each can be ranked.
* `RecommendedIsFastest`: an answer routed by road recommends a unit of each
  required type that has one; a faster one of that type exists only if at least
  `Candidates` others are as near, as the crow flies.
* `EstimatesDieOut`: once the service is back for good, every answer is by road
  in the end, however often it is asked for.

`Relay`

* `WithinLimit`: of any limit + 1 admissions of one key in a row the first and
  the last are more than a window apart. The queues live in the process
  (sms.py:78), so this is a limit per process: a restart forgets what was sent,
  and the log of the model begins anew with it.
* `WindowIsExact`: a request is weighed against exactly the admissions of the last
  window. `RelayInv` is the inductive invariant behind both.

`Verdict`

* `ScanIsExact`: after any number of samples, `run` and `longest` are the last and
  the longest excursion (defined without the scan).
* `CrashIsAgreed`: a crash is confirmed exactly if the window, looked at as a
  whole, meets the gate and the model alerts (where it has a say).
* `FiguresCountTheModel`: a verdict the model took part in counts once in every
  figure, panics and demo runs nowhere, and the figures add up. Whether a pending
  incident counts is left open: contract and query disagree, see section 6.

## 4. The runs

| Run | Instance | Shows |
|---|---|---|
| `desk` | 2 incidents, one without coordinates, 1 unit, 1 request, PATCH overrides, all reports | type, timeline, arrival, refinement |
| `races` | 2 incidents, 1 unit, 2 requests, symmetric, PATCH of the status | what survives overlapping stale requests |
| `retry` | 2 events, 2 requests, batches of 1, 1 restart | all properties of `Ingest` |
| `feed` | 2 incidents, of which the status of one is written up to twice, 1 dashboard, 1 driver app that may see the other, 2 sessions, 1 drop or restart | `FeedInv`, `ShownIsPast`, `OnlyOlderAreMissed` |
| `sessions` | 1 provisioned responder, 1 further email, 3 tokens of which 1 may expire, 2 requests, 2 kinds of PATCH body | all properties of `Accounts`; every wait for a lock ends |
| `relay` | 1 device, 1 key, 1 contact row with 2 possible owners, 4 spellings, a limit of 2 in 2 ticks, 6 ticks | `WithinLimit`, `WindowIsExact`, `RelayInv` |
| `verdict` | all windows of 6 samples at 20 Hz with 3 magnitudes, 4 settings, every answer of the model | all properties of `Verdict` |
| `advice` | 3 ambulances, two of them equally far and two equally fast, 1 police car, a shortlist of 2, 1 request for options, 1 assignment | all properties of `Advice` |
| `devices` | 1 device that is heard from, 1 that is only registered, 2 emails, 2 registrations, lists longer than the retention | all properties of `Devices` |
| `assign` | 2 incidents, 1 unit, 2 requests | a documented promise that races break |
| `rejected` | 2 events | a documented promise about the retry loop |
| `lifecycle` | 1 dashboard | a documented promise about what clients see |

Deadlock checking is off for `Dispatch`, `Ingest` and `Feed`: operators and
devices may stop acting, and a system in which nobody asks for anything may
rest. It is off for `Verdict`, whose one window is decided once. It is on for
`Accounts` and `Devices`, whose requests must always be able to end, and for
`Relay` and `Advice`.

**Bounds.** `Incidents`, `Units` and `Requests` are small because the hazards
are pairwise: two requests that hold the same rows (`Requests` = 2), a unit that
is moved between incidents (`Incidents` = 2). One unit is enough for the safety
properties, which speak of one unit at a time; a second unit interacts with the
first only through the incident. `ManualActions`, `Reports`, `PatchStatuses` and
`PatchActives` are the inputs operators give in a run; `desk` has one of every
kind, `races` leaves out those that only repeat another's effect so that two
requests fit. One value of `Routes` suffices: travel times are compared with
null only, time passing is `Tick`. For `Ingest`, two events make a queue in
which one is behind the other, two requests let attempts for one event and for
two events overlap, `Batch` = 1 makes the backlog longer than a batch (10 in the
code), and `MaxRestarts` = 1 lets the process die at every point once.
`RequestSymmetry` and `SessionSymmetry` are used only where no liveness is
checked. For `Feed`, one dashboard and one app are enough, since no property
relates two clients; two sessions give one stale copy and one fresh frame; two
incidents give an older and a newer one; `MaxLife` bounds the writes to each
incident's status: two to the incident only the dashboard sees, one by an
operator while an assignment waits and the assignment's own, and none to the
other, whose part is its arrival; and `MaxDrops` = 1 breaks the connection, or
restarts the process, at every point once. For `Accounts`, two requests and
three tokens (one login rotated twice, or two logins of one account with one
rotation) give every overlap of two statements. `Tokens` bounds what may be
issued: a request that would issue a token begins only if one is left for it
(`Room`). `Aging` bounds whose thirty days may pass. `Bodies` bounds what a
PATCH sets: here a deactivation together with a new password (two bulk updates
in one transaction) or an activation alone (none); a single bulk update is that
of a changed password or of a reused token. For `Devices`, two registrations of
the same or of different devices and emails give every pair of conflicts on the
two unique keys; only one of the devices needs contacts (`Reporting`), since
contacts of two devices never meet. `Retention` is one tick and `Longest` two: a
heartbeat may be younger, at the cutoff, beyond it but still listed, or out of
every list. For `Advice`, `Candidates` = 2 leaves one ambulance off the
shortlist, which may be the fastest: two are equally far and either may be cut;
`Sent`, `Ready` and `Severities` bound which units may be assigned, which are
always available and how severe the incident may be; `Ttl` is two ticks, the
least that lets an entry be renewed before it ends. For `Relay`, `Horizon` ends
the clock after three windows, so a window begins inside another and is
forgotten again. For `Verdict`, six samples at 20 Hz last 300 ms, longer than
the longest legal excursion and with room for two separate ones; the three
magnitudes (`Levels`) are below the floor, inside the band of every profile, and
at the limit of one; `Tuning` sets one of the demo's five variables.

**Fairness.** `Dispatch` assumes weak fairness of `Advance` (the loop in
`main.py` runs every three seconds and survives exceptions) and of `Tick` (time
passes). `Ingest` assumes it of the retry loop and of each open request: calls
of the ML service have timeouts, so a stretch after an await is reached. No
operator, device or ML service is assumed to do anything; that the service
comes back is the premise of `BacklogDrains`. `Advice` assumes it of time, of
fetches (they have a timeout) and of handlers whose routes are there; that
OSRM comes back is the premise of `EstimatesDieOut`. `Devices` assumes it of
threads and of a waiting insert, which the database wakes: not of contacts or
registrations. `Feed`, `Accounts`, `Relay` and `Verdict` state safety only
and assume no fairness.

### What the repository says and the runs refute

| Run | Statement | What happens |
|---|---|---|
| `assign` | API_CONTRACT.md:308 409 "if the incident is closed, if the unit is already committed to a different incident, or if it is inactive" | an assignment waiting for its route commits after the incident was resolved and reopens it (or moves a unit that was assigned elsewhere meanwhile) |
| `rejected` | API_CONTRACT.md:419 the loop retries "in batches of 10 oldest-first" | a window answered with 4xx ends every round and starves those behind it |
| `lifecycle` | tests/test_mobile_dashboard_sync.py:1 "share one incident lifecycle" | an operator acts on an incident whose request waits for its classification; the request's older copy is broadcast last and stays on the dashboards |

## 5. What is proved

Every theorem holds for all values of the constants that satisfy the assumptions
of its module (TLC evaluates them on the instances).

For `Dispatch`:

* `DispatchProofs`: `TypeCorrect`, `Invariance` (`Spec => []DispatchInv`) and
  from it `TimelineExplains`, `StampsHold`, `RunsAreRecorded`,
  `LinkedUnitsAreBusy` (where no PATCH sets a status).
  They give, step by step, `ClosedYields`, `OnlyAPatchIdles`, `ClosingFreesAll` and
  `DispatchImplementsLifecycle`.

The argument. None of the state invariants is inductive alone, because
`AssignCommit` writes on the strength of rows read earlier. `InFlight` says
what is still true of them: an admitted assignment saw an open incident; if it
saw it acknowledged or dispatched, the incident is acknowledged and has not
fallen back to `new`; if it saw it dispatched, it has not fallen back to
`acknowledged`; if it saw the unit linked, the unit was busy with that
very incident. These facts are stable under every other action, since an
incident only moves forward and timestamps are never cleared, and they are
exactly what makes the late commit keep the other conjuncts. `DispatchInv` is
the conjunction; one lemma per action shows that the action preserves it, and
`Invariance` combines them. The refinement maps an admitted assignment to a
promise of `Lifecycle` and needs `DispatchInv` in the steps of `SetUnitStatus`
and `AssignCommit`.

For `Feed`:

* `FeedProofs`: `FeedInvariance` (`Spec => []FeedInv`) and from it `FeedTypes`,
  `OnlyThePastIsShown` and `BackfillCovers`.

`OnlyOlderAreMissed` is not inductive: after a drop, whether a client lacks
something older or something newer depends on what it counts as the last it has
seen. `FeedInv` adds that this time is never beyond the newest arrival
(`LatestIsNewest`), that a dashboard has a card from then or later
(`FromWasSeen`), and that what it lacks was received before
(`MissedIsBehindFrom`). Nearly all actions change the cards through one
broadcast, or not at all, of one incident; `StepKeeps` proves the invariant for
any such step from what it does to rows, sessions, cards and connections, and
each action's lemma shows that it is such a step.

For `Accounts`:

* `AccountsProofs`: `AccountsInvariance` (`Spec => []AccountsInv`) and from it
  `AccountsTyping`, `RotationIsLinear`, `OverIsOver`, `LogoutIsFinal`,
  `RevocationIsComplete` and `OnlyARaceLosesTheTeam`; with it, step by step,
  `AccountsImplementSessions` (`Spec => SessionsSpec`).

`OneLivePerSession` depends on what a refresh between its SELECT FOR UPDATE and
its commit may rely on: the row it holds is still unrevoked. That is true because
others write a row only when nobody else holds it, so the invariant speaks of
locks. `RespectsLocks` says that of a step, `OthersKeep` concludes that the
other requests keep what they rely on, and `StepKeeps` that such a step keeps
the invariant; each action's lemma shows that it is such a step. `SessionsGoOn`
shows that a step adds a token only to a new session or to one that was live,
from which `OverIsOver` follows.

The refinement needs more than that. A bulk revocation that takes effect in one
abstract step must not have ended anybody else's session, so `RequestOK` also says
that the rows a request has visited or will visit are its account's, and that a
request which does not revoke has none; and the token that names a session must
keep its owner (`SessionsAreRooted`). By `OneLivePerSession` a session has
one live token at most (`TheOnlyOne`), so `current[s] = t` says that `t` is that
token (`LiveIsCurrent`, `CurrentIsLive`). `TableStep` reduces a step to its effect on the
unrevoked tokens of each session. What a promise names is then gone when it is
kept because `existing` is either swept or was revoked by others
(`SweptFulfil`), and `EndForgets` covers refusals and aborts, which promise nothing
any more.

For `Ingest`:

* `IngestProofs`: `IngestInvariance` (`Spec => []IngestInv`) and from it
  `OneShakeIsOneIncident`, `WhatWasToldIsStored`, `InferenceIsBounded` and
  `WhatIsMadeStays`.

What a request or the loop writes after its await rests on the copy it took
before, so the invariant says what the copies may hold: never more than the rows
(`RequestsAgree`, `LoopAgrees`). The bound on inference counts the requests that
await a result, of which there is at most one per event (`CountIsBounded`, from
facts about cardinalities), and the loop's batch, which holds an event once. A row
that the loop loads has been classified by nobody, and if a request is waiting for
it the event is in `overlapped` from that step on; if none is, its request has given up
or is gone, and no later one will classify it.

For `Relay`:

* `RelayProofs`: `RelayInvariance` (`Spec => []RelayInv`), `RelayTypes`,
  `LimitHolds` and `WindowIsTheLastOne`.

The limit itself is not inductive: it needs that the queue is the end of the log
and that what left the queue is older than the window (`QueueIsTail`).
`DroppingKeepsTail` shows that dropping keeps both, for the number of entries
that `_check_rate`'s loop drops. `TailIsWindow` counts the window by a bijection
with the end of the log.

For `Verdict`:

* `VerdictProofs`: `VerdictTypes` and `LongestIsExact`; then `CrashNeedsBoth`,
  `FiguresAreTrue`.

`ScanIsExact` with the type invariant is inductive; the step
splits on whether the next sample is above the floor and whether it makes the
excursion the longest. `DecidedInv` adds that a row is empty until the scan
is over and afterwards what the decision makes of it. `GateIsExact` then
replaces the scanned duration by what the window as a whole has: the duration is
between the limits exactly if some excursion lasts long enough and none lasts too long,
since a longer one lasts longer (`LongerLasts`, where the division rounds down).
The maximum of the library is a `CHOOSE`: `MaxIsGreatest` shows by well-founded
induction on finite subsets that it is one, and `PeakIsReached` that the peak is some
sample's. The figures are cardinalities of sets of rows, which split by label
(`CountByThree`, `FiguresAddUp`). What remains abstract is the sum in
`ImpulseAbove`: no theorem needs its value.

For `Advice`:

* `AdviceProofs`: `AdviceInvariance`, `NobodyAsksForWhatIsKept` and
  `FastestIsRecommended`. The invariant relates the age of an entry to the
  fetches of its route: a fetch begins only if there is no entry, so what
  is stored meanwhile is younger. The recommendation needs that every available type
  is on the shortlist (`TypesAreShortlisted`) and that every unit left out has as
  many others at least as near (`LeftOutAreFar`). The roster is any finite set, with
  any distances and travel times; the fastest is a least element of it (`LeastOf`).

For `Devices`:

* `DevicesProofs`: `DevicesInvariance`, `OneLossAtMost`, `ListsAreComplete`,
  `PanicsArePlaced` and `NoCircularWait`.

`DevicesInv` says what a registration relies on between its statements: the
device it holds is nobody else's row, and the email it has inserted is free
(`RequestOK`, `InsertsExclude`). That a contact is lost once at most follows from the
waiting handler: it waits only for an insert of a row that does not exist, and
whoever has lost a contact has lost it to a commit of that row, so a device
with a waiting handler has lost nothing. Steps of handlers leave requests alone and
steps of requests leave contacts alone (`HandleKeeps`, `RequestKeeps`).
`AgreeingLists` turns "for every length of the list" into agreement age by age up
to the retention, which `Tick` and `Prune` preserve, and `CompleteLists` does so
for all devices. `NoCircularWait` is the safety half of `LoopIsFreed`:
whenever somebody waits for an uncommitted row, some registration runs on without
waiting, because devices are locked before emails.

Only model-checked: the liveness properties `ResponseArrives`, `BacklogDrains`,
`EstimatesDieOut` and `LoopIsFreed`. They rest on fairness, and so on `ENABLED`,
which is out of the prover's reach. Every other property of a passing run is a
theorem.

## 6. What is not modelled, and why

* Frames about units, devices and contacts: `Feed` is about incidents.
* A worker thread's commit inside the stretch between select and commit of a
  handler that never awaits: such stretches are one step in `Dispatch`.
  `assign_unit`'s await and the threads' own read-to-commit windows are modelled
  in full, and so is what `register` does to handlers in `Devices`.
* Who acknowledged an incident, notes and positions of units.
* The clock of access tokens and their cutoff (`sessions_valid_from`), the
  deletion of expired tokens by the pruning loop, passwords, names, and
  `create_responder.py` while the service runs.
* The pool of database connections: `assign_unit` and `ingest_event` keep one while
  they await, and the loop blocks when none is left.
* The low-pass filter, the features and the trained model, great-circle geometry
  and the position along a route: numerical code. What they return is arbitrary in
  `Verdict` and `Advice`.
* The SMS and ML providers' protocols; windows in m/s2 (refused before any state
  changes); events repeated in `Devices` (they change nothing there; `Ingest` has
  them).
* Projections that only read: online/offline, protection status, milestones,
  means and periods of the statistics, listings, health.
* Migrations and scripts, run by hand or once.

Behaviour of the code that the models contain and no run refutes, for a reader
who expects more:

* A dashboard that backfills by the last `received_at` it has seen lacks an
  incident received earlier and classified while its socket was down;
  `OnlyOlderAreMissed` is exactly what remains (API_CONTRACT.md:406).
* Two responders who deactivate each other at once both succeed;
  `TeamIsLostOnlyInARace` says that this is the only way to lose the team
  (tests/test_responder_auth.py:185).
* `delete_unit` may delete a unit that was assigned after its check.
* Inference can run twice for one event: the retry loop may load the row of a
  request that still waits for its own classification. ARCHITECTURE.md:210 says
  "one shake, one incident, inference runs once"; `SecondRunNeedsOverlap` is what
  remains of it.
* `assign_unit` broadcasts the copy it loaded before it awaited the route, with its
  own writes in it (units.py:246-257; db.py:22, nothing expires). If the incident was
  resolved meanwhile, the frame shows it dispatched and without its closing time, and
  the row has both: a card that was never stored. `ShownIsPast` holds column by
  column, and `OneLifecycle` is refuted.
* A pending incident has no `label_source`, so `NOT IN` leaves it out of the
  summary (stats.py:24), and the figure `by_severity.pending` of API_CONTRACT.md:202
  and stats.py:36 counts none of them. `FiguresCountTheModel` holds either way.
* The recommendation is the "fastest available" (units.py:181) only among those
  routed: a unit that is cut from the shortlist by its distance may be faster.
* With `HEARTBEAT_RETENTION_DAYS` (config.py:41) below seven, a list of 168 hours
  (devices.py:54) lacks heartbeats that were answered; `HistoryIsComplete` promises
  no more than the retention.
* An event's position is kept even if its receiver calls it invalid
  (ingest.py:116), unlike the device's last fix (ingest.py:39).

## 7. Plan

1. `Lifecycle`, `Dispatch`, their runs and proofs (done).
2. `Ingest` and `IngestProofs` (done).
3. `Feed` and `FeedProofs` (done).
4. `Accounts` and `AccountsProofs` (done).
5. `Devices` and `DevicesProofs` (done).
6. `Advice`, `Relay`, `Verdict` and their proofs (done).
7. `Sessions` and the refinement of it by `Accounts` (done).
8. The connection pool, and the cutoff of access tokens; abstract specifications
   of `Ingest` and `Feed` in the manner of `Sessions`.
