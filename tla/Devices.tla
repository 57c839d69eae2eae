------------------------------- MODULE Devices -------------------------------
(***************************************************************************)
(* How devices become known, where they were last, and their heartbeats:   *)
(*   app/modules/ingest.py    _upsert_device, heartbeat, the fix of events *)
(*   app/modules/sentinel.py  panic                                        *)
(*   app/modules/accounts.py  register, which inserts devices too          *)
(*   app/modules/devices.py   the heartbeats that are listed               *)
(*   app/main.py              _prune_heartbeats                            *)
(*                                                                         *)
(* Events, heartbeats and panics run on the event loop and do not await    *)
(* between the look at the devices and their commit, so each is one step.  *)
(* A registration runs in a thread, a step per statement: it inserts the   *)
(* device, hashes the password and inserts the account in one transaction. *)
(* Another insert of the same key waits until that transaction is over; if *)
(* it is a handler that waits, the whole loop waits.                       *)
(***************************************************************************)
EXTENDS Integers, FiniteSets

CONSTANTS
    Ids,          \* device_id values
    Reporting,    \* bound: those that are heard from, the others are only registered
    Emails,       \* the emails accounts may have
    Requests,     \* registrations that may be under way at the same time
    Places,       \* real positions
    NoFix, Never, NoDevice, Free,
    Retention,    \* HEARTBEAT_RETENTION_DAYS, in ticks
    Longest       \* the longest list of heartbeats that can be asked for, in ticks

ASSUME DevicesAssumption ==
    /\ Retention \in Nat /\ Longest \in Nat
    /\ Reporting \subseteq Ids
    /\ NoFix \notin Places /\ NoDevice \notin Ids

VARIABLES
    device,    \* device[d]: whether its row is committed, it was heard from, its last fix
    heard,     \* heard[d]: the last real fix it reported as valid and was answered
    history,   \* history[d]: the ages of its stored heartbeats
    beats,     \* beats[d]: the ages of the heartbeats that were answered
    incident,  \* incident[d]: where its last incident is, or Never
    account,   \* account[e]: the device of the account with email e, or NoDevice
    request,   \* request[r]: a registration
    loop,      \* the handler the event loop is stuck in, or Free
    lost       \* lost[d]: contacts of d that ended in an error

vars == <<device, heard, history, beats, incident, account, request, loop, lost>>

\* What a GPS block says: a position, null island or none, and whether valid.
Gps == [at: Places \union {"zero", "none"}, valid: BOOLEAN]

Kinds == {"event", "heartbeat", "panic"}

Contacts == [device: Reporting, kind: Kinds, gps: Gps]

ASSUME NullAssumption ==
    /\ Never \notin Places \union {NoFix}
    /\ Free \notin Contacts

\* `holds`: the request has inserted its device and not committed it.
Idle == [at |-> "idle", holds |-> FALSE]

Phases == {"email", "device", "insert", "hash", "commit", "done"}

Known(d) == device[d].known

\* Ages beyond what is kept and what can be asked for are not told apart.
Oldest == (IF Retention < Longest THEN Longest ELSE Retention) + 1

Ages == 0..Oldest

TypeOK ==
    /\ device \in [Ids -> [known: BOOLEAN, seen: BOOLEAN, fix: Places \union {NoFix}]]
    /\ heard \in [Ids -> Places \union {NoFix}]
    /\ history \in [Ids -> SUBSET Ages]
    /\ beats \in [Ids -> SUBSET Ages]
    /\ incident \in [Ids -> Places \union {NoFix, Never}]
    /\ account \in [Emails -> Ids \union {NoDevice}]
    /\ request \in [Requests -> [at: Phases, holds: BOOLEAN, email: Emails, device: Ids]
                                \union {Idle}]
    /\ loop \in Contacts \union {Free}
    /\ lost \in [Ids -> 0..2]

Init ==
    /\ device = [d \in Ids |-> [known |-> FALSE, seen |-> FALSE, fix |-> NoFix]]
    /\ heard = [d \in Ids |-> NoFix]
    /\ history = [d \in Ids |-> {}] /\ beats = [d \in Ids |-> {}]
    /\ incident = [d \in Ids |-> Never]
    /\ account = [e \in Emails |-> NoDevice]
    /\ request = [r \in Requests |-> Idle]
    /\ loop = Free
    /\ lost = [d \in Ids |-> 0]

-----------------------------------------------------------------------------
(* The event loop's handlers                                               *)

\* clean_fix: null island is no fix.
CleanFix(at) == IF at \in Places THEN at ELSE NoFix

\* A faulty variant: whatever the receiver calls valid is the last fix.
FixAfterUnchecked(d, gps) == IF gps.valid THEN CleanFix(gps.at) ELSE device[d].fix

\* _upsert_device: only a real, valid fix replaces the last one.
FixAfter(d, gps) ==
    IF gps.valid /\ CleanFix(gps.at) # NoFix THEN gps.at ELSE device[d].fix

\* Where the incident of an event or a panic is.  An event's position is kept
\* whether or not the receiver calls it valid.
IncidentAt(c) ==
    IF CleanFix(c.gps.at) # NoFix \/ c.kind = "event" THEN CleanFix(c.gps.at)
    ELSE device[c.device].fix

\* The whole handler, once its device is there or is inserted by it.
Handle(c) ==
    LET d == c.device
    IN  /\ device' = [device EXCEPT
                         ![d] = IF c.kind = "panic" THEN [@ EXCEPT !.known = TRUE]
                                ELSE [known |-> TRUE, seen |-> TRUE, fix |-> FixAfter(d, c.gps)]]
        /\ heard' = [heard EXCEPT ![d] =
                        IF c.kind # "panic" /\ c.gps.valid /\ c.gps.at \in Places
                        THEN c.gps.at ELSE @]
        /\ IF c.kind = "heartbeat"
           THEN /\ history' = [history EXCEPT ![d] = @ \union {0}]
                /\ beats' = [beats EXCEPT ![d] = @ \union {0}]
                /\ UNCHANGED incident
           ELSE /\ incident' = [incident EXCEPT ![d] = IncidentAt(c)]
                /\ UNCHANGED <<history, beats>>

\* A registration holds an uncommitted row of the device.
Inserting(d) == \E r \in Requests : request[r].holds /\ request[r].device = d

\* A contact is handled at once, or finds no row and waits with its insert.
Contact(c) ==
    /\ loop = Free
    /\ IF ~ Known(c.device) /\ Inserting(c.device)
       THEN loop' = c /\ UNCHANGED <<device, heard, history, beats, incident>>
       ELSE Handle(c) /\ UNCHANGED loop
    /\ UNCHANGED <<account, request, lost>>

Fail(c) ==
    /\ lost' = [lost EXCEPT ![c.device] = @ + 1]
    /\ UNCHANGED <<device, heard, history, beats, incident>>

\* A faulty variant: the insert does not wait for the other transaction.
GoOnAtOnce ==
    /\ loop # Free
    /\ Fail(loop)
    /\ loop' = Free /\ UNCHANGED <<account, request>>

\* The other transaction is over: after its commit the key is taken, and the
\* handler ends in an error; after its rollback the insert succeeds.
GoOn ==
    /\ loop # Free
    /\ ~ Inserting(loop.device)
    /\ IF Known(loop.device) THEN Fail(loop) ELSE Handle(loop) /\ UNCHANGED lost
    /\ loop' = Free /\ UNCHANGED <<account, request>>

-----------------------------------------------------------------------------
(* register                                                                *)

Unrelated == <<heard, history, beats, incident, loop, lost>>

GoTo(r, phase) == request' = [request EXCEPT ![r].at = phase]

Register(r) ==
    \E e \in Emails, d \in Ids :
        /\ request[r] = Idle
        /\ loop = Free
        /\ request' = [request EXCEPT ![r] =
                          [at |-> "email", holds |-> FALSE, email |-> e, device |-> d]]
        /\ UNCHANGED <<device, account, Unrelated>>

\* 409 if the email is taken.
LooksForEmail(r) ==
    /\ request[r].at = "email"
    /\ GoTo(r, IF account[request[r].email] # NoDevice THEN "done" ELSE "device")
    /\ UNCHANGED <<device, account, Unrelated>>

LooksForDevice(r) ==
    /\ request[r].at = "device"
    /\ GoTo(r, IF Known(request[r].device) THEN "hash" ELSE "insert")
    /\ UNCHANGED <<device, account, Unrelated>>

\* A faulty variant: the device is committed before the account is there.
CommitsDevice(r) ==
    /\ request[r].at = "insert"
    /\ ~ Inserting(request[r].device)
    /\ GoTo(r, IF Known(request[r].device) THEN "done" ELSE "hash")
    /\ device' = [device EXCEPT ![request[r].device].known = TRUE]
    /\ UNCHANGED <<account, Unrelated>>

\* The first flush; an error here, the key being taken meanwhile, is a 500.
InsertsDevice(r) ==
    /\ request[r].at = "insert"
    /\ ~ Inserting(request[r].device)
    /\ request' = [request EXCEPT
                      ![r].at = IF Known(request[r].device) THEN "done" ELSE "hash",
                      ![r].holds = ~ Known(request[r].device)]
    /\ UNCHANGED <<device, account, Unrelated>>

\* Another registration has inserted the email and not committed it.
EmailInserting(r) ==
    \E s \in Requests : request[s].at = "commit" /\ request[s].email = request[r].email

\* A faulty variant: a refusal that leaves its transaction open; only the loop ends
\* it, when it closes the session.
InsertsAccountNoRollback(r) ==
    /\ request[r].at = "hash"
    /\ ~ EmailInserting(r)
    /\ GoTo(r, IF account[request[r].email] # NoDevice THEN "done" ELSE "commit")
    /\ UNCHANGED <<device, account, Unrelated>>

\* The second flush; if the email is taken now it fails, which ends the transaction
\* before the 409, as the rollback that follows it does.
InsertsAccount(r) ==
    /\ request[r].at = "hash"
    /\ ~ EmailInserting(r)
    /\ IF account[request[r].email] # NoDevice
       THEN request' = [request EXCEPT ![r].at = "done", ![r].holds = FALSE]
       ELSE GoTo(r, "commit")
    /\ UNCHANGED <<device, account, Unrelated>>

Commits(r) ==
    /\ request[r].at = "commit"
    /\ device' = IF request[r].holds THEN [device EXCEPT ![request[r].device].known = TRUE]
                                     ELSE device
    /\ account' = [account EXCEPT ![request[r].email] = request[r].device]
    /\ request' = [request EXCEPT ![r].at = "done", ![r].holds = FALSE]
    /\ UNCHANGED Unrelated

\* The loop closes the session, and with it a transaction still open.
Answers(r) ==
    /\ request[r].at = "done"
    /\ loop = Free
    /\ request' = [request EXCEPT ![r] = Idle]
    /\ UNCHANGED <<device, account, Unrelated>>

-----------------------------------------------------------------------------
(* Time                                                                    *)

Older(ages) == {a + 1 : a \in ages \ {Oldest}}

Tick ==
    /\ history' = [d \in Ids |-> Older(history[d]) \union (history[d] \intersect {Oldest})]
    /\ beats' = [d \in Ids |-> Older(beats[d]) \intersect (0..Longest)]
    /\ UNCHANGED <<device, heard, incident, account, request, loop, lost>>

\* A faulty variant: heartbeats at the very cutoff are deleted.
ExpiredAtCutoff(a) == a >= Retention

Expired(a) == a > Retention

\* _prune_heartbeats, on the loop.
Prune ==
    /\ loop = Free
    /\ history' = [d \in Ids |-> {a \in history[d] : ~ Expired(a)}]
    /\ UNCHANGED <<device, heard, beats, incident, account, request, loop, lost>>

\* GET /devices/{id}/heartbeats: those of the last `ticks`, at most Longest.
Heartbeats(d, ticks) == {a \in history[d] : a <= ticks}

Proceeds(r) == \/ LooksForEmail(r) \/ LooksForDevice(r) \/ InsertsDevice(r)
               \/ InsertsAccount(r) \/ Commits(r) \/ Answers(r)

Next == \/ \E c \in Contacts : Contact(c)
        \/ GoOn
        \/ \E r \in Requests : Register(r) \/ Proceeds(r)
        \/ Tick
        \/ Prune

Spec == Init /\ [][Next]_vars

\* Threads and the loop go on whenever they can.
FairSpec == Spec /\ WF_vars(GoOn) /\ \A r \in Requests : WF_vars(Proceeds(r))

-----------------------------------------------------------------------------
(* Properties                                                              *)

\* Uncommitted rows of one key belong to one transaction.
InsertsExclude ==
    \A r, s \in Requests : r # s =>
       /\ request[r].holds /\ request[s].holds => request[r].device # request[s].device
       /\ request[r].at = "commit" /\ request[s].at = "commit" =>
             request[r].email # request[s].email

\* What a registration relies on: it holds a device only between its insert and
\* its commit, and only one that nobody else has committed; without it the
\* device is there already; and the email it has inserted is not taken.
RequestOK(r) ==
    /\ request[r].holds => request[r].at \in {"hash", "commit"} /\ ~ Known(request[r].device)
    /\ request[r].at \in {"hash", "commit"} /\ ~ request[r].holds => Known(request[r].device)
    /\ request[r].at = "commit" => account[request[r].email] = NoDevice

AccountsHaveDevices == \A e \in Emails : account[e] # NoDevice => Known(account[e])

\* A device is known only by a contact or an account: a refused registration
\* leaves none behind (accounts.py:86).
KnownForAReason ==
    \A d \in Ids :
       Known(d) => \/ device[d].seen \/ incident[d] # Never
                   \/ \E e \in Emails : account[e] = d

\* Rows, registrations under way and the waiting handler fit together: the
\* invariant from which the properties of this module are proved.
DevicesInv ==
    /\ TypeOK
    /\ InsertsExclude
    /\ \A r \in Requests : RequestOK(r)
    /\ AccountsHaveDevices
    /\ KnownForAReason
    /\ \A d \in Ids : device[d].fix = heard[d]
    /\ loop # Free => lost[loop.device] = 0

\* A registration can cost a device at most one contact, and one that was lost
\* finds the row when it is repeated (ingest.py:26).
AtMostOneContactIsLost ==
    \A d \in Ids : lost[d] > 0 => lost[d] = 1 /\ Known(d)

\* However long a list is asked for, it shows heartbeats that were answered and
\* has no gap among those within the retention, whenever the old ones are deleted;
\* of what is older it may show some (main.py:88, devices.py:54).
HistoryIsComplete ==
    \A d \in Ids, ticks \in 0..Longest :
        LET answered == {a \in beats[d] : a <= ticks}
        IN  /\ Heartbeats(d, ticks) \subseteq answered
            /\ {a \in answered : a <= Retention} \subseteq Heartbeats(d, ticks)

\* A panic without a fix is placed where the device last had one, whatever it
\* reported since, and without one only if it never had (sentinel.py:72).
PanicIsPlaced ==
    [][\A c \in Contacts :
          c.kind = "panic" /\ CleanFix(c.gps.at) = NoFix /\ Contact(c) /\ loop' = Free =>
             incident'[c.device] = heard[c.device]]_vars

\* Whatever handler waits for a registration, the loop goes on (accounts.py:86).
LoopIsFreed == loop # Free ~> loop = Free
=============================================================================
