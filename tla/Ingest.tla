-------------------------------- MODULE Ingest --------------------------------
(***************************************************************************)
(* How a crash event becomes a stored and classified incident:             *)
(*   app/modules/ingest.py             the handler of POST /events         *)
(*   app/main.py                       the loop that retries what is       *)
(*                                     still pending, every 60 s           *)
(*   app/modules/inference/service.py  what a call of classify can end in  *)
(*                                                                         *)
(* The handler and the loop run on one event loop and are interrupted      *)
(* where they await: while classify runs, and while a broadcast is sent.   *)
(* Between those points nothing else runs, so the idempotency check, the   *)
(* device upsert and the commit of incident and window are one action.     *)
(*                                                                         *)
(* A classification is a function of the window; what is modelled is       *)
(* whether it is known, where, and how often inference ran for it.  Device *)
(* and ML service are outside the repository: the device repeats an event  *)
(* until an answer reaches it, the ML service is up, down or broken.       *)
(***************************************************************************)
EXTENDS Naturals, FiniteSets, SequencesExt

CONSTANTS
    Events,        \* event ids; each belongs to one window
    Attempts,      \* requests for POST /events that may be open at once
    Batch,         \* how many pending incidents the loop takes per round
    Rejected,      \* events whose window the ML service answers with 4xx
    MaxRestarts,   \* bound: how often the process may die
    None           \* no request, no answer, no card

ASSUME EventAssumption == Rejected \subseteq Events /\ None \notin {"pending", "classified"}

ASSUME BatchAssumption == Batch \in Nat \ {0} /\ MaxRestarts \in Nat

VARIABLES
    stored,     \* stored[e]: the incident's row: absent, pending or classified
    queue,      \* stored events, by received_at
    handler,    \* handler[a]: the open request, or None
    loop,       \* the retry loop: where it is, and the rows it still holds
    ml,         \* the ML service
    runs,       \* runs[e]: classifications obtained for e
    card,       \* card[e]: what the last frame about e told the dashboards
    answer,     \* answer[e]: the answer that reached the device
    restarts,   \* how often the process died
    overlapped  \* history: events the loop loaded while their request still waited

vars == <<stored, queue, handler, loop, ml, runs, card, answer, restarts, overlapped>>

Results == {"pending", "classified"}

Asleep == [at |-> "sleep", rows |-> <<>>]

\* The row in an open request is the session's own copy: what another session
\* commits meanwhile does not show in it.
OpenRequest == [event: Events, at: {"classify", "broadcast", "reply"}, row: Results]

TypeOK ==
    /\ stored \in [Events -> {"absent"} \union Results]
    /\ queue \in Seq(Events)
    /\ handler \in [Attempts -> OpenRequest \union {None}]
    /\ loop \in [at: {"sleep", "classify", "broadcast"}, rows: Seq(Events)]
    /\ ml \in {"up", "down", "broken"}
    /\ runs \in [Events -> Nat]
    /\ card \in [Events -> Results \union {None}]
    /\ answer \in [Events -> Results \union {None}]
    /\ restarts \in 0..MaxRestarts
    /\ overlapped \subseteq Events

Init ==
    /\ stored = [e \in Events |-> "absent"]
    /\ queue = <<>>
    /\ handler = [a \in Attempts |-> None]
    /\ loop = Asleep
    /\ ml = "up"
    /\ runs = [e \in Events |-> 0]
    /\ card = [e \in Events |-> None]
    /\ answer = [e \in Events |-> None]
    /\ restarts = 0
    /\ overlapped = {}

-----------------------------------------------------------------------------
(* The outcomes of one call of classify: service.py                        *)

\* Three attempts without a 200, or one 4xx: InferenceUnavailable.
Unavailable(e) == ml = "down" \/ (ml = "up" /\ e \in Rejected)

\* Any other exception: a model that does not load, an answer of another shape.
Fails(e) == ml = "broken"

Succeeds(e) == ml = "up" /\ e \notin Rejected

\* A faulty variant: the result is not committed.
ResultNotCommitted(e) == /\ UNCHANGED stored
                         /\ runs' = [runs EXCEPT ![e] = @ + 1]

\* _apply_classification and the commit that follows it.
WriteBack(e) ==
    /\ stored' = [stored EXCEPT ![e] = "classified"]
    /\ runs' = [runs EXCEPT ![e] = @ + 1]

-----------------------------------------------------------------------------
(* POST /events: ingest.py                                                 *)

IsOpen(a) == handler[a] # None

At(a, place) == IsOpen(a) /\ handler[a].at = place

\* Faulty variants: the row is not flagged as pending; the idempotency check is
\* forgotten; a pending row does not count as ingested.
PersistUnflagged(a, e) ==
    /\ answer[e] = None
    /\ ~ IsOpen(a)
    /\ stored[e] = "absent"
    /\ stored' = [stored EXCEPT ![e] = "unclassified"]
    /\ queue' = Append(queue, e)
    /\ handler' = [handler EXCEPT ![a] = [event |-> e, at |-> "classify", row |-> "pending"]]
    /\ UNCHANGED <<loop, ml, runs, card, answer, restarts, overlapped>>

PersistUnchecked(a, e) ==
    /\ answer[e] = None
    /\ ~ IsOpen(a)
    /\ Len(queue) < 3
    /\ stored' = [stored EXCEPT ![e] = "pending"]
    /\ queue' = Append(queue, e)
    /\ handler' = [handler EXCEPT ![a] = [event |-> e, at |-> "classify", row |-> "pending"]]
    /\ UNCHANGED <<loop, ml, runs, card, answer, restarts, overlapped>>

PersistPendingAgain(a, e) ==
    /\ answer[e] = None
    /\ ~ IsOpen(a)
    /\ stored[e] # "classified"
    /\ stored' = [stored EXCEPT ![e] = "pending"]
    /\ queue' = IF stored[e] = "absent" THEN Append(queue, e) ELSE queue
    /\ handler' = [handler EXCEPT ![a] = [event |-> e, at |-> "classify", row |-> "pending"]]
    /\ UNCHANGED <<loop, ml, runs, card, answer, restarts, overlapped>>

\* The device has no answer yet and sends the event, for the first time or
\* again; each request may find the earlier ones still open.
Persist(a, e) ==
    /\ answer[e] = None
    /\ ~ IsOpen(a)
    /\ stored[e] = "absent"
    /\ stored' = [stored EXCEPT ![e] = "pending"]
    /\ queue' = Append(queue, e)
    /\ handler' = [handler EXCEPT ![a] = [event |-> e, at |-> "classify", row |-> "pending"]]
    /\ UNCHANGED <<loop, ml, runs, card, answer, restarts, overlapped>>

\* Idempotency: a stored event is answered from its row.
AnswerStored(e) ==
    /\ answer[e] = None
    /\ stored[e] # "absent"
    /\ answer' = [answer EXCEPT ![e] = stored[e]]
    /\ UNCHANGED <<stored, queue, handler, loop, ml, runs, card, restarts, overlapped>>

Classified(a) ==
    /\ At(a, "classify")
    /\ Succeeds(handler[a].event)
    /\ WriteBack(handler[a].event)
    /\ handler' = [handler EXCEPT ![a].at = "broadcast", ![a].row = "classified"]
    /\ UNCHANGED <<queue, loop, ml, card, answer, restarts, overlapped>>

\* A faulty variant: the failed request writes its own copy of the row back.
LeftPendingWritten(a) ==
    /\ At(a, "classify")
    /\ Unavailable(handler[a].event)
    /\ stored' = [stored EXCEPT ![handler[a].event] = handler[a].row]
    /\ handler' = [handler EXCEPT ![a].at = "broadcast"]
    /\ UNCHANGED <<queue, loop, ml, runs, card, answer, restarts, overlapped>>

\* The row stays as it is, and the request goes on with its own copy.
LeftPending(a) ==
    /\ At(a, "classify")
    /\ Unavailable(handler[a].event)
    /\ handler' = [handler EXCEPT ![a].at = "broadcast"]
    /\ UNCHANGED <<stored, queue, loop, ml, runs, card, answer, restarts, overlapped>>

\* 500: neither broadcast nor answer.
Failed(a) ==
    /\ At(a, "classify")
    /\ Fails(handler[a].event)
    /\ handler' = [handler EXCEPT ![a] = None]
    /\ UNCHANGED <<stored, queue, loop, ml, runs, card, answer, restarts, overlapped>>

Broadcast(a) ==
    /\ At(a, "broadcast")
    /\ card' = [card EXCEPT ![handler[a].event] = handler[a].row]
    /\ handler' = [handler EXCEPT ![a].at = "reply"]
    /\ UNCHANGED <<stored, queue, loop, ml, runs, answer, restarts, overlapped>>

\* The answer may come too late for the device, which has timed out.
Reply(a, inTime) ==
    /\ At(a, "reply")
    /\ answer' = IF inTime /\ answer[handler[a].event] = None
                 THEN [answer EXCEPT ![handler[a].event] = handler[a].row]
                 ELSE answer
    /\ handler' = [handler EXCEPT ![a] = None]
    /\ UNCHANGED <<stored, queue, loop, ml, runs, card, restarts, overlapped>>

-----------------------------------------------------------------------------
(* The retry loop: main.py                                                 *)

Pending(e) == stored[e] = "pending"

\* d was received before e.
Older(d, e) == \E m, n \in DOMAIN queue : m < n /\ queue[m] = d /\ queue[n] = e

\* The oldest pending incidents in their order, at most Batch of them.
IsNextBatch(rows) ==
    /\ \A k \in DOMAIN rows : Pending(rows[k])
    /\ \A j, k \in DOMAIN rows : j < k => Older(rows[j], rows[k])
    /\ \A e \in Events \ ToSet(rows) :
          Pending(e) => Len(rows) = Batch /\ \A k \in DOMAIN rows : Older(rows[k], e)

\* Requests open for e that have not obtained a result yet.
Awaiting(e) == {a \in Attempts : At(a, "classify") /\ handler[a].event = e}

Goto(place, rows) == loop' = [at |-> place, rows |-> rows]

LoopWakes ==
    /\ loop.at = "sleep"
    /\ \E rows \in SeqOf(Events, Batch) : /\ rows # <<>>
                                          /\ IsNextBatch(rows)
                                          /\ Goto("classify", rows)
                                          /\ overlapped' = overlapped \union
                                                {e \in ToSet(rows) : Awaiting(e) # {}}
    /\ UNCHANGED <<stored, queue, handler, ml, runs, card, answer, restarts>>

LoopClassifies ==
    /\ loop.at = "classify"
    /\ Succeeds(Head(loop.rows))
    /\ WriteBack(Head(loop.rows))
    /\ Goto("broadcast", loop.rows)
    /\ UNCHANGED <<queue, handler, ml, card, answer, restarts, overlapped>>

\* A faulty variant: the exception ends the loop, not the round.
LoopEnds ==
    /\ loop.at = "classify"
    /\ Unavailable(Head(loop.rows)) \/ Fails(Head(loop.rows))
    /\ Goto("ended", <<>>)
    /\ UNCHANGED <<stored, queue, handler, ml, runs, card, answer, restarts, overlapped>>

\* InferenceUnavailable breaks out of the round, any other exception ends it.
LoopGivesUp ==
    /\ loop.at = "classify"
    /\ Unavailable(Head(loop.rows)) \/ Fails(Head(loop.rows))
    /\ loop' = Asleep
    /\ UNCHANGED <<stored, queue, handler, ml, runs, card, answer, restarts, overlapped>>

LoopBroadcasts ==
    /\ loop.at = "broadcast"
    /\ card' = [card EXCEPT ![Head(loop.rows)] = "classified"]
    /\ IF Len(loop.rows) = 1 THEN loop' = Asleep
                             ELSE Goto("classify", Tail(loop.rows))
    /\ UNCHANGED <<stored, queue, handler, ml, runs, answer, restarts, overlapped>>

-----------------------------------------------------------------------------
(* The world                                                               *)

MLChanges(status) ==
    /\ ml # status
    /\ ml' = status
    /\ UNCHANGED <<stored, queue, handler, loop, runs, card, answer, restarts, overlapped>>

\* Requests and loop are lost with the process, what was committed is not.
Restart ==
    /\ restarts < MaxRestarts
    /\ restarts' = restarts + 1
    /\ handler' = [a \in Attempts |-> None]
    /\ loop' = Asleep
    /\ UNCHANGED <<stored, queue, ml, runs, card, answer, overlapped>>

-----------------------------------------------------------------------------
Handle(a) ==
    \/ Classified(a)
    \/ LeftPending(a)
    \/ Failed(a)
    \/ Broadcast(a)
    \/ \E inTime \in BOOLEAN : Reply(a, inTime)

RetryLoop ==
    \/ LoopWakes
    \/ LoopClassifies
    \/ LoopGivesUp
    \/ LoopBroadcasts

Next ==
    \/ \E a \in Attempts, e \in Events : Persist(a, e)
    \/ \E e \in Events : AnswerStored(e)
    \/ \E a \in Attempts : Handle(a)
    \/ RetryLoop
    \/ \E status \in {"up", "down", "broken"} : MLChanges(status)
    \/ Restart

Spec == Init /\ [][Next]_vars

\* An open request goes on, and the loop wakes every minute; nothing obliges
\* the ML service to come back or the device to repeat itself.
Fairness == WF_vars(RetryLoop) /\ \A a \in Attempts : WF_vars(Handle(a))

FairSpec == Spec /\ Fairness

-----------------------------------------------------------------------------
(* Properties                                                              *)

\* Each attempt of one event is one incident: no event has two rows in the
\* queue, and the queue holds exactly what is stored.
OneShakeOneIncident ==
    /\ IsInjective(queue)
    /\ \A e \in Events : stored[e] # "absent" <=> e \in ToSet(queue)

\* Persist before inference: whatever anyone outside was told of an event
\* is in the database, also after a crash at any point.
ToldIsStored ==
    \A e \in Events : \A told \in {card[e], answer[e]} :
        /\ told # None => stored[e] # "absent"
        /\ told = "classified" => stored[e] = "classified"

\* A stored event is never lost, and a classification never unmade: a request
\* whose inference failed does not write over a result the loop obtained.
NothingIsUnmade ==
    [][\A e \in Events :
          /\ stored[e] # "absent" => stored'[e] # "absent"
          /\ stored[e] = "classified" => stored'[e] = "classified"]_vars

\* The loop still holds e's row as pending.
InBatch(e) ==
    \E k \in DOMAIN loop.rows : /\ loop.rows[k] = e
                                /\ ~ (k = 1 /\ loop.at = "broadcast")

\* What remains of ARCHITECTURE.md:210, "one shake, one incident, inference runs
\* once", which the code does not keep.  Inference runs, or is about to run, once
\* per event, however often the device repeats it; a second run happens only if the
\* loop loaded the row while the request that stored it was still waiting for its
\* own (main.py:44-47, ingest.py:140), and a third never.
SecondRunNeedsOverlap ==
    \A e \in Events :
        /\ runs[e] + Cardinality(Awaiting(e)) + (IF InBatch(e) THEN 1 ELSE 0)
              <= IF e \in overlapped THEN 2 ELSE 1
        /\ stored[e] = "classified" <=> runs[e] > 0

\* An open request belongs to a stored event, believes no more of it than is
\* stored, and no other request waits for the same inference.
RequestsAgree ==
    /\ \A a \in Attempts : IsOpen(a) =>
          /\ stored[handler[a].event] # "absent"
          /\ handler[a].row = "classified" => stored[handler[a].event] = "classified"
    /\ \A a, b \in Attempts :
          At(a, "classify") /\ At(b, "classify") /\ handler[a].event = handler[b].event => a = b

\* The loop holds stored events, each once, and broadcasts what it has stored.
LoopAgrees ==
    /\ loop.at # "sleep" => loop.rows # <<>>
    /\ IsInjective(loop.rows)
    /\ \A k \in DOMAIN loop.rows : stored[loop.rows[k]] # "absent"
    /\ loop.at = "broadcast" => stored[Head(loop.rows)] = "classified"

\* The copies that requests and loop keep across their awaits never hold what
\* the rows do not: the inductive invariant that proves the three before.
IngestInv == /\ TypeOK
             /\ OneShakeOneIncident
             /\ ToldIsStored
             /\ RequestsAgree
             /\ LoopAgrees
             /\ SecondRunNeedsOverlap

\* If the ML service comes back for good, everything left pending is
\* classified in the end, through crashes of the process too.
BacklogDrains ==
    <>[](ml = "up") =>
        \A e \in Events \ Rejected : stored[e] = "pending" ~> stored[e] = "classified"
=============================================================================
