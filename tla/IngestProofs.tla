----------------------------- MODULE IngestProofs -----------------------------
(***************************************************************************)
(* One incident per event, nothing told that is not stored, and a second   *)
(* inference only after an overlap, for any number of events, requests and *)
(* restarts.                                                               *)
(*                                                                         *)
(* IngestInv is inductive.  The count of inferences is the one that needs  *)
(* an argument: a request may wait for e only since it stored e, and the   *)
(* loop may hold e only since it saw e pending, that is with no inference  *)
(* done; each of the two turns into at most one inference, because no two  *)
(* requests wait for e and no batch holds e twice; and both exist together *)
(* only from the moment the loop loads e under an open request.            *)
(***************************************************************************)
EXTENDS Ingest, FiniteSetTheorems, SequenceTheorems, TLAPS

\* A set with at most one element has no or one element.
LEMMA CountOfAtMostOne ==
    ASSUME NEW S, \A a, b \in S : a = b
    PROVE  Cardinality(S) = IF S = {} THEN 0 ELSE 1
<1>1. CASE S = {}
  BY <1>1, FS_EmptySet
<1>2. CASE S # {}
  <2>1. PICK a \in S : S = {a}
    BY <1>2
  <2>2. Cardinality({a}) = 1
    BY FS_Singleton
  <2>3. QED
    BY <1>2, <2>1, <2>2
<1>3. QED
  BY <1>1, <1>2

Waits(e) == IF Awaiting(e) = {} THEN 0 ELSE 1

Holds(e) == IF InBatch(e) THEN 1 ELSE 0

Limit(e) == IF e \in overlapped THEN 2 ELSE 1

\* What a request, and the loop, may add to runs[e]; the count without Cardinality.
Bounded(e) == /\ runs[e] + Waits(e) + Holds(e) <= Limit(e)
              /\ stored[e] = "classified" <=> runs[e] > 0

LEMMA EachIsAtMostOne ==
    \A e : Waits(e) \in 0..1 /\ Waits(e)' \in 0..1 /\ Holds(e) \in 0..1 /\ Holds(e)' \in 0..1
BY DEF Waits, Holds

LEMMA CountIsBounded ==
    RequestsAgree => (SecondRunNeedsOverlap <=> \A e \in Events : Bounded(e))
<1> SUFFICES ASSUME RequestsAgree
             PROVE  SecondRunNeedsOverlap <=> \A e \in Events : Bounded(e)
  OBVIOUS
<1>1. ASSUME NEW e \in Events PROVE Cardinality(Awaiting(e)) = Waits(e)
  <2>1. \A a, b \in Awaiting(e) : a = b
    BY DEF RequestsAgree, Awaiting
  <2>2. QED
    BY <2>1, CountOfAtMostOne DEF Waits
<1>2. \A e \in Events : Waits(e) <= 1
  BY DEF Waits
<1>3. QED
  BY <1>1, <1>2 DEF SecondRunNeedsOverlap, Bounded, Holds, Limit

LEMMA CountIsBoundedNext ==
    RequestsAgree' => (SecondRunNeedsOverlap' <=> \A e \in Events : Bounded(e)')
<1> SUFFICES ASSUME RequestsAgree'
             PROVE  SecondRunNeedsOverlap' <=> \A e \in Events : Bounded(e)'
  OBVIOUS
<1>1. ASSUME NEW e \in Events PROVE Cardinality(Awaiting(e)') = Waits(e)'
  <2>1. \A a, b \in Awaiting(e)' : a = b
    BY DEF RequestsAgree, Awaiting
  <2>2. QED
    BY <2>1, CountOfAtMostOne DEF Waits
<1>2. \A e \in Events : Waits(e)' <= 1
  BY DEF Waits
<1>3. QED
  BY <1>1, <1>2 DEF SecondRunNeedsOverlap, Bounded, Holds, Limit

\* A step that obtains no result for d and lets nobody else ask for one.
LEMMA CountGoesOn ==
    ASSUME TypeOK, NEW d \in Events, Bounded(d), stored'[d] = stored[d], runs'[d] = runs[d],
           Waits(d)' <= Waits(d), Holds(d)' = Holds(d) \/ Holds(d)' = 0,
           overlapped \subseteq overlapped'
    PROVE  Bounded(d)'
<1>1. /\ Waits(d) \in 0..1 /\ Waits(d)' \in 0..1 /\ Holds(d) \in 0..1 /\ Holds(d)' \in 0..1
      /\ runs[d] \in Nat
  BY EachIsAtMostOne DEF TypeOK
<1>2. runs[d] + Waits(d) + Holds(d) <= Limit(d) /\ (stored[d] = "classified" <=> runs[d] > 0)
  BY DEF Bounded
<1>3. Limit(d) \in 1..2 /\ Limit(d)' \in 1..2 /\ Limit(d) <= Limit(d)'
  BY DEF Limit
<1>4. runs'[d] + Waits(d)' + Holds(d)' <= Limit(d)'
  BY <1>1, <1>2, <1>3
<1>5. QED
  BY <1>2, <1>4 DEF Bounded

LEMMA InitiallyIngestInv == Init => IngestInv
<1> SUFFICES ASSUME Init PROVE IngestInv
  OBVIOUS
<1>1. TypeOK
  BY BatchAssumption DEF Init, TypeOK, Asleep
<1>2. OneShakeOneIncident
  BY DEF Init, OneShakeOneIncident, IsInjective, ToSet
<1>3. ToldIsStored
  BY EventAssumption DEF Init, ToldIsStored
<1>4. RequestsAgree
  BY DEF Init, RequestsAgree, IsOpen, At
<1>5. LoopAgrees
  BY DEF Init, LoopAgrees, Asleep, IsInjective
<1>6. \A e \in Events : Bounded(e)
  BY DEF Init, Bounded, Limit, Waits, Holds, Awaiting, InBatch, At, IsOpen, Asleep
<1>7. QED
  BY <1>1, <1>2, <1>3, <1>4, <1>5, <1>6, CountIsBounded DEF IngestInv

-----------------------------------------------------------------------------
(* The requests                                                            *)

LEMMA PersistKeeps ==
    ASSUME IngestInv, NEW a \in Attempts, NEW e \in Events, Persist(a, e)
    PROVE  IngestInv'
<1> DEFINE opened == [event |-> e, at |-> "classify", row |-> "pending"]
<1>1. /\ TypeOK /\ \A d \in Events : Bounded(d)
      /\ OneShakeOneIncident /\ ToldIsStored /\ RequestsAgree /\ LoopAgrees
  BY CountIsBounded DEF IngestInv
<1>2. /\ stored[e] = "absent" /\ ~ IsOpen(a)
      /\ stored' = [stored EXCEPT ![e] = "pending"]
      /\ queue' = Append(queue, e)
      /\ handler' = [handler EXCEPT ![a] = opened]
      /\ UNCHANGED <<loop, ml, runs, card, answer, restarts, overlapped>>
  BY DEF Persist
<1>3. TypeOK'
  <2>1. opened \in OpenRequest
    BY DEF OpenRequest, Results
  <2>2. QED
    BY <1>1, <1>2, <2>1 DEF TypeOK, Results
<1>4. OneShakeOneIncident'
  <2>1. /\ queue \in Seq(Events) /\ Len(queue') = Len(queue) + 1
        /\ DOMAIN queue' = 1..(Len(queue) + 1) /\ DOMAIN queue = 1..Len(queue)
        /\ \A k \in 1..Len(queue) : queue'[k] = queue[k]
        /\ queue'[Len(queue) + 1] = e
    BY <1>1, <1>2 DEF TypeOK
  <2>2. \A k \in 1..Len(queue) : queue[k] # e
    BY <1>1, <1>2, <2>1 DEF OneShakeOneIncident, ToSet
  <2>3. IsInjective(queue')
    BY <1>1, <2>1, <2>2 DEF OneShakeOneIncident, IsInjective
  <2>4. ToSet(queue') = ToSet(queue) \union {e}
    BY <2>1 DEF ToSet
  <2>5. QED
    BY <1>1, <1>2, <2>3, <2>4 DEF OneShakeOneIncident, TypeOK
<1>5. ToldIsStored'
  BY <1>1, <1>2 DEF ToldIsStored, TypeOK
<1>6. \A b \in Attempts : IsOpen(b) => handler[b].event # e
  BY <1>1, <1>2 DEF RequestsAgree
<1>7. \A b \in Attempts : b # a => handler'[b] = handler[b]
  BY <1>1, <1>2 DEF TypeOK
<1>8. handler'[a] = opened
  BY <1>1, <1>2 DEF TypeOK
<1>9. RequestsAgree'
  BY <1>1, <1>2, <1>6, <1>7, <1>8 DEF RequestsAgree, IsOpen, At, TypeOK
<1>10. LoopAgrees'
  BY <1>1, <1>2 DEF LoopAgrees, TypeOK
<1>11. ASSUME NEW d \in Events PROVE Bounded(d)'
  <2>1. Holds(d)' = Holds(d)
    BY <1>2 DEF Holds, InBatch
  <2>2. CASE d # e
    <3>1. Awaiting(d)' \subseteq Awaiting(d)
      BY <1>7, <1>8, <2>2 DEF Awaiting, At, IsOpen
    <3>2. Waits(d)' <= Waits(d)
      BY <3>1 DEF Waits
    <3>3. runs'[d] = runs[d] /\ stored'[d] = stored[d]
      BY <1>1, <1>2, <2>2 DEF TypeOK
    <3>4. QED
      BY <1>1, <1>2, <2>1, <3>2, <3>3, CountGoesOn
  <2>3. CASE d = e
    <3>1. runs[e] = 0
      BY <1>1, <1>2 DEF Bounded, TypeOK
    <3>2. Holds(e) = 0
      BY <1>1, <1>2 DEF LoopAgrees, Holds, InBatch
    <3>3. QED
      BY <1>1, <1>2, <2>1, <2>3, <3>1, <3>2 DEF Bounded, Limit, TypeOK, Waits
  <2>4. QED
    BY <2>2, <2>3
<1>12. QED
  BY <1>3, <1>4, <1>5, <1>9, <1>10, <1>11, CountIsBoundedNext DEF IngestInv

\* A request that ends, or goes on without a result.
LEMMA GoingOnKeeps ==
    ASSUME IngestInv, NEW a \in Attempts,
           LeftPending(a) \/ Failed(a) \/ Broadcast(a) \/ \E inTime \in BOOLEAN : Reply(a, inTime)
    PROVE  IngestInv'
<1>1. /\ TypeOK /\ \A d \in Events : Bounded(d)
      /\ OneShakeOneIncident /\ ToldIsStored /\ RequestsAgree /\ LoopAgrees
  BY CountIsBounded DEF IngestInv
<1>2. /\ IsOpen(a) /\ handler[a] \in OpenRequest
      /\ UNCHANGED <<stored, queue, loop, ml, runs, restarts, overlapped>>
  BY <1>1 DEF TypeOK, LeftPending, Failed, Broadcast, Reply, At, IsOpen
<1>3. PICK next \in OpenRequest \union {None} :
        /\ handler' = [handler EXCEPT ![a] = next]
        /\ next # None => /\ next.event = handler[a].event /\ next.row = handler[a].row
                          /\ next.at # "classify"
  <2>1. CASE LeftPending(a)
    <3>1. [handler[a] EXCEPT !.at = "broadcast"] \in OpenRequest
      BY <1>2 DEF OpenRequest
    <3>2. QED
      BY <1>2, <2>1, <3>1 DEF LeftPending, OpenRequest
  <2>2. CASE Broadcast(a)
    <3>1. [handler[a] EXCEPT !.at = "reply"] \in OpenRequest
      BY <1>2 DEF OpenRequest
    <3>2. QED
      BY <1>2, <2>2, <3>1 DEF Broadcast, OpenRequest
  <2>3. CASE Failed(a) \/ \E inTime \in BOOLEAN : Reply(a, inTime)
    BY <2>3 DEF Failed, Reply
  <2>4. QED
    BY <2>1, <2>2, <2>3
<1>4. \A e \in Events :
        /\ card'[e] = card[e] \/ (e = handler[a].event /\ card'[e] = handler[a].row)
        /\ answer'[e] = answer[e] \/ (e = handler[a].event /\ answer'[e] = handler[a].row)
  BY <1>1 DEF TypeOK, LeftPending, Failed, Broadcast, Reply
<1>5. TypeOK'
  <2>1. card' \in [Events -> Results \union {None}] /\ answer' \in [Events -> Results \union {None}]
    BY <1>1, <1>2 DEF TypeOK, OpenRequest, LeftPending, Failed, Broadcast, Reply
  <2>2. QED
    BY <1>1, <1>2, <1>3, <2>1 DEF TypeOK
<1>6. OneShakeOneIncident'
  BY <1>1, <1>2 DEF OneShakeOneIncident
<1>7. ToldIsStored'
  BY <1>1, <1>2, <1>4 DEF ToldIsStored, RequestsAgree
<1>8. \A b \in Attempts : b # a => handler'[b] = handler[b]
  BY <1>1, <1>3 DEF TypeOK
<1>9. handler'[a] = next
  BY <1>1, <1>3 DEF TypeOK
<1>10. RequestsAgree'
  BY <1>1, <1>2, <1>3, <1>8, <1>9 DEF RequestsAgree, IsOpen, At
<1>11. LoopAgrees'
  BY <1>1, <1>2 DEF LoopAgrees
<1>12. ASSUME NEW d \in Events PROVE Bounded(d)'
  <2>1. Holds(d)' = Holds(d)
    BY <1>2 DEF Holds, InBatch
  <2>2. Awaiting(d)' \subseteq Awaiting(d)
    BY <1>3, <1>8, <1>9 DEF Awaiting, At, IsOpen
  <2>3. Waits(d)' <= Waits(d)
    BY <2>2 DEF Waits
  <2>4. QED
    BY <1>1, <1>2, <2>1, <2>3, CountGoesOn
<1>13. QED
  BY <1>5, <1>6, <1>7, <1>10, <1>11, <1>12, CountIsBoundedNext DEF IngestInv

\* The request obtains its result: what it waited for has become a run.
LEMMA ClassifiedKeeps ==
    ASSUME IngestInv, NEW a \in Attempts, Classified(a)
    PROVE  IngestInv'
<1>1. /\ TypeOK /\ \A d \in Events : Bounded(d)
      /\ OneShakeOneIncident /\ ToldIsStored /\ RequestsAgree /\ LoopAgrees
  BY CountIsBounded DEF IngestInv
<1>2. /\ IsOpen(a) /\ At(a, "classify") /\ handler[a] \in OpenRequest
  BY <1>1 DEF Classified, TypeOK, At, IsOpen
<1>3. PICK e \in Events, next \in OpenRequest :
        /\ handler[a].event = e /\ next.event = e
        /\ next.at = "broadcast" /\ next.row = "classified"
        /\ handler' = [handler EXCEPT ![a] = next]
  <2> DEFINE next == [handler[a] EXCEPT !.at = "broadcast", !.row = "classified"]
  <2>1. /\ handler[a].event \in Events /\ next \in OpenRequest /\ next.event = handler[a].event
        /\ next.at = "broadcast" /\ next.row = "classified"
    BY <1>2 DEF OpenRequest, Results
  <2>2. handler' = [handler EXCEPT ![a] = next]
    BY DEF Classified
  <2>3. QED
    BY <2>1, <2>2
<1>4. /\ stored' = [stored EXCEPT ![e] = "classified"]
      /\ runs' = [runs EXCEPT ![e] = @ + 1]
      /\ UNCHANGED <<queue, loop, ml, card, answer, restarts, overlapped>>
  BY <1>3 DEF Classified, WriteBack
<1>5. /\ \A b \in Attempts : b # a => handler'[b] = handler[b]
      /\ handler'[a] = next
  BY <1>1, <1>3 DEF TypeOK
<1>6. TypeOK'
  BY <1>1, <1>2, <1>3, <1>4 DEF TypeOK, Results
<1>7. OneShakeOneIncident'
  BY <1>1, <1>2, <1>3, <1>4 DEF OneShakeOneIncident, RequestsAgree, TypeOK
<1>8. ToldIsStored'
  BY <1>1, <1>2, <1>3, <1>4 DEF ToldIsStored, TypeOK
<1>9. RequestsAgree'
  BY <1>1, <1>2, <1>3, <1>4, <1>5 DEF RequestsAgree, IsOpen, At, TypeOK
<1>10. LoopAgrees'
  <2>1. \A k \in DOMAIN loop.rows : loop.rows[k] \in Events
    BY <1>1 DEF TypeOK
  <2>2. loop.at = "broadcast" => Head(loop.rows) \in Events
    BY <1>1 DEF TypeOK, LoopAgrees
  <2>3. QED
    BY <1>1, <1>2, <1>3, <1>4, <2>1, <2>2 DEF LoopAgrees, TypeOK
<1>11. ASSUME NEW d \in Events PROVE Bounded(d)'
  <2>1. Holds(d)' = Holds(d)
    BY <1>4 DEF Holds, InBatch
  <2>2. Awaiting(d)' \subseteq Awaiting(d)
    BY <1>3, <1>5 DEF Awaiting, At, IsOpen
  <2>3. CASE d = e
    <3>1. Awaiting(e)' = {} /\ a \in Awaiting(e)
      BY <1>1, <1>2, <1>3, <1>4, <1>5 DEF Awaiting, At, IsOpen, RequestsAgree
    <3>2. Waits(d)' = 0 /\ Waits(d) = 1
      BY <2>3, <3>1 DEF Waits
    <3>3. QED
      BY <1>1, <1>2, <1>3, <1>4, <2>1, <2>3, <3>2, EachIsAtMostOne DEF Bounded, Limit, TypeOK
  <2>4. CASE d # e
    <3>1. Waits(d)' <= Waits(d)
      BY <2>2 DEF Waits
    <3>2. runs'[d] = runs[d] /\ stored'[d] = stored[d]
      BY <1>1, <1>4, <2>4 DEF TypeOK
    <3>3. QED
      BY <1>1, <1>4, <2>1, <3>1, <3>2, CountGoesOn
  <2>5. QED
    BY <2>3, <2>4
<1>12. QED
  BY <1>6, <1>7, <1>8, <1>9, <1>10, <1>11, CountIsBoundedNext DEF IngestInv

-----------------------------------------------------------------------------
(* The loop                                                                *)

LEMMA HeadIsInRange ==
    ASSUME NEW rows \in Seq(Events), rows # <<>>
    PROVE  Head(rows) = rows[1] /\ 1 \in DOMAIN rows /\ Head(rows) \in Events
<1>1. Len(rows) # 0
  BY EmptySeq
<1>2. QED
  BY <1>1

LEMMA WakingKeeps ==
    ASSUME IngestInv, LoopWakes
    PROVE  IngestInv'
<1>1. /\ TypeOK /\ \A d \in Events : Bounded(d)
      /\ OneShakeOneIncident /\ ToldIsStored /\ RequestsAgree /\ LoopAgrees
  BY CountIsBounded DEF IngestInv
<1>2. PICK rows \in SeqOf(Events, Batch) :
        /\ rows # <<>> /\ IsNextBatch(rows)
        /\ loop' = [at |-> "classify", rows |-> rows]
        /\ overlapped' = overlapped \union {e \in ToSet(rows) : Awaiting(e) # {}}
  BY DEF LoopWakes, Goto
<1>3. UNCHANGED <<stored, queue, handler, ml, runs, card, answer, restarts>>
  BY DEF LoopWakes
<1>4. rows \in Seq(Events) /\ DOMAIN rows = 1..Len(rows)
  BY BatchAssumption DEF SeqOf
<1>5. IsInjective(rows)
  <2>1. \A j, k \in DOMAIN rows : j < k => rows[j] # rows[k]
    BY <1>1, <1>2 DEF IsNextBatch, Older, OneShakeOneIncident, IsInjective, TypeOK
  <2>2. QED
    BY <1>4, <2>1 DEF IsInjective
<1>6. TypeOK'
  <2>1. overlapped' \subseteq Events
    BY <1>1, <1>2, <1>4 DEF TypeOK, ToSet
  <2>2. QED
    BY <1>1, <1>2, <1>3, <1>4, <2>1 DEF TypeOK
<1>7. OneShakeOneIncident' /\ ToldIsStored' /\ RequestsAgree'
  BY <1>1, <1>3 DEF OneShakeOneIncident, ToldIsStored, RequestsAgree, At, IsOpen
<1>8. LoopAgrees'
  BY <1>2, <1>3, <1>5 DEF LoopAgrees, IsNextBatch, Pending
<1>9. ASSUME NEW d \in Events PROVE Bounded(d)'
  <2>1. Waits(d)' = Waits(d)
    BY <1>3 DEF Waits, Awaiting, At, IsOpen
  <2>2. CASE \E k \in DOMAIN rows : rows[k] = d
    <3>1. stored[d] = "pending"
      BY <1>2, <2>2 DEF IsNextBatch, Pending
    <3>2. runs[d] = 0
      BY <1>1, <3>1 DEF Bounded, TypeOK
    <3>3. Waits(d)' \in 0..1 /\ Holds(d)' \in 0..1
      BY EachIsAtMostOne
    <3>4. stored'[d] = "pending" /\ runs'[d] = 0
      BY <1>3, <3>1, <3>2
    <3>5. Waits(d) = 1 => d \in overlapped'
      BY <1>2, <2>2 DEF Waits, ToSet
    <3>6. QED
      BY <2>1, <3>3, <3>4, <3>5 DEF Bounded, Limit
  <2>3. CASE ~ \E k \in DOMAIN rows : rows[k] = d
    <3>1. Holds(d)' = 0
      BY <1>2, <2>3 DEF Holds, InBatch
    <3>2. Waits(d)' <= Waits(d)
      BY <2>1, EachIsAtMostOne
    <3>3. QED
      BY <1>1, <1>2, <1>3, <3>1, <3>2, CountGoesOn
  <2>4. QED
    BY <2>2, <2>3
<1>10. QED
  BY <1>6, <1>7, <1>8, <1>9, CountIsBoundedNext DEF IngestInv

\* The loop obtains a result: its hold on e has become a run.
LEMMA LoopClassifiesKeeps ==
    ASSUME IngestInv, LoopClassifies
    PROVE  IngestInv'
<1>1. /\ TypeOK /\ \A d \in Events : Bounded(d)
      /\ OneShakeOneIncident /\ ToldIsStored /\ RequestsAgree /\ LoopAgrees
  BY CountIsBounded DEF IngestInv
<1>2. /\ loop.at = "classify" /\ loop.rows # <<>> /\ loop.rows \in Seq(Events)
      /\ loop' = [at |-> "broadcast", rows |-> loop.rows]
      /\ UNCHANGED <<queue, handler, ml, card, answer, restarts, overlapped>>
  BY <1>1 DEF LoopClassifies, Goto, LoopAgrees, TypeOK
<1>3. PICK e \in Events : /\ e = Head(loop.rows) /\ e = loop.rows[1] /\ 1 \in DOMAIN loop.rows
                          /\ stored' = [stored EXCEPT ![e] = "classified"]
                          /\ runs' = [runs EXCEPT ![e] = @ + 1]
  BY <1>2, HeadIsInRange DEF LoopClassifies, WriteBack
<1>4. TypeOK'
  BY <1>1, <1>2, <1>3 DEF TypeOK, Results
<1>5. OneShakeOneIncident'
  <2>1. stored[e] # "absent"
    BY <1>1, <1>3 DEF LoopAgrees
  <2>2. QED
    BY <1>1, <1>2, <1>3, <2>1 DEF OneShakeOneIncident, TypeOK
<1>6. ToldIsStored'
  BY <1>1, <1>2, <1>3 DEF ToldIsStored, TypeOK
<1>7. RequestsAgree'
  <2>1. \A a \in Attempts : IsOpen(a) => handler[a].event \in Events
    BY <1>1 DEF TypeOK, IsOpen, OpenRequest
  <2>2. QED
    BY <1>1, <1>2, <1>3, <2>1 DEF RequestsAgree, At, IsOpen, TypeOK
<1>8. LoopAgrees'
  <2>1. \A k \in DOMAIN loop.rows : loop.rows[k] \in Events
    BY <1>2
  <2>2. QED
    BY <1>1, <1>2, <1>3, <2>1 DEF LoopAgrees, TypeOK
<1>9. ASSUME NEW d \in Events PROVE Bounded(d)'
  <2>1. Waits(d)' = Waits(d)
    BY <1>2 DEF Waits, Awaiting, At, IsOpen
  <2>2. CASE d = e
    <3>1. Holds(d) = 1
      BY <1>2, <1>3, <2>2 DEF Holds, InBatch
    <3>2. Holds(d)' = 0
      BY <1>1, <1>2, <1>3, <2>2 DEF Holds, InBatch, LoopAgrees, IsInjective
    <3>3. runs[d] + Waits(d) + 1 <= Limit(d) /\ runs[d] \in Nat /\ Waits(d) \in 0..1
      BY <1>1, <3>1, EachIsAtMostOne DEF Bounded, TypeOK
    <3>4. stored'[d] = "classified" /\ runs'[d] = runs[d] + 1
      BY <1>1, <1>3, <2>2 DEF TypeOK
    <3>5. QED
      BY <1>2, <2>1, <3>2, <3>3, <3>4 DEF Bounded, Limit
  <2>3. CASE d # e
    <3>1. Holds(d)' = Holds(d)
      BY <1>2, <1>3, <2>3 DEF Holds, InBatch
    <3>2. Waits(d)' <= Waits(d)
      BY <2>1, EachIsAtMostOne
    <3>3. runs'[d] = runs[d] /\ stored'[d] = stored[d]
      BY <1>1, <1>3, <2>3 DEF TypeOK
    <3>4. QED
      BY <1>1, <1>2, <3>1, <3>2, <3>3, CountGoesOn
  <2>4. QED
    BY <2>2, <2>3
<1>10. QED
  BY <1>4, <1>5, <1>6, <1>7, <1>8, <1>9, CountIsBoundedNext DEF IngestInv

LEMMA LoopBroadcastsKeeps ==
    ASSUME IngestInv, LoopBroadcasts
    PROVE  IngestInv'
<1>1. /\ TypeOK /\ \A d \in Events : Bounded(d)
      /\ OneShakeOneIncident /\ ToldIsStored /\ RequestsAgree /\ LoopAgrees
  BY CountIsBounded DEF IngestInv
<1>2. /\ loop.at = "broadcast" /\ loop.rows # <<>> /\ loop.rows \in Seq(Events)
      /\ UNCHANGED <<stored, queue, handler, ml, runs, answer, restarts, overlapped>>
  BY <1>1 DEF LoopBroadcasts, LoopAgrees, TypeOK
<1>3. PICK e \in Events : /\ e = Head(loop.rows) /\ e = loop.rows[1] /\ 1 \in DOMAIN loop.rows
                          /\ card' = [card EXCEPT ![e] = "classified"]
                          /\ stored[e] = "classified"
  BY <1>1, <1>2, HeadIsInRange DEF LoopBroadcasts, LoopAgrees
<1>4. PICK rest \in Seq(Events) :
        /\ loop' = [at |-> IF rest = <<>> THEN "sleep" ELSE "classify", rows |-> rest]
        /\ Len(rest) = Len(loop.rows) - 1
        /\ \A k \in 1..Len(rest) : rest[k] = loop.rows[k + 1]
  <2>1. /\ Tail(loop.rows) \in Seq(Events) /\ Len(Tail(loop.rows)) = Len(loop.rows) - 1
        /\ \A k \in 1..Len(Tail(loop.rows)) : Tail(loop.rows)[k] = loop.rows[k + 1]
    BY <1>2
  <2>2. Len(loop.rows) = 1 <=> Tail(loop.rows) = <<>>
    <3>1. Tail(loop.rows) = <<>> <=> Len(Tail(loop.rows)) = 0
      BY <2>1, EmptySeq, Zenon
    <3>2. Len(loop.rows) \in Nat
      BY <1>2
    <3>3. QED
      BY <2>1, <3>1, <3>2
  <2>3. loop' = [at |-> IF Tail(loop.rows) = <<>> THEN "sleep" ELSE "classify",
                 rows |-> Tail(loop.rows)]
    BY <2>2 DEF LoopBroadcasts, Goto, Asleep
  <2>4. QED
    BY <2>1, <2>3
<1>5. /\ DOMAIN rest = 1..Len(rest) /\ DOMAIN loop.rows = 1..Len(loop.rows)
      /\ \A k \in DOMAIN rest : k + 1 \in DOMAIN loop.rows
  BY <1>2, <1>4
<1>6. TypeOK'
  BY <1>1, <1>2, <1>3, <1>4 DEF TypeOK, Results
<1>7. OneShakeOneIncident' /\ RequestsAgree'
  BY <1>1, <1>2 DEF OneShakeOneIncident, RequestsAgree, At, IsOpen
<1>8. ToldIsStored'
  BY <1>1, <1>2, <1>3 DEF ToldIsStored, TypeOK
<1>9. LoopAgrees'
  <2>1. IsInjective(rest)
    <3>1. \A j, k \in DOMAIN rest : rest[j] = rest[k] => j + 1 = k + 1
      BY <1>1, <1>4, <1>5 DEF LoopAgrees, IsInjective
    <3>2. QED
      BY <1>5, <3>1 DEF IsInjective
  <2>2. \A k \in DOMAIN rest : stored[rest[k]] # "absent"
    BY <1>1, <1>4, <1>5 DEF LoopAgrees
  <2>3. QED
    BY <1>2, <1>4, <2>1, <2>2 DEF LoopAgrees
<1>10. ASSUME NEW d \in Events PROVE Bounded(d)'
  <2>1. Waits(d)' = Waits(d)
    BY <1>2 DEF Waits, Awaiting, At, IsOpen
  <2>2. InBatch(d)' => InBatch(d)
    <3>1. SUFFICES ASSUME NEW k \in DOMAIN rest, rest[k] = d PROVE InBatch(d)
      BY <1>4 DEF InBatch
    <3>2. k + 1 # 1 /\ k + 1 \in DOMAIN loop.rows /\ loop.rows[k + 1] = d
      BY <1>4, <1>5, <3>1
    <3>3. QED
      BY <3>2 DEF InBatch
  <2>3. Holds(d)' = Holds(d) \/ Holds(d)' = 0
    BY <2>2 DEF Holds
  <2>4. Waits(d)' <= Waits(d)
    BY <2>1, EachIsAtMostOne
  <2>5. QED
    BY <1>1, <1>2, <2>3, <2>4, CountGoesOn
<1>11. QED
  BY <1>6, <1>7, <1>8, <1>9, <1>10, CountIsBoundedNext DEF IngestInv

-----------------------------------------------------------------------------
(* The other steps                                                         *)

\* Answers from the row, a changing service, a round given up, a restart.
LEMMA OthersKeep ==
    ASSUME IngestInv,
           \/ \E e \in Events : AnswerStored(e)
           \/ \E status \in {"up", "down", "broken"} : MLChanges(status)
           \/ LoopGivesUp
           \/ Restart
    PROVE  IngestInv'
<1>1. /\ TypeOK /\ \A d \in Events : Bounded(d)
      /\ OneShakeOneIncident /\ ToldIsStored /\ RequestsAgree /\ LoopAgrees
  BY CountIsBounded DEF IngestInv
<1>2. /\ UNCHANGED <<stored, queue, runs, card, overlapped>>
      /\ \A a \in Attempts : handler'[a] = handler[a] \/ handler'[a] = None
      /\ loop' = loop \/ loop' = Asleep
      /\ \A e \in Events : answer'[e] = answer[e] \/ (answer'[e] = stored[e] /\ stored[e] # "absent")
  BY <1>1 DEF AnswerStored, MLChanges, LoopGivesUp, Restart, TypeOK
<1>3. TypeOK'
  <2>1. CASE \E e \in Events : AnswerStored(e)
    BY <1>1, <2>1 DEF AnswerStored, TypeOK
  <2>2. CASE \E status \in {"up", "down", "broken"} : MLChanges(status)
    BY <1>1, <2>2 DEF MLChanges, TypeOK
  <2>3. CASE LoopGivesUp
    BY <1>1, <2>3 DEF LoopGivesUp, TypeOK, Asleep
  <2>4. CASE Restart
    BY <1>1, <2>4, BatchAssumption DEF Restart, TypeOK, Asleep
  <2>5. QED
    BY <2>1, <2>2, <2>3, <2>4
<1>4. OneShakeOneIncident' /\ ToldIsStored'
  BY <1>1, <1>2 DEF OneShakeOneIncident, ToldIsStored
<1>5. RequestsAgree'
  BY <1>1, <1>2 DEF RequestsAgree, At, IsOpen
<1>6. LoopAgrees'
  BY <1>1, <1>2 DEF LoopAgrees, Asleep, IsInjective
<1>7. ASSUME NEW d \in Events PROVE Bounded(d)'
  <2>1. Awaiting(d)' \subseteq Awaiting(d)
    BY <1>2 DEF Awaiting, At, IsOpen
  <2>2. Waits(d)' <= Waits(d)
    BY <2>1 DEF Waits
  <2>3. Holds(d)' = Holds(d) \/ Holds(d)' = 0
    BY <1>2 DEF Holds, InBatch, Asleep
  <2>4. QED
    BY <1>1, <1>2, <2>2, <2>3, CountGoesOn
<1>8. QED
  BY <1>3, <1>4, <1>5, <1>6, <1>7, CountIsBoundedNext DEF IngestInv

LEMMA StutteringKeeps ==
    ASSUME IngestInv, UNCHANGED vars
    PROVE  IngestInv'
BY DEF vars, IngestInv, TypeOK, OneShakeOneIncident, ToldIsStored, RequestsAgree, LoopAgrees,
       SecondRunNeedsOverlap, Awaiting, InBatch, At, IsOpen

\* Requests, loop and rows agree in every reachable state.
THEOREM IngestInvariance == Spec => []IngestInv
<1>1. IngestInv /\ [Next]_vars => IngestInv'
  <2> SUFFICES ASSUME IngestInv, [Next]_vars PROVE IngestInv'
    OBVIOUS
  <2>1. CASE \E a \in Attempts, e \in Events : Persist(a, e)
    BY <2>1, PersistKeeps
  <2>2. CASE \E a \in Attempts : Handle(a)
    BY <2>2, GoingOnKeeps, ClassifiedKeeps DEF Handle
  <2>3. CASE RetryLoop
    BY <2>3, WakingKeeps, LoopClassifiesKeeps, LoopBroadcastsKeeps, OthersKeep DEF RetryLoop
  <2>4. CASE UNCHANGED vars
    BY <2>4, StutteringKeeps
  <2>5. QED
    BY <2>1, <2>2, <2>3, <2>4, OthersKeep DEF Next
<1>2. QED
  BY InitiallyIngestInv, <1>1, PTL DEF Spec

\* However often the device repeats an event, it is one row.
THEOREM OneShakeIsOneIncident == Spec => []OneShakeOneIncident
<1>1. IngestInv => OneShakeOneIncident
  BY DEF IngestInv
<1>2. QED
  BY <1>1, IngestInvariance, PTL

\* What dashboards and device were told is in the database.
THEOREM WhatWasToldIsStored == Spec => []ToldIsStored
<1>1. IngestInv => ToldIsStored
  BY DEF IngestInv
<1>2. QED
  BY <1>1, IngestInvariance, PTL

\* Inference runs once for an event; twice at most, and only for one that the loop
\* loaded while the request that stored it was still waiting.
THEOREM InferenceIsBounded == Spec => []SecondRunNeedsOverlap
<1>1. IngestInv => SecondRunNeedsOverlap
  BY DEF IngestInv
<1>2. QED
  BY <1>1, IngestInvariance, PTL

\* No step loses a stored event or unmakes its classification.
THEOREM WhatIsMadeStays == Spec => NothingIsUnmade
<1>1. IngestInv /\ [Next]_vars =>
        [\A e \in Events :
            /\ stored[e] # "absent" => stored'[e] # "absent"
            /\ stored[e] = "classified" => stored'[e] = "classified"]_vars
  <2> SUFFICES ASSUME IngestInv, Next, NEW e \in Events
               PROVE  /\ stored[e] # "absent" => stored'[e] # "absent"
                      /\ stored[e] = "classified" => stored'[e] = "classified"
    OBVIOUS
  <2>1. stored \in [Events -> {"absent"} \union Results]
    BY DEF IngestInv, TypeOK
  <2>2. CASE \E a \in Attempts, d \in Events : Persist(a, d)
    BY <2>1, <2>2 DEF Persist
  <2>3. CASE \E d : WriteBack(d)
    BY <2>1, <2>3 DEF WriteBack
  <2>4. CASE UNCHANGED stored
    BY <2>4
  <2>5. QED
    BY <2>2, <2>3, <2>4 DEF Next, Handle, RetryLoop, AnswerStored, Classified, LeftPending,
          Failed, Broadcast, Reply, LoopWakes, LoopClassifies, LoopGivesUp, LoopBroadcasts,
          MLChanges, Restart
<1>2. QED
  BY <1>1, IngestInvariance, PTL DEF Spec, NothingIsUnmade
=============================================================================
