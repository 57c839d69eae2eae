------------------------------ MODULE FeedProofs ------------------------------
(***************************************************************************)
(* Theorems about module Feed, for every choice of its constants.          *)
(*                                                                         *)
(* FeedInv is inductive.  Most actions change the cards in one way, by a   *)
(* broadcast, so two lemmas carry the proof: what a broadcast keeps if the *)
(* copy it sends is not ahead of the row (BroadcastKeeps), and what an     *)
(* action keeps that only opens, moves or ends a session (QuietKeeps).     *)
(***************************************************************************)
EXTENDS Feed, TLAPS

-----------------------------------------------------------------------------
(* What a step does                                                        *)

\* After the step, `card` is not ahead of row i.
ThenNotAhead(card, i) == /\ row'[i].received # 0
                         /\ card.received = row'[i].received
                         /\ card.status <= row'[i].status
                         /\ card.acknowledged => row'[i].acknowledged
                         /\ card.closed => row'[i].closed
                         /\ card.done => row'[i].done

\* `card` has the columns of `old`, or later values of them.
Extends(card, old) == /\ old.status <= card.status
                      /\ old.acknowledged => card.acknowledged
                      /\ old.closed => card.closed
                      /\ old.done => card.done

\* The step writes row i at most, and takes nothing back.
RowGrows(i) ==
    /\ row' \in [Incidents -> Row]
    /\ \A j \in Incidents \ {i} : row'[j] = row[j]
    /\ Stored(i) => ThenNotAhead(row[i], i)

\* The step keeps count of the arrivals.
CountsArrivals ==
    /\ latest' \in Nat
    /\ latest <= latest'
    /\ \A j \in Incidents : row'[j].received <= latest'
    /\ latest' # 0 => \E j \in Incidents : row'[j].received = latest'

\* The step moves session s only, which is or was about incident i.
SessionMoves(s, i) ==
    /\ session' \in [Sessions -> OpenSession \union {NoSession}]
    /\ \A t \in Sessions \ {s} : session'[t] = session[t]
    /\ At(s, "send") => session[s].incident = i
    /\ \/ session'[s] = NoSession
       \/ session'[s].incident = i /\ ThenNotAhead(session'[s].copy, i)

\* The step writes cards of incident i only, and only into `copy`.
CardsBecome(i, copy) ==
    /\ shown' \in [Clients -> [Incidents -> Row \union {NoCard}]]
    /\ \A e \in Clients, j \in Incidents :
          shown'[e][j] = shown[e][j] \/ (j = i /\ shown'[e][j] = copy)

\* The step breaks no connection, and clients count `copy` as seen, or not.
LinksAdvance(i, copy) ==
    /\ link' \in [Clients -> [at: {"off", "behind", "live"}, from: Nat]]
    /\ \A e \in Clients :
          /\ link'[e].at = link[e].at
          /\ \/ link'[e].from = link[e].from
             \/ /\ link'[e].from = copy.received
                /\ link[e].from < copy.received
                /\ shown'[e][i] = copy

-----------------------------------------------------------------------------
(* Lemmas about the operators                                              *)

\* The fields of an open session.
LEMMA SessionFields ==
    ASSUME TypeOK, NEW s \in Sessions, ~ Free(s)
    PROVE  /\ session[s] \in OpenSession
           /\ session[s].incident \in Incidents
           /\ session[s].copy \in Row
           /\ session[s].to \subseteq Clients
  BY DEF TypeOK, OpenSession, Free

\* The columns of a row and of a card.
LEMMA RowFields ==
    ASSUME NEW card \in Row
    PROVE  /\ card.received \in Nat
           /\ card.status \in Nat
           /\ card.acknowledged \in BOOLEAN
           /\ card.closed \in BOOLEAN
           /\ card.done \in BOOLEAN
           /\ card # NoCard
  BY BoundAssumption, CardAssumption DEF Row

\* A broadcast under way, or over.
LEMMA SendingTypes ==
    ASSUME NEW i \in Incidents, NEW copy \in Row, NEW D \in SUBSET Clients
    PROVE  Sending(i, copy, D) \in OpenSession \union {NoSession}
  BY DEF Sending, OpenSession, Places

\* What merging a frame changes at the clients.
LEMMA ShowEffect ==
    ASSUME TypeOK, NEW d \in Clients, NEW i \in Incidents, NEW copy \in Row,
           Show(d, i, copy)
    PROVE  CardsBecome(i, copy) /\ LinksAdvance(i, copy) /\ shown'[d][i] = copy
  <1>1. /\ shown' = [shown EXCEPT ![d][i] = copy]
        /\ \/ link' = link
           \/ copy.received > link[d].from /\ link' = [link EXCEPT ![d].from = copy.received]
    BY DEF Show
  <1>2. copy.received \in Nat
    BY RowFields
  <1>3. link \in [Clients -> [at: {"off", "behind", "live"}, from: Nat]]
    BY DEF TypeOK
  <1>4. shown \in [Clients -> [Incidents -> Row \union {NoCard}]]
    BY DEF TypeOK
  <1>5. CardsBecome(i, copy) /\ shown'[d][i] = copy
    BY <1>1, <1>4 DEF CardsBecome
  <1>6. CASE link' = link
    BY <1>3, <1>5, <1>6 DEF LinksAdvance
  <1>7. CASE copy.received > link[d].from /\ link' = [link EXCEPT ![d].from = copy.received]
    <2>1. \A e \in Clients : /\ link'[e].at = link[e].at
                             /\ e # d => link'[e].from = link[e].from
                             /\ e = d => link'[e].from = copy.received
      BY <1>3, <1>7
    <2>2. link' \in [Clients -> [at: {"off", "behind", "live"}, from: Nat]]
      BY <1>2, <1>3, <1>7
    <2>3. link[d].from \in Nat
      BY <1>3
    <2> QED
      BY <1>2, <1>5, <1>7, <2>1, <2>2, <2>3 DEF LinksAdvance
  <1> QED
    BY <1>1, <1>6, <1>7

\* What a broadcast changes up to the end of its first send; and whoever should
\* receive it has it, or will.
LEMMA BroadcastEffect ==
    ASSUME TypeOK, NEW s \in Sessions, NEW i \in Incidents, NEW copy \in Row,
           ~ At(s, "send"), Broadcast(s, i, copy), ThenNotAhead(copy, i)
    PROVE  /\ SessionMoves(s, i) /\ CardsBecome(i, copy) /\ LinksAdvance(i, copy)
           /\ \A e \in Receivers(i) :
                 shown'[e][i] = copy \/ (/\ session'[s].at = "send"
                                         /\ session'[s].incident = i
                                         /\ e \in session'[s].to)
  <1>1. CASE Receivers(i) = {}
    <2>1. session' = [session EXCEPT ![s] = NoSession] /\ link' = link /\ shown' = shown
      BY <1>1 DEF Broadcast, Become
    <2> QED
      BY <1>1, <2>1 DEF TypeOK, SessionMoves, CardsBecome, LinksAdvance
  <1>2. CASE Receivers(i) # {}
    <2>1. PICK d \in Receivers(i) : /\ Show(d, i, copy)
                                    /\ Become(s, Sending(i, copy, Receivers(i) \ {d}))
      BY <1>2 DEF Broadcast
    <2>2. d \in Clients /\ Receivers(i) \subseteq Clients
      BY DEF Receivers
    <2>3. Sending(i, copy, Receivers(i) \ {d}) \in OpenSession \union {NoSession}
      BY <2>2, SendingTypes
    <2>4. /\ session' \in [Sessions -> OpenSession \union {NoSession}]
          /\ session'[s] = Sending(i, copy, Receivers(i) \ {d})
          /\ \A t \in Sessions \ {s} : session'[t] = session[t]
      BY <2>1, <2>3 DEF TypeOK, Become
    <2>5. \/ session'[s] = NoSession
          \/ session'[s].incident = i /\ session'[s].copy = copy
      BY <2>4 DEF Sending
    <2>6. SessionMoves(s, i)
      BY <2>4, <2>5 DEF SessionMoves
    <2>7. \A e \in Receivers(i) \ {d} :
             /\ session'[s].at = "send"
             /\ session'[s].incident = i
             /\ e \in session'[s].to
      BY <2>4 DEF Sending
    <2>8. CardsBecome(i, copy) /\ LinksAdvance(i, copy) /\ shown'[d][i] = copy
      BY <2>1, <2>2, ShowEffect
    <2> QED
      BY <2>6, <2>7, <2>8
  <1> QED
    BY <1>1, <1>2

\* What is not ahead of a row stays so.
LEMMA NotAheadStays ==
    ASSUME TypeOK, NEW i \in Incidents, RowGrows(i),
           NEW j \in Incidents, NEW card \in Row, NotAhead(card, j)
    PROVE  ThenNotAhead(card, j)
  <1>1. row[j] \in Row /\ row'[j] \in Row
    BY DEF TypeOK, RowGrows
  <1>2. Stored(j)
    BY DEF NotAhead
  <1>3. CASE j = i
    <2>1. ThenNotAhead(row[j], j)
      BY <1>2, <1>3 DEF RowGrows
    <2> QED
      BY <1>1, <2>1, RowFields DEF ThenNotAhead, NotAhead
  <1>4. CASE j # i
    BY <1>4 DEF RowGrows, ThenNotAhead, NotAhead, Stored
  <1> QED
    BY <1>3, <1>4

\* The fields of a connection.
LEMMA FromIsNat ==
    ASSUME TypeOK, NEW d \in Clients
    PROVE  link[d].from \in Nat /\ link[d].at \in {"off", "behind", "live"}
  BY DEF TypeOK

-----------------------------------------------------------------------------
(* What keeps the invariant                                                *)

\* A step that works on one incident keeps FeedInv, if what it shows is not
\* ahead of the row and nobody comes to miss that incident.
LEMMA StepKeeps ==
    ASSUME FeedInv, NEW s \in Sessions, NEW i \in Incidents, NEW copy \in Row,
           SessionMoves(s, i), CardsBecome(i, copy), LinksAdvance(i, copy),
           RowGrows(i), CountsArrivals, ThenNotAhead(copy, i), drops' \in 0..MaxDrops,
           \A d \in Clients : Missed(d, i)' => Missed(d, i)
    PROVE  FeedInv'
  <1> USE DEF FeedInv
  <1>1. /\ session' \in [Sessions -> OpenSession \union {NoSession}]
        /\ link' \in [Clients -> [at: {"off", "behind", "live"}, from: Nat]]
        /\ shown' \in [Clients -> [Incidents -> Row \union {NoCard}]]
    BY DEF SessionMoves, CardsBecome, LinksAdvance
  <1>2. /\ \A t \in Sessions \ {s} : session'[t] = session[t]
        /\ At(s, "send") => session[s].incident = i
        /\ \/ session'[s] = NoSession
           \/ session'[s].incident = i /\ ThenNotAhead(session'[s].copy, i)
    BY DEF SessionMoves
  <1>3. \A e \in Clients, j \in Incidents :
           shown'[e][j] = shown[e][j] \/ (j = i /\ shown'[e][j] = copy)
    BY DEF CardsBecome
  <1>4. \A e \in Clients :
           /\ link'[e].at = link[e].at
           /\ \/ link'[e].from = link[e].from
              \/ /\ link'[e].from = copy.received
                 /\ link[e].from < copy.received
                 /\ shown'[e][i] = copy
    BY DEF LinksAdvance
  <1>5. copy.received \in Nat /\ copy # NoCard
    BY RowFields
  <1>6. TypeOK'
    BY <1>1 DEF TypeOK, RowGrows, CountsArrivals
  <1>7. ShownIsPast'
    <2>1. ASSUME NEW t \in Sessions, session'[t] # NoSession
          PROVE  ThenNotAhead(session'[t].copy, session'[t].incident)
      <3>1. CASE t = s
        BY <1>2, <2>1, <3>1
      <3>2. CASE t # s
        <4>1. session'[t] = session[t] /\ ~ Free(t)
          BY <1>2, <2>1, <3>2 DEF Free
        <4>2. NotAhead(session[t].copy, session[t].incident)
          BY <4>1 DEF ShownIsPast
        <4> QED
          BY <4>1, <4>2, SessionFields, NotAheadStays
      <3> QED
        BY <3>1, <3>2
    <2>2. ASSUME NEW d \in Clients, NEW j \in Incidents, shown'[d][j] # NoCard
          PROVE  ThenNotAhead(shown'[d][j], j)
      <3>1. CASE j = i /\ shown'[d][j] = copy
        BY <3>1
      <3>2. CASE shown'[d][j] = shown[d][j]
        <4>1. NotAhead(shown[d][j], j) /\ shown[d][j] \in Row
          BY <2>2, <3>2 DEF ShownIsPast, TypeOK
        <4> QED
          BY <3>2, <4>1, NotAheadStays
      <3> QED
        BY <1>3, <3>1, <3>2
    <2> QED
      BY <2>1, <2>2 DEF ShownIsPast, NotAhead, ThenNotAhead, Stored, Free
  <1>8. LatestIsNewest'
    <2>1. ASSUME NEW d \in Clients
          PROVE  link'[d].from <= latest'
      <3>1. CASE link'[d].from = link[d].from
        <4>1. link[d].from <= latest
          BY DEF LatestIsNewest
        <4> QED
          BY <3>1, <4>1, FromIsNat DEF CountsArrivals, TypeOK
      <3>2. CASE link'[d].from = copy.received
        BY <3>2 DEF ThenNotAhead, CountsArrivals
      <3> QED
        BY <1>4, <3>1, <3>2
    <2> QED
      BY <2>1 DEF LatestIsNewest, CountsArrivals
  <1>9. FromWasSeen'
    <2> SUFFICES ASSUME NEW d \in Responders, link'[d].from # 0
                 PROVE  \E j \in Incidents : /\ shown'[d][j] # NoCard
                                             /\ shown'[d][j].received >= link'[d].from
      BY DEF FromWasSeen
    <2>1. d \in Clients
      BY DEF Clients
    <2>2. CASE link'[d].from = copy.received /\ shown'[d][i] = copy
      BY <1>5, <2>2
    <2>3. CASE link'[d].from = link[d].from
      <3>1. PICK j \in Incidents : shown[d][j] # NoCard /\ shown[d][j].received >= link[d].from
        BY <2>3 DEF FromWasSeen
      <3>2. CASE shown'[d][j] = shown[d][j]
        BY <2>3, <3>1, <3>2
      <3>3. CASE j = i /\ shown'[d][j] = copy
        <4>1. ThenNotAhead(shown[d][j], j)
          BY <2>1, <3>1, NotAheadStays DEF ShownIsPast, TypeOK
        <4>2. copy.received = shown[d][j].received
          BY <3>3, <4>1 DEF ThenNotAhead
        <4> QED
          BY <1>5, <2>3, <3>1, <3>3, <4>2
      <3> QED
        BY <1>3, <2>1, <3>2, <3>3
    <2> QED
      BY <1>4, <2>1, <2>2, <2>3
  <1>10. MissedIsBehindFrom'
    <2> SUFFICES ASSUME NEW d \in Clients, NEW j \in Incidents, Missed(d, j)'
                 PROVE  d \in Responders /\ row'[j].received < link'[d].from
      BY DEF MissedIsBehindFrom
    <2>1. Missed(d, j)
      <3>1. CASE j = i
        BY <3>1
      <3>2. CASE j # i
        <4>1. row'[j] = row[j] /\ shown'[d][j] = shown[d][j] /\ link'[d].at = link[d].at
          BY <1>3, <1>4, <3>2 DEF RowGrows
        <4>2. Coming(d, j) => Coming(d, j)'
          BY <1>2, <3>2 DEF Coming, At
        <4> QED
          BY <4>1, <4>2 DEF Missed, CanReceive, Stored
      <3> QED
        BY <3>1, <3>2
    <2>2. d \in Responders /\ row[j].received < link[d].from
      BY <2>1 DEF MissedIsBehindFrom
    <2>3. row'[j].received = row[j].received
      BY <2>1 DEF Missed, RowGrows, ThenNotAhead
    <2>4. row[j].received \in Nat /\ link[d].from \in Nat
      BY FromIsNat DEF TypeOK, Row
    <2> QED
      BY <1>4, <1>5, <2>2, <2>3, <2>4
  <1> QED
    BY <1>6, <1>7, <1>8, <1>9, <1>10

\* A broadcast of a copy that is not ahead of its row keeps FeedInv.
LEMMA BroadcastKeeps ==
    ASSUME FeedInv, NEW s \in Sessions, NEW i \in Incidents, NEW copy \in Row,
           ~ At(s, "send"), Broadcast(s, i, copy),
           RowGrows(i), CountsArrivals, ThenNotAhead(copy, i), drops' \in 0..MaxDrops
    PROVE  FeedInv'
  <1>1. TypeOK
    BY DEF FeedInv
  <1>2. SessionMoves(s, i) /\ CardsBecome(i, copy) /\ LinksAdvance(i, copy)
    BY <1>1, BroadcastEffect
  <1>3. ASSUME NEW d \in Clients, Missed(d, i)'
        PROVE  FALSE
    <2>1. link[d].at = "live" /\ CanReceive(d, i) /\ shown'[d][i] = NoCard
      BY <1>2, <1>3 DEF Missed, CanReceive, LinksAdvance
    <2>2. d \in Receivers(i)
      BY <2>1 DEF Receivers, Connected
    <2>3. copy # NoCard
      BY RowFields
    <2>4. session'[s].at = "send" /\ session'[s].incident = i /\ d \in session'[s].to
      BY <1>1, <2>1, <2>2, <2>3, BroadcastEffect
    <2>5. Coming(d, i)'
      BY <2>4 DEF Coming, At
    <2> QED
      BY <1>3, <2>5 DEF Missed
  <1> QED
    BY <1>2, <1>3, StepKeeps

\* A step that opens, moves or ends a session and shows nothing keeps FeedInv,
\* if it classifies nothing.
LEMMA QuietKeeps ==
    ASSUME FeedInv, NEW s \in Sessions, NEW i \in Incidents,
           NEW next \in OpenSession \union {NoSession},
           ~ At(s, "send"), Become(s, next),
           next = NoSession \/ (next.incident = i /\ ThenNotAhead(next.copy, i)),
           RowGrows(i), CountsArrivals, row'[i].received # 0,
           row'[i].done => Stored(i) /\ row[i].done,
           UNCHANGED <<link, shown>>, drops' \in 0..MaxDrops
    PROVE  FeedInv'
  <1>1. TypeOK
    BY DEF FeedInv
  <1>2. SessionMoves(s, i)
    BY <1>1 DEF SessionMoves, TypeOK, Become
  <1>3. CardsBecome(i, row'[i]) /\ LinksAdvance(i, row'[i])
    BY <1>1 DEF CardsBecome, LinksAdvance, TypeOK
  <1>4. row'[i] \in Row
    BY DEF RowGrows
  <1>5. ThenNotAhead(row'[i], i)
    BY <1>4, RowFields DEF ThenNotAhead
  <1>6. ASSUME NEW d \in Clients, Missed(d, i)'
        PROVE  Missed(d, i)
    <2>1. Coming(d, i) => Coming(d, i)'
      BY <1>2 DEF Coming, At, SessionMoves
    <2> QED
      BY <1>6, <2>1 DEF Missed, CanReceive, Stored
  <1> QED
    BY <1>2, <1>3, <1>4, <1>5, <1>6, StepKeeps

-----------------------------------------------------------------------------
(* The three ways in which an action treats the rows                       *)

\* It leaves them alone.
LEMMA RowsStay ==
    ASSUME FeedInv, NEW i \in Incidents, UNCHANGED <<row, latest>>
    PROVE  /\ RowGrows(i) /\ CountsArrivals
           /\ row'[i] = row[i] /\ row[i] \in Row
  <1>1. TypeOK /\ LatestIsNewest
    BY DEF FeedInv
  <1>2. row[i] \in Row
    BY <1>1 DEF TypeOK
  <1>3. RowGrows(i)
    BY <1>1, <1>2, RowFields DEF RowGrows, ThenNotAhead, TypeOK, Stored
  <1>4. CountsArrivals
    BY <1>1 DEF CountsArrivals, LatestIsNewest, TypeOK
  <1> QED
    BY <1>2, <1>3, <1>4

\* It stores an incident.
LEMMA RowArrives ==
    ASSUME FeedInv, NEW i \in Incidents, ~ Stored(i), NEW new \in Row,
           new.received = latest + 1, Commit(i, new), latest' = latest + 1
    PROVE  /\ RowGrows(i) /\ CountsArrivals
           /\ row'[i] = new /\ ThenNotAhead(new, i)
  <1>1. TypeOK /\ LatestIsNewest
    BY DEF FeedInv
  <1>2. latest \in Nat
    BY <1>1 DEF TypeOK
  <1>3. /\ row' \in [Incidents -> Row]
        /\ row'[i] = new
        /\ \A j \in Incidents \ {i} : row'[j] = row[j]
    BY <1>1 DEF TypeOK, Commit
  <1>4. RowGrows(i)
    BY <1>3 DEF RowGrows
  <1>5. \A j \in Incidents : row'[j].received <= latest'
    <2> TAKE j \in Incidents
    <2>1. CASE j = i
      BY <1>2, <1>3, <2>1
    <2>2. CASE j # i
      <3>1. row'[j].received = row[j].received /\ row[j].received <= latest
        BY <1>1, <1>3, <2>2 DEF LatestIsNewest
      <3>2. row[j].received \in Nat
        BY <1>1, RowFields DEF TypeOK
      <3> QED
        BY <1>2, <3>1, <3>2
    <2> QED
      BY <2>1, <2>2
  <1>6. CountsArrivals
    BY <1>2, <1>3, <1>5 DEF CountsArrivals
  <1>7. ThenNotAhead(new, i)
    BY <1>2, <1>3, RowFields DEF ThenNotAhead
  <1> QED
    BY <1>3, <1>4, <1>6, <1>7

\* It writes to a stored row.
LEMMA RowWritten ==
    ASSUME FeedInv, NEW i \in Incidents, Stored(i), NEW new \in Row,
           new.received = row[i].received, Extends(new, row[i]),
           Commit(i, new), UNCHANGED latest
    PROVE  /\ RowGrows(i) /\ CountsArrivals
           /\ row'[i] = new /\ ThenNotAhead(new, i)
  <1>1. TypeOK /\ LatestIsNewest
    BY DEF FeedInv
  <1>2. /\ row' \in [Incidents -> Row]
        /\ row'[i] = new
        /\ \A j \in Incidents \ {i} : row'[j] = row[j]
    BY <1>1 DEF TypeOK, Commit
  <1>3. RowGrows(i)
    BY <1>2 DEF RowGrows, ThenNotAhead, Extends, Stored
  <1>4. \A j \in Incidents : row'[j].received = row[j].received
    BY <1>2
  <1>5. CountsArrivals
    BY <1>1, <1>4 DEF CountsArrivals, LatestIsNewest, TypeOK
  <1>6. ThenNotAhead(new, i)
    BY <1>2, RowFields DEF ThenNotAhead, Stored
  <1> QED
    BY <1>2, <1>3, <1>5, <1>6

-----------------------------------------------------------------------------
(* The actions of the hub and the clients                                  *)

LEMMA SendStep ==
    ASSUME FeedInv, NEW s \in Sessions, NEW d \in Clients, Send(s, d)
    PROVE  FeedInv'
  <1>1. TypeOK /\ ShownIsPast
    BY DEF FeedInv
  <1>2. At(s, "send") /\ d \in session[s].to
    BY DEF Send
  <1>3. ~ Free(s)
    BY <1>2 DEF Free, At, NoSession
  <1>4. PICK i \in Incidents, copy \in Row, rest \in SUBSET Clients :
           /\ i = session[s].incident
           /\ copy = session[s].copy
           /\ rest = session[s].to \ {d}
    BY <1>1, <1>3, SessionFields
  <1>5. /\ Show(d, i, copy)
        /\ session' = [session EXCEPT ![s] = Sending(i, copy, rest)]
        /\ UNCHANGED <<row, latest, drops>>
    BY <1>4 DEF Send, Become
  <1>6. RowGrows(i) /\ CountsArrivals /\ row'[i] = row[i]
    BY <1>5, RowsStay
  <1>7. ThenNotAhead(copy, i)
    BY <1>1, <1>3, <1>4, <1>6 DEF ShownIsPast, NotAhead, ThenNotAhead, Stored
  <1>8. /\ session' \in [Sessions -> OpenSession \union {NoSession}]
        /\ session'[s] = Sending(i, copy, rest)
        /\ \A t \in Sessions \ {s} : session'[t] = session[t]
    BY <1>1, <1>5, SendingTypes DEF TypeOK
  <1>9. SessionMoves(s, i)
    BY <1>4, <1>7, <1>8 DEF SessionMoves, Sending
  <1>10. CardsBecome(i, copy) /\ LinksAdvance(i, copy) /\ shown'[d][i] = copy
    BY <1>1, <1>5, ShowEffect
  <1>11. ASSUME NEW e \in Clients, Missed(e, i)'
         PROVE  Missed(e, i)
    <2>1. copy # NoCard
      BY <1>4, RowFields
    <2>2. shown'[e][i] = NoCard
      BY <1>11 DEF Missed
    <2>3. e # d /\ shown[e][i] = NoCard
      BY <1>4, <1>10, <2>1, <2>2 DEF CardsBecome
    <2>4. Coming(e, i) => Coming(e, i)'
      <3> SUFFICES ASSUME Coming(e, i) PROVE Coming(e, i)'
        OBVIOUS
      <3>1. PICK t \in Sessions : At(t, "send") /\ session[t].incident = i /\ e \in session[t].to
        BY DEF Coming
      <3>2. CASE t = s
        <4>1. e \in rest
          BY <1>4, <2>3, <3>1, <3>2
        <4>2. session'[s].at = "send" /\ session'[s].incident = i /\ e \in session'[s].to
          BY <1>8, <4>1 DEF Sending
        <4> QED
          BY <4>2 DEF Coming, At
      <3>3. CASE t # s
        BY <1>8, <3>1, <3>3 DEF Coming, At
      <3> QED
        BY <3>2, <3>3
    <2>5. row'[i] = row[i] /\ link'[e].at = link[e].at
      BY <1>6, <1>10 DEF LinksAdvance
    <2> QED
      BY <1>11, <2>3, <2>4, <2>5 DEF Missed, CanReceive, Stored
  <1>12. drops' \in 0..MaxDrops
    BY <1>1, <1>5 DEF TypeOK
  <1> QED
    BY <1>6, <1>7, <1>9, <1>10, <1>11, <1>12, StepKeeps

LEMMA ConnectStep ==
    ASSUME FeedInv, NEW d \in Clients, Connect(d)
    PROVE  FeedInv'
  <1>1. /\ link' = [link EXCEPT ![d].at = "behind"]
        /\ UNCHANGED <<row, latest, session, shown, drops>>
    BY DEF Connect
  <1>2. TypeOK /\ ShownIsPast /\ LatestIsNewest /\ FromWasSeen /\ MissedIsBehindFrom
    BY DEF FeedInv
  <1>3. /\ link' \in [Clients -> [at: {"off", "behind", "live"}, from: Nat]]
        /\ \A e \in Clients : /\ link'[e].from = link[e].from
                              /\ link'[e].at = "live" => link[e].at = "live"
    BY <1>1, <1>2 DEF TypeOK
  <1>4. TypeOK'
    BY <1>1, <1>2, <1>3 DEF TypeOK
  <1>5. ShownIsPast'
    BY <1>1, <1>2 DEF ShownIsPast, NotAhead, Stored, Free
  <1>6. LatestIsNewest'
    BY <1>1, <1>2, <1>3 DEF LatestIsNewest
  <1>7. FromWasSeen'
    BY <1>1, <1>2, <1>3 DEF FromWasSeen, Clients
  <1>8. MissedIsBehindFrom'
    BY <1>1, <1>2, <1>3 DEF MissedIsBehindFrom, Missed, Coming, At, CanReceive, Stored
  <1> QED
    BY <1>4, <1>5, <1>6, <1>7, <1>8 DEF FeedInv

LEMMA BackfillStep ==
    ASSUME FeedInv, NEW d \in Clients, Backfill(d)
    PROVE  FeedInv'
  <1>1. /\ shown' = [shown EXCEPT ![d] = [i \in Incidents |->
                                             IF InBackfill(d, i) THEN row[i] ELSE shown[d][i]]]
        /\ link' = [link EXCEPT ![d] = [at |-> "live", from |-> latest]]
        /\ UNCHANGED <<row, latest, session, drops>>
    BY DEF Backfill
  <1>2. TypeOK /\ ShownIsPast /\ LatestIsNewest /\ FromWasSeen /\ MissedIsBehindFrom
    BY DEF FeedInv
  <1>3. /\ row \in [Incidents -> Row]
        /\ shown \in [Clients -> [Incidents -> Row \union {NoCard}]]
        /\ link \in [Clients -> [at: {"off", "behind", "live"}, from: Nat]]
        /\ latest \in Nat
    BY <1>2 DEF TypeOK
  <1>4. /\ shown' \in [Clients -> [Incidents -> Row \union {NoCard}]]
        /\ \A e \in Clients \ {d} : shown'[e] = shown[e]
        /\ \A i \in Incidents :
              shown'[d][i] = IF InBackfill(d, i) THEN row[i] ELSE shown[d][i]
    BY <1>1, <1>3
  <1>5. /\ link' \in [Clients -> [at: {"off", "behind", "live"}, from: Nat]]
        /\ \A e \in Clients \ {d} : link'[e] = link[e]
        /\ link'[d].from = latest
    BY <1>1, <1>3
  <1>6. \A i \in Incidents : row[i].received \in Nat /\ row[i] # NoCard
    BY <1>3, RowFields
  <1>7. TypeOK'
    BY <1>1, <1>2, <1>4, <1>5 DEF TypeOK
  <1>8. ShownIsPast'
    <2>1. ASSUME NEW e \in Clients, NEW i \in Incidents, shown'[e][i] # NoCard
          PROVE  NotAhead(shown'[e][i], i)
      <3>1. CASE shown'[e][i] = shown[e][i]
        BY <1>2, <2>1, <3>1 DEF ShownIsPast
      <3>2. CASE InBackfill(d, i) /\ shown'[e][i] = row[i]
        BY <1>3, <3>2, RowFields DEF InBackfill, NotAhead
      <3> QED
        BY <1>4, <3>1, <3>2
    <2> QED
      BY <1>1, <1>2, <2>1 DEF ShownIsPast, NotAhead, Stored, Free
  <1>9. LatestIsNewest'
    BY <1>1, <1>2, <1>3, <1>5 DEF LatestIsNewest
  <1>10. FromWasSeen'
    <2> SUFFICES ASSUME NEW e \in Responders, link'[e].from # 0
                 PROVE  \E i \in Incidents : /\ shown'[e][i] # NoCard
                                             /\ shown'[e][i].received >= link'[e].from
      BY DEF FromWasSeen
    <2>1. CASE e # d
      BY <1>2, <1>4, <1>5, <2>1 DEF FromWasSeen, Clients
    <2>2. CASE e = d
      <3>1. PICK i \in Incidents : row[i].received = latest
        BY <1>2, <1>5, <2>2 DEF LatestIsNewest
      <3>2. InBackfill(d, i)
        BY <1>2, <1>3, <1>5, <2>2, <3>1, ClientAssumption
           DEF InBackfill, CanReceive, Stored, LatestIsNewest
      <3> QED
        BY <1>3, <1>4, <1>5, <1>6, <2>2, <3>1, <3>2
    <2> QED
      BY <2>1, <2>2
  <1>11. MissedIsBehindFrom'
    <2> SUFFICES ASSUME NEW e \in Clients, NEW i \in Incidents, Missed(e, i)'
                 PROVE  e \in Responders /\ row[i].received < link'[e].from
      BY <1>1 DEF MissedIsBehindFrom
    <2>1. CanReceive(e, i) /\ Stored(i) /\ shown'[e][i] = NoCard
      BY <1>1 DEF Missed, CanReceive, Stored
    <2>2. CASE e # d
      <3>1. Missed(e, i)
        BY <1>1, <1>4, <1>5, <2>2 DEF Missed, Coming, At, CanReceive, Stored
      <3> QED
        BY <1>2, <1>5, <2>2, <3>1 DEF MissedIsBehindFrom
    <2>3. CASE e = d
      <3>1. ~ InBackfill(d, i)
        BY <1>4, <1>6, <2>1, <2>3
      <3>2. d \in Responders /\ ~ (row[i].received >= link[d].from)
        BY <2>1, <2>3, <3>1 DEF InBackfill
      <3>3. link[d].from \in Nat /\ link[d].from <= latest
        BY <1>2, <1>3 DEF LatestIsNewest
      <3> QED
        BY <1>3, <1>5, <1>6, <2>3, <3>2, <3>3
    <2> QED
      BY <2>2, <2>3
  <1> QED
    BY <1>7, <1>8, <1>9, <1>10, <1>11 DEF FeedInv

LEMMA DropStep ==
    ASSUME FeedInv, NEW d \in Clients, Drop(d)
    PROVE  FeedInv'
  <1>1. /\ drops < MaxDrops /\ drops' = drops + 1
        /\ link' = [link EXCEPT ![d].at = "off"]
        /\ session' = [s \in Sessions |->
                          IF At(s, "send")
                          THEN Sending(session[s].incident, session[s].copy, session[s].to \ {d})
                          ELSE session[s]]
        /\ UNCHANGED <<row, latest, shown>>
    BY DEF Drop
  <1>2. TypeOK /\ ShownIsPast /\ LatestIsNewest /\ FromWasSeen /\ MissedIsBehindFrom
    BY DEF FeedInv
  <1>3. /\ link' \in [Clients -> [at: {"off", "behind", "live"}, from: Nat]]
        /\ link'[d].at = "off"
        /\ \A e \in Clients : link'[e].from = link[e].from
        /\ \A e \in Clients \ {d} : link'[e].at = link[e].at
    BY <1>1, <1>2 DEF TypeOK
  <1>4. ASSUME NEW s \in Sessions
        PROVE  /\ session'[s] \in OpenSession \union {NoSession}
               /\ \/ session'[s] = NoSession
                  \/ /\ ~ Free(s)
                     /\ session'[s].incident = session[s].incident
                     /\ session'[s].copy = session[s].copy
    <2>1. CASE At(s, "send")
      <3>1. ~ Free(s)
        BY <2>1 DEF At, Free, NoSession
      <3>2. session'[s] = Sending(session[s].incident, session[s].copy, session[s].to \ {d})
        BY <1>1, <2>1
      <3>3. session'[s] \in OpenSession \union {NoSession}
        BY <1>2, <3>1, <3>2, SessionFields, SendingTypes
      <3> QED
        BY <3>1, <3>2, <3>3 DEF Sending
    <2>2. CASE ~ At(s, "send")
      <3>1. session'[s] = session[s]
        BY <1>1, <2>2
      <3> QED
        BY <1>2, <3>1 DEF TypeOK, Free
    <2> QED
      BY <2>1, <2>2
  <1>5. TypeOK'
    <2>1. session' \in [Sessions -> OpenSession \union {NoSession}]
      BY <1>1, <1>4
    <2>2. drops' \in 0..MaxDrops
      BY <1>1, <1>2, BoundAssumption DEF TypeOK
    <2> QED
      BY <1>1, <1>2, <1>3, <2>1, <2>2 DEF TypeOK
  <1>6. ShownIsPast'
    <2>1. ASSUME NEW s \in Sessions, ~ Free(s)'
          PROVE  NotAhead(session[s].copy, session[s].incident)'
      <3>1. /\ ~ Free(s)
            /\ session'[s].incident = session[s].incident
            /\ session'[s].copy = session[s].copy
        BY <1>4, <2>1 DEF Free
      <3>2. NotAhead(session[s].copy, session[s].incident)
        BY <1>2, <3>1 DEF ShownIsPast
      <3> QED
        BY <1>1, <3>1, <3>2 DEF NotAhead, Stored
    <2>2. \A e \in Clients, i \in Incidents :
             shown'[e][i] # NoCard => NotAhead(shown[e][i], i)'
      BY <1>1, <1>2 DEF ShownIsPast, NotAhead, Stored
    <2> QED
      BY <2>1, <2>2 DEF ShownIsPast
  <1>7. LatestIsNewest'
    BY <1>1, <1>2, <1>3 DEF LatestIsNewest
  <1>8. FromWasSeen'
    BY <1>1, <1>2, <1>3 DEF FromWasSeen, Clients
  <1>9. MissedIsBehindFrom'
    <2> SUFFICES ASSUME NEW e \in Clients, NEW i \in Incidents, Missed(e, i)'
                 PROVE  e \in Responders /\ row[i].received < link[e].from
      BY <1>1, <1>3 DEF MissedIsBehindFrom
    <2>1. e # d
      BY <1>3 DEF Missed
    <2>2. Coming(e, i) => Coming(e, i)'
      <3> SUFFICES ASSUME Coming(e, i) PROVE Coming(e, i)'
        OBVIOUS
      <3>1. PICK s \in Sessions : At(s, "send") /\ session[s].incident = i /\ e \in session[s].to
        BY DEF Coming
      <3>2. session'[s] = Sending(i, session[s].copy, session[s].to \ {d})
        BY <1>1, <3>1
      <3>3. session'[s].at = "send" /\ session'[s].incident = i /\ e \in session'[s].to
        BY <2>1, <3>1, <3>2 DEF Sending
      <3> QED
        BY <3>3 DEF Coming, At
    <2>3. Missed(e, i)
      BY <1>1, <1>3, <2>1, <2>2 DEF Missed, CanReceive, Stored
    <2> QED
      BY <1>2, <2>3 DEF MissedIsBehindFrom
  <1> QED
    BY <1>5, <1>6, <1>7, <1>8, <1>9 DEF FeedInv

LEMMA RestartStep ==
    ASSUME FeedInv, Restart
    PROVE  FeedInv'
  <1>1. /\ drops < MaxDrops /\ drops' = drops + 1
        /\ link' = [d \in Clients |-> [link[d] EXCEPT !.at = "off"]]
        /\ session' = [s \in Sessions |-> NoSession]
        /\ UNCHANGED <<row, latest, shown>>
    BY DEF Restart
  <1>2. TypeOK /\ ShownIsPast /\ LatestIsNewest /\ FromWasSeen
    BY DEF FeedInv
  <1>3. /\ link' \in [Clients -> [at: {"off", "behind", "live"}, from: Nat]]
        /\ \A d \in Clients : link'[d].from = link[d].from /\ link'[d].at = "off"
    BY <1>1, <1>2 DEF TypeOK
  <1>4. drops' \in 0..MaxDrops
    BY <1>1, <1>2, BoundAssumption DEF TypeOK
  <1>5. TypeOK'
    BY <1>1, <1>2, <1>3, <1>4 DEF TypeOK
  <1>6. ShownIsPast'
    BY <1>1, <1>2 DEF ShownIsPast, NotAhead, Stored, Free
  <1>7. LatestIsNewest'
    BY <1>1, <1>2, <1>3 DEF LatestIsNewest
  <1>8. FromWasSeen'
    BY <1>1, <1>2, <1>3 DEF FromWasSeen, Clients
  <1>9. MissedIsBehindFrom'
    BY <1>3 DEF MissedIsBehindFrom, Missed
  <1> QED
    BY <1>5, <1>6, <1>7, <1>8, <1>9 DEF FeedInv

-----------------------------------------------------------------------------
(* The actions of those who commit and broadcast                           *)

\* What an open session holds.
LEMMA OpenFields ==
    ASSUME FeedInv, NEW s \in Sessions, ~ Free(s)
    PROVE  /\ session[s].incident \in Incidents
           /\ session[s].copy \in Row
           /\ NotAhead(session[s].copy, session[s].incident)
           /\ Stored(session[s].incident)
  BY SessionFields DEF FeedInv, ShownIsPast, NotAhead

\* A free session, and one that waits, is not sending.
LEMMA Elsewhere ==
    ASSUME NEW s \in Sessions
    PROVE  /\ Free(s) => ~ At(s, "send")
           /\ \A place \in Places : At(s, place) => ~ Free(s)
           /\ \A place \in Places \ {"send"} : At(s, place) => ~ At(s, "send")
  BY DEF Free, At, NoSession, Places

LEMMA WaitingTypes ==
    ASSUME NEW place \in Places, NEW i \in Incidents, NEW copy \in Row
    PROVE  /\ Waiting(place, i, copy) \in OpenSession
           /\ Waiting(place, i, copy).incident = i
           /\ Waiting(place, i, copy).copy = copy
  BY DEF Waiting, OpenSession

\* A row that is classified.
LEMMA DoneRow ==
    ASSUME NEW card \in Row
    PROVE  /\ [card EXCEPT !.done = TRUE] \in Row
           /\ [card EXCEPT !.done = TRUE].received = card.received
           /\ [card EXCEPT !.done = TRUE].status = card.status
           /\ [card EXCEPT !.done = TRUE].acknowledged = card.acknowledged
           /\ [card EXCEPT !.done = TRUE].closed = card.closed
           /\ [card EXCEPT !.done = TRUE].done = TRUE
  BY DEF Row

LEMMA ArrivalTypes ==
    ASSUME FeedInv
    PROVE  /\ latest + 1 \in Nat
           /\ Unclassified(latest + 1) \in Row /\ Unclassified(latest + 1).received = latest + 1
           /\ Manual(latest + 1) \in Row /\ Manual(latest + 1).received = latest + 1
           /\ ~ Unclassified(latest + 1).done
  <1>1. latest + 1 \in Nat
    BY DEF FeedInv, TypeOK
  <1> DEFINE new == Unclassified(latest + 1)
  <1>2. new \in Row
    BY <1>1 DEF Unclassified, Row
  <1>3. new.received = latest + 1 /\ ~ new.done
    BY DEF Unclassified
  <1>4. Manual(latest + 1) = [new EXCEPT !.done = TRUE]
    BY DEF Manual
  <1> HIDE DEF new
  <1>5. [new EXCEPT !.done = TRUE] \in Row /\ [new EXCEPT !.done = TRUE].received = new.received
    BY <1>2, DoneRow
  <1> QED
    BY <1>1, <1>2, <1>3, <1>4, <1>5 DEF new

\* A card whose status is written over that of the row.
LEMMA StampedCard ==
    ASSUME FeedInv, NEW i \in Incidents, NEW card \in Row,
           NEW acknowledges \in BOOLEAN, NEW closes \in BOOLEAN
    PROVE  \E new \in Row :
              /\ new = Stamped(card, i, acknowledges, closes)
              /\ new.received = card.received
              /\ new.status = row[i].status + 1
              /\ new.acknowledged <=> card.acknowledged \/ acknowledges
              /\ new.closed <=> card.closed \/ closes
              /\ new.done <=> card.done
  <1>1. row[i].status + 1 \in Nat
    BY RowFields DEF FeedInv, TypeOK
  <1>2. PICK acknowledged \in BOOLEAN, closed \in BOOLEAN :
           /\ acknowledged = (card.acknowledged \/ acknowledges)
           /\ closed = (card.closed \/ closes)
    OBVIOUS
  <1>3. Stamped(card, i, acknowledges, closes) =
          [card EXCEPT !.status = row[i].status + 1, !.acknowledged = acknowledged,
                       !.closed = closed]
    BY <1>2 DEF Stamped, Row
  <1> DEFINE new == [card EXCEPT !.status = row[i].status + 1,
                                 !.acknowledged = acknowledged, !.closed = closed]
  <1>4. new \in Row
    BY <1>1 DEF Row
  <1>5. /\ new.received = card.received
        /\ new.status = row[i].status + 1
        /\ new.acknowledged = acknowledged
        /\ new.closed = closed
        /\ new.done = card.done
    BY DEF Row
  <1> HIDE DEF new
  <1>6. /\ new.acknowledged <=> card.acknowledged \/ acknowledges
        /\ new.closed <=> card.closed \/ closes
    BY <1>2, <1>5
  <1>7. new = Stamped(card, i, acknowledges, closes)
    BY <1>3 DEF new
  <1> QED
    BY <1>4, <1>5, <1>6, <1>7

\* The row with its status written.
LEMMA StampedRow ==
    ASSUME FeedInv, NEW i \in Incidents,
           NEW acknowledges \in BOOLEAN, NEW closes \in BOOLEAN
    PROVE  \E new \in Row :
              /\ new = Stamped(row[i], i, acknowledges, closes)
              /\ new.received = row[i].received
              /\ new.status = row[i].status + 1
              /\ row[i].acknowledged \/ acknowledges => new.acknowledged
              /\ new.done => row[i].done
              /\ Extends(new, row[i])
  <1>1. row[i] \in Row /\ row[i].status \in Nat
    BY RowFields DEF FeedInv, TypeOK
  <1>2. PICK new \in Row :
           /\ new = Stamped(row[i], i, acknowledges, closes)
           /\ new.received = row[i].received
           /\ new.status = row[i].status + 1
           /\ new.acknowledged <=> row[i].acknowledged \/ acknowledges
           /\ new.closed <=> row[i].closed \/ closes
           /\ new.done <=> row[i].done
    BY <1>1, StampedCard
  <1> QED
    BY <1>1, <1>2 DEF Extends

LEMMA IngestStep ==
    ASSUME FeedInv, NEW s \in Sessions, NEW i \in Incidents, Ingest(s, i)
    PROVE  FeedInv'
  <1>1. PICK new \in Row : /\ new = Unclassified(latest + 1)
                           /\ new.received = latest + 1
                           /\ ~ new.done
    BY ArrivalTypes
  <1>2. /\ Free(s) /\ ~ Stored(i)
        /\ latest' = latest + 1
        /\ Commit(i, new)
        /\ Become(s, Waiting("ingest", i, new))
        /\ UNCHANGED <<link, shown, drops>>
    BY <1>1 DEF Ingest
  <1>3. RowGrows(i) /\ CountsArrivals /\ row'[i] = new /\ ThenNotAhead(new, i)
    BY <1>1, <1>2, RowArrives
  <1>4. "ingest" \in Places
    BY DEF Places
  <1>5. PICK next \in OpenSession : /\ next = Waiting("ingest", i, new)
                                    /\ next.incident = i
                                    /\ next.copy = new
    BY <1>4, WaitingTypes
  <1>6. drops' \in 0..MaxDrops
    BY <1>2 DEF FeedInv, TypeOK
  <1> QED
    BY <1>1, <1>2, <1>3, <1>5, <1>6, Elsewhere, QuietKeeps DEF ThenNotAhead

LEMMA PanicStep ==
    ASSUME FeedInv, NEW s \in Sessions, NEW i \in Incidents, Panic(s, i)
    PROVE  FeedInv'
  <1>1. PICK new \in Row : new = Manual(latest + 1) /\ new.received = latest + 1
    BY ArrivalTypes
  <1>2. /\ Free(s) /\ ~ Stored(i)
        /\ latest' = latest + 1
        /\ Commit(i, new)
        /\ Broadcast(s, i, new)
        /\ UNCHANGED drops
    BY <1>1 DEF Panic
  <1>3. RowGrows(i) /\ CountsArrivals /\ ThenNotAhead(new, i)
    BY <1>1, <1>2, RowArrives
  <1>4. drops' \in 0..MaxDrops
    BY <1>2 DEF FeedInv, TypeOK
  <1> QED
    BY <1>2, <1>3, <1>4, Elsewhere, BroadcastKeeps

\* PickUp and Assign: a session opens with what is stored.
LEMMA LoadKeeps ==
    ASSUME FeedInv, NEW s \in Sessions, NEW i \in Incidents, NEW place \in Places,
           Free(s), Stored(i), Become(s, Waiting(place, i, row[i])),
           UNCHANGED <<row, latest, link, shown, drops>>
    PROVE  FeedInv'
  <1>1. PICK copy \in Row : copy = row[i]
    BY RowsStay
  <1>2. RowGrows(i) /\ CountsArrivals /\ row'[i] = copy
    BY <1>1, RowsStay
  <1>3. ThenNotAhead(copy, i)
    BY <1>1, <1>2, RowFields DEF ThenNotAhead, Stored
  <1>4. PICK next \in OpenSession : /\ next = Waiting(place, i, copy)
                                    /\ next.incident = i
                                    /\ next.copy = copy
    BY WaitingTypes
  <1>5. drops' \in 0..MaxDrops
    BY DEF FeedInv, TypeOK
  <1>6. Become(s, next)
    BY <1>1, <1>4
  <1> QED
    BY <1>1, <1>2, <1>3, <1>4, <1>5, <1>6, Elsewhere, QuietKeeps DEF Stored

LEMMA PickUpStep ==
    ASSUME FeedInv, NEW s \in Sessions, NEW i \in Incidents, PickUp(s, i)
    PROVE  FeedInv'
  BY LoadKeeps DEF PickUp, Places

LEMMA AssignStep ==
    ASSUME FeedInv, NEW s \in Sessions, NEW i \in Incidents, Assign(s, i)
    PROVE  FeedInv'
  BY LoadKeeps DEF Assign, Places

LEMMA ClassifyStep ==
    ASSUME FeedInv, NEW s \in Sessions, Classify(s)
    PROVE  FeedInv'
  <1>1. At(s, "ingest") \/ At(s, "retry")
    BY DEF Classify
  <1>2. ~ Free(s) /\ ~ At(s, "send")
    BY <1>1, Elsewhere DEF Places
  <1>3. PICK i \in Incidents, copy \in Row : /\ i = session[s].incident
                                            /\ copy = session[s].copy
                                            /\ NotAhead(copy, i)
                                            /\ Stored(i)
    BY <1>2, OpenFields
  <1>4. row[i] \in Row
    BY DEF FeedInv, TypeOK
  <1>5. PICK new \in Row : /\ new = [row[i] EXCEPT !.done = TRUE]
                           /\ new.received = row[i].received
                           /\ Extends(new, row[i])
                           /\ new.done = TRUE
    <2> DEFINE written == [row[i] EXCEPT !.done = TRUE]
    <2>1. /\ written \in Row
          /\ written.received = row[i].received
          /\ written.status = row[i].status
          /\ written.acknowledged = row[i].acknowledged
          /\ written.closed = row[i].closed
          /\ written.done = TRUE
      BY <1>4, DoneRow
    <2> HIDE DEF written
    <2>2. Extends(written, row[i])
      BY <1>4, <2>1, RowFields DEF Extends
    <2> QED
      BY <2>1, <2>2 DEF written
  <1>6. PICK sent \in Row : /\ sent = [copy EXCEPT !.done = TRUE]
                            /\ sent.received = copy.received
                            /\ sent.status = copy.status
                            /\ sent.acknowledged = copy.acknowledged
                            /\ sent.closed = copy.closed
    BY DoneRow
  <1>7. Commit(i, new) /\ Broadcast(s, i, sent) /\ UNCHANGED <<latest, drops>>
    BY <1>3, <1>5, <1>6 DEF Classify
  <1>8. RowGrows(i) /\ CountsArrivals /\ row'[i] = new /\ ThenNotAhead(new, i)
    BY <1>3, <1>5, <1>7, RowWritten
  <1>9. ThenNotAhead(sent, i)
    BY <1>3, <1>5, <1>6, <1>8 DEF ThenNotAhead, NotAhead, Extends
  <1>10. drops' \in 0..MaxDrops
    BY <1>7 DEF FeedInv, TypeOK
  <1> QED
    BY <1>2, <1>7, <1>8, <1>9, <1>10, BroadcastKeeps

\* A broadcast of a copy on hand, with nothing committed.
LEMMA ResendKeeps ==
    ASSUME FeedInv, NEW s \in Sessions, NEW i \in Incidents, NEW copy \in Row,
           ~ At(s, "send"), NotAhead(copy, i), Broadcast(s, i, copy),
           UNCHANGED <<row, latest, drops>>
    PROVE  FeedInv'
  <1>1. RowGrows(i) /\ CountsArrivals /\ row'[i] = row[i]
    BY RowsStay
  <1>2. ThenNotAhead(copy, i)
    BY <1>1 DEF ThenNotAhead, NotAhead, Stored
  <1>3. drops' \in 0..MaxDrops
    BY DEF FeedInv, TypeOK
  <1> QED
    BY <1>1, <1>2, <1>3, BroadcastKeeps

LEMMA LeavePendingStep ==
    ASSUME FeedInv, NEW s \in Sessions, LeavePending(s)
    PROVE  FeedInv'
  <1>1. ~ Free(s) /\ ~ At(s, "send")
    BY Elsewhere DEF LeavePending, Places
  <1> QED
    BY <1>1, OpenFields, ResendKeeps DEF LeavePending

LEMMA AnnounceStep ==
    ASSUME FeedInv, NEW s \in Sessions, Announce(s)
    PROVE  FeedInv'
  <1>1. ~ Free(s) /\ ~ At(s, "send")
    BY Elsewhere DEF Announce, Places
  <1> QED
    BY <1>1, OpenFields, ResendKeeps DEF Announce

LEMMA RefreshStep ==
    ASSUME FeedInv, NEW s \in Sessions, NEW i \in Incidents, Refresh(s, i)
    PROVE  FeedInv'
  <1>1. row[i] \in Row
    BY DEF FeedInv, TypeOK
  <1>2. ~ At(s, "send") /\ NotAhead(row[i], i)
    BY <1>1, RowFields, Elsewhere DEF Refresh, NotAhead
  <1> QED
    BY <1>1, <1>2, ResendKeeps DEF Refresh

LEMMA AbandonStep ==
    ASSUME FeedInv, NEW s \in Sessions, Abandon(s)
    PROVE  FeedInv'
  <1>1. At(s, "ingest") \/ At(s, "retry")
    BY DEF Abandon
  <1>2. ~ Free(s) /\ ~ At(s, "send")
    BY <1>1, Elsewhere DEF Places
  <1>3. PICK i \in Incidents : i = session[s].incident /\ Stored(i)
    BY <1>2, OpenFields
  <1>4. Become(s, NoSession) /\ UNCHANGED <<row, latest, link, shown, drops>>
    BY DEF Abandon
  <1>5. RowGrows(i) /\ CountsArrivals /\ row'[i] = row[i]
    BY <1>4, RowsStay
  <1>6. drops' \in 0..MaxDrops
    BY <1>4 DEF FeedInv, TypeOK
  <1> QED
    BY <1>2, <1>3, <1>4, <1>5, <1>6, QuietKeeps DEF Stored

LEMMA OperateStep ==
    ASSUME FeedInv, NEW s \in Sessions, NEW i \in Incidents,
           NEW action \in {"acknowledge", "dispatch", "close"}, Operate(s, i, action)
    PROVE  FeedInv'
  <1>1. PICK new \in Row :
           /\ new = Stamped(row[i], i, action = "acknowledge", action = "close")
           /\ new.received = row[i].received
           /\ Extends(new, row[i])
    BY StampedRow, (action = "acknowledge") \in BOOLEAN, (action = "close") \in BOOLEAN
  <1>2. /\ Free(s) /\ Stored(i)
        /\ Commit(i, new) /\ Broadcast(s, i, new)
        /\ UNCHANGED <<latest, drops>>
    BY <1>1 DEF Operate
  <1>3. RowGrows(i) /\ CountsArrivals /\ ThenNotAhead(new, i)
    BY <1>1, <1>2, RowWritten
  <1>4. drops' \in 0..MaxDrops
    BY <1>2 DEF FeedInv, TypeOK
  <1> QED
    BY <1>2, <1>3, <1>4, Elsewhere, BroadcastKeeps

LEMMA ReportStatusStep ==
    ASSUME FeedInv, NEW s \in Sessions, NEW i \in Incidents, NEW moves \in BOOLEAN,
           ReportStatus(s, i, moves)
    PROVE  FeedInv'
  <1>1. row[i] \in Row
    BY DEF FeedInv, TypeOK
  <1>2. PICK new \in Row :
           /\ new = IF moves THEN Stamped(row[i], i, FALSE, FALSE) ELSE row[i]
           /\ new.received = row[i].received
           /\ new.done => row[i].done
           /\ Extends(new, row[i])
    <2>1. CASE moves
      BY <2>1, StampedRow
    <2>2. CASE ~ moves
      BY <1>1, <2>2, RowFields DEF Extends
    <2> QED
      BY <2>1, <2>2
  <1>3. /\ Free(s) /\ Stored(i)
        /\ Commit(i, new)
        /\ Become(s, Waiting("announce", i, new))
        /\ UNCHANGED <<latest, link, shown, drops>>
    BY <1>2 DEF ReportStatus
  <1>4. RowGrows(i) /\ CountsArrivals /\ row'[i] = new /\ ThenNotAhead(new, i)
    BY <1>2, <1>3, RowWritten
  <1>5. "announce" \in Places
    BY DEF Places
  <1>6. PICK next \in OpenSession : /\ next = Waiting("announce", i, new)
                                    /\ next.incident = i
                                    /\ next.copy = new
    BY <1>5, WaitingTypes
  <1>7. drops' \in 0..MaxDrops
    BY <1>3 DEF FeedInv, TypeOK
  <1> QED
    BY <1>2, <1>3, <1>4, <1>6, <1>7, Elsewhere, QuietKeeps DEF ThenNotAhead

LEMMA AssignedStep ==
    ASSUME FeedInv, NEW s \in Sessions, NEW moves \in BOOLEAN, Assigned(s, moves)
    PROVE  FeedInv'
  <1>1. At(s, "assign")
    BY DEF Assigned
  <1>2. ~ Free(s) /\ ~ At(s, "send")
    BY <1>1, Elsewhere DEF Places
  <1>3. PICK i \in Incidents, copy \in Row : /\ i = session[s].incident
                                            /\ copy = session[s].copy
                                            /\ NotAhead(copy, i)
                                            /\ Stored(i)
    BY <1>2, OpenFields
  <1>4. CASE moves
    <2>1. PICK fresh \in BOOLEAN : fresh = (copy.status = 0)
      OBVIOUS
    <2>2. PICK new \in Row : /\ new = Stamped(row[i], i, fresh, FALSE)
                             /\ new.received = row[i].received
                             /\ new.status = row[i].status + 1
                             /\ row[i].acknowledged \/ fresh => new.acknowledged
                             /\ Extends(new, row[i])
      BY StampedRow
    <2>3. PICK closes \in BOOLEAN : closes = FALSE
      OBVIOUS
    <2>4. PICK sent \in Row : /\ sent = Stamped(copy, i, fresh, closes)
                              /\ sent.received = copy.received
                              /\ sent.status = row[i].status + 1
                              /\ sent.acknowledged <=> copy.acknowledged \/ fresh
                              /\ sent.closed <=> copy.closed \/ closes
                              /\ sent.done <=> copy.done
      BY StampedCard, SMTT(30)
    <2>5. Commit(i, new) /\ Broadcast(s, i, sent) /\ UNCHANGED <<latest, drops>>
      BY <1>3, <1>4, <2>1, <2>2, <2>4, <2>3 DEF Assigned
    <2>6. RowGrows(i) /\ CountsArrivals /\ row'[i] = new
      BY <1>3, <2>2, <2>5, RowWritten
    <2>7. ThenNotAhead(sent, i)
      <3>1. sent.status <= new.status
        <4>1. sent.status = new.status
          BY <2>2, <2>4
        <4>2. new.status \in Nat
          BY RowFields
        <4> QED
          BY <4>1, <4>2
      <3> QED
        BY <1>3, <2>2, <2>4, <2>6, <2>3, <3>1 DEF NotAhead, Stored, ThenNotAhead, Extends
    <2>8. drops' \in 0..MaxDrops
      BY <2>5 DEF FeedInv, TypeOK
    <2> QED
      BY <1>2, <2>5, <2>6, <2>7, <2>8, BroadcastKeeps
  <1>5. CASE ~ moves
    <2>1. UNCHANGED <<row, latest, drops>> /\ Broadcast(s, i, copy)
      BY <1>3, <1>5 DEF Assigned
    <2> QED
      BY <1>2, <1>3, <2>1, ResendKeeps
  <1> QED
    BY <1>4, <1>5

-----------------------------------------------------------------------------
(* The theorems                                                            *)

LEMMA InitHolds == Init => FeedInv
  <1> SUFFICES ASSUME Init PROVE FeedInv
    OBVIOUS
  <1>1. TypeOK
    BY BoundAssumption DEF Init, TypeOK, Unclassified, Row, NoSession
  <1>2. ShownIsPast
    BY DEF Init, ShownIsPast, Free
  <1>3. LatestIsNewest
    BY DEF Init, LatestIsNewest, Unclassified
  <1>4. FromWasSeen
    BY DEF Init, FromWasSeen, Clients
  <1>5. MissedIsBehindFrom
    BY DEF Init, MissedIsBehindFrom, Missed
  <1> QED
    BY <1>1, <1>2, <1>3, <1>4, <1>5 DEF FeedInv

LEMMA StutterKeeps ==
    ASSUME FeedInv, UNCHANGED vars
    PROVE  FeedInv'
  BY DEF vars, FeedInv, TypeOK, ShownIsPast, NotAhead, LatestIsNewest, FromWasSeen,
         MissedIsBehindFrom, Missed, Coming, CanReceive, Stored, Free, At

LEMMA NextKeeps ==
    ASSUME FeedInv, [Next]_vars
    PROVE  FeedInv'
  <1>1. CASE \E s \in Sessions, d \in Clients : Send(s, d)
    BY <1>1, SendStep
  <1>2. CASE \E d \in Clients : Connect(d) \/ Backfill(d) \/ Drop(d)
    BY <1>2, ConnectStep, BackfillStep, DropStep
  <1>3. CASE \E s \in Sessions, i \in Incidents :
                \/ Ingest(s, i) \/ Panic(s, i) \/ PickUp(s, i)
                \/ Refresh(s, i) \/ Assign(s, i)
    BY <1>3, IngestStep, PanicStep, PickUpStep, RefreshStep, AssignStep
  <1>4. CASE \E s \in Sessions, i \in Incidents,
                action \in {"acknowledge", "dispatch", "close"} : Operate(s, i, action)
    BY <1>4, OperateStep
  <1>5. CASE \E s \in Sessions, i \in Incidents, moves \in BOOLEAN : ReportStatus(s, i, moves)
    BY <1>5, ReportStatusStep
  <1>6. CASE \E s \in Sessions :
                Classify(s) \/ LeavePending(s) \/ Abandon(s) \/ Announce(s)
    BY <1>6, ClassifyStep, LeavePendingStep, AbandonStep, AnnounceStep
  <1>7. CASE \E s \in Sessions, moves \in BOOLEAN : Assigned(s, moves)
    BY <1>7, AssignedStep
  <1>8. CASE Restart
    BY <1>8, RestartStep
  <1>9. CASE UNCHANGED vars
    BY <1>9, StutterKeeps
  <1> QED
    BY <1>1, <1>2, <1>3, <1>4, <1>5, <1>6, <1>7, <1>8, <1>9 DEF Next

\* Every step of the hub, its clients and those who broadcast keeps FeedInv.
THEOREM FeedInvariance == Spec => []FeedInv
  <1>1. Init => FeedInv
    BY InitHolds
  <1>2. FeedInv /\ [Next]_vars => FeedInv'
    BY NextKeeps
  <1> QED
    BY <1>1, <1>2, PTL DEF Spec

\* Rows, copies, cards and connections keep their form.
THEOREM FeedTypes == Spec => []TypeOK
  <1>1. FeedInv => TypeOK
    BY DEF FeedInv
  <1> QED
    BY <1>1, FeedInvariance, PTL

\* However sends, drops and restarts interleave, no client is ever shown, and no
\* session ever sends, a status, a stamp or a classification that the row has not
\* had (ws.py, and the copies each handler holds across its awaits).  Column by
\* column: a card as a whole may be one that was never stored (units.py:246-257).
THEOREM OnlyThePastIsShown == Spec => []ShownIsPast
  <1>1. FeedInv => ShownIsPast
    BY DEF FeedInv
  <1> QED
    BY <1>1, FeedInvariance, PTL

\* GET /incidents?from= and GET /me/incidents leave no gap but the one that
\* filtering by received_at makes: what is missed is older than what is shown.
THEOREM BackfillCovers == Spec => []OnlyOlderAreMissed
  <1>1. ASSUME FeedInv PROVE OnlyOlderAreMissed
    <2> SUFFICES ASSUME NEW d \in Clients, NEW i \in Incidents, Missed(d, i)
                 PROVE  /\ d \in Responders
                        /\ \E j \in Incidents : /\ shown[d][j] # NoCard
                                                /\ shown[d][j].received > row[i].received
      BY DEF OnlyOlderAreMissed
    <2>1. TypeOK /\ FromWasSeen /\ MissedIsBehindFrom
      BY <1>1 DEF FeedInv
    <2>2. d \in Responders /\ row[i].received < link[d].from
      BY <2>1 DEF MissedIsBehindFrom
    <2>3. row[i].received \in Nat /\ link[d].from \in Nat
      BY <2>1, FromIsNat, RowFields DEF TypeOK
    <2>4. PICK j \in Incidents : shown[d][j] # NoCard /\ shown[d][j].received >= link[d].from
      BY <2>1, <2>2, <2>3 DEF FromWasSeen
    <2>5. shown[d][j].received \in Nat
      BY <2>1, <2>4, RowFields DEF TypeOK
    <2> QED
      BY <2>2, <2>3, <2>4, <2>5
  <1> QED
    BY <1>1, FeedInvariance, PTL

=============================================================================
