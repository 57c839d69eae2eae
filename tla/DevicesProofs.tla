---------------------------- MODULE DevicesProofs ----------------------------
(***************************************************************************)
(* Devices, their rows and their heartbeats, for any numbers of devices,   *)
(* emails, positions and concurrent registrations, any retention and any   *)
(* length of the lists of heartbeats.                                      *)
(*                                                                         *)
(* A handler leaves every request alone and a request's step leaves every  *)
(* contact alone; so the invariant is carried over by what each step does  *)
(* to the rows (HandleKeeps) or to one request (RequestKeeps).             *)
(***************************************************************************)
EXTENDS Devices, TLAPS

Inv == DevicesInv /\ AtMostOneContactIsLost /\ HistoryIsComplete

Request == [at: Phases, holds: BOOLEAN, email: Emails, device: Ids]

\* A registration under way has its fields.
LEMMA RequestFields ==
    ASSUME TypeOK, NEW r \in Requests, request[r].at # "idle"
    PROVE  request[r] \in Request
BY DEF TypeOK, Idle, Request

LEMMA DeviceFields ==
    ASSUME TypeOK, NEW d \in Ids
    PROVE  /\ device[d].known \in BOOLEAN /\ device[d].seen \in BOOLEAN
           /\ device[d].fix \in Places \union {NoFix}
BY DEF TypeOK

\* What is stored up to the longest list was answered, and up to the retention
\* all that was answered is stored.
Agree(stored, sent) ==
    \A a \in 0..Longest : /\ a \in stored => a \in sent
                          /\ a \in sent /\ a <= Retention => a \in stored

\* Stored and answered heartbeats agree just if every list is complete.
LEMMA AgreeingLists ==
    ASSUME NEW stored \in SUBSET Ages, NEW sent \in SUBSET Ages
    PROVE  (\A ticks \in 0..Longest :
               LET answered == {a \in sent : a <= ticks}
               IN  /\ {a \in stored : a <= ticks} \subseteq answered
                   /\ {a \in answered : a <= Retention} \subseteq {a \in stored : a <= ticks})
           <=> Agree(stored, sent)
<1> DEFINE Complete(ticks) ==
              LET answered == {a \in sent : a <= ticks}
              IN  /\ {a \in stored : a <= ticks} \subseteq answered
                  /\ {a \in answered : a <= Retention} \subseteq {a \in stored : a <= ticks}
<1>1. ASSUME \A ticks \in 0..Longest : Complete(ticks), NEW a \in 0..Longest
      PROVE  (a \in stored => a \in sent) /\ (a \in sent /\ a <= Retention => a \in stored)
  <2>1. a <= a /\ Complete(a)
    BY <1>1, DevicesAssumption
  <2>2. QED
    BY <2>1
<1>2. ASSUME Agree(stored, sent), NEW ticks \in 0..Longest
      PROVE  Complete(ticks)
  <2>1. \A a \in Ages : a <= ticks => a \in 0..Longest
    BY DevicesAssumption DEF Ages, Oldest
  <2>2. QED
    BY <1>2, <2>1 DEF Agree
<1>3. QED
  BY <1>1, <1>2 DEF Agree

\* The lists of all devices are complete just if all of them agree.
LEMMA CompleteLists ==
    ASSUME history \in [Ids -> SUBSET Ages], beats \in [Ids -> SUBSET Ages]
    PROVE  HistoryIsComplete <=> \A d \in Ids : Agree(history[d], beats[d])
<1>1. \A d \in Ids : history[d] \in SUBSET Ages /\ beats[d] \in SUBSET Ages
  OBVIOUS
<1>2. QED
  BY <1>1, AgreeingLists DEF HistoryIsComplete, Heartbeats

LEMMA InitiallyInv == Init => Inv
<1> SUFFICES ASSUME Init PROVE Inv
  OBVIOUS
<1>1. TypeOK
  BY DEF Init, TypeOK, Idle
<1>2. InsertsExclude /\ \A r \in Requests : RequestOK(r)
  BY DEF Init, Idle, InsertsExclude, RequestOK
<1>3. AccountsHaveDevices /\ KnownForAReason
  BY DEF Init, AccountsHaveDevices, KnownForAReason, Known
<1>4. HistoryIsComplete
  BY DEF Init, HistoryIsComplete, Heartbeats
<1>5. QED
  BY <1>1, <1>2, <1>3, <1>4 DEF Init, Inv, DevicesInv, AtMostOneContactIsLost

-----------------------------------------------------------------------------
(* The handlers                                                            *)

\* Whatever a contact says, a fix stays a position or none, and only a real
\* and valid one is taken, which is then also the last that was heard.
LEMMA FixOf ==
    ASSUME TypeOK, NEW c \in Contacts
    PROVE  /\ FixAfter(c.device, c.gps) =
                IF c.gps.valid /\ c.gps.at \in Places THEN c.gps.at ELSE device[c.device].fix
           /\ FixAfter(c.device, c.gps) \in Places \union {NoFix}
           /\ IncidentAt(c) \in Places \union {NoFix}
<1>1. /\ c.device \in Ids /\ c.kind \in Kinds /\ c.gps.valid \in BOOLEAN
      /\ c.gps.at \in Places \union {"zero", "none"}
  BY DevicesAssumption DEF Contacts, Gps
<1>2. CleanFix(c.gps.at) # NoFix <=> c.gps.at \in Places
  BY DevicesAssumption DEF CleanFix
<1>3. CleanFix(c.gps.at) \in Places \union {NoFix}
  BY DEF CleanFix
<1>4. QED
  BY <1>1, <1>2, <1>3, DeviceFields DEF FixAfter, IncidentAt

\* A handler that finds its row, or may insert it, keeps the invariant.
LEMMA HandleKeeps ==
    ASSUME Inv, NEW c \in Contacts, Handle(c), ~ (~ Known(c.device) /\ Inserting(c.device)),
           UNCHANGED <<account, request, lost>>, loop' = Free
    PROVE  Inv'
<1> DEFINE d == c.device
           fix == FixAfter(d, c.gps)
<1> USE DEF Inv, DevicesInv
<1>1. d \in Ids /\ c.kind \in Kinds
  BY DevicesAssumption DEF Contacts
<1>2. /\ \A e \in Ids \ {d} : /\ device'[e] = device[e] /\ heard'[e] = heard[e]
                              /\ history'[e] = history[e] /\ beats'[e] = beats[e]
                              /\ incident'[e] = incident[e]
      /\ device'[d] = IF c.kind = "panic" THEN [device[d] EXCEPT !.known = TRUE]
                      ELSE [known |-> TRUE, seen |-> TRUE, fix |-> fix]
      /\ heard'[d] = IF c.kind # "panic" /\ c.gps.valid /\ c.gps.at \in Places
                     THEN c.gps.at ELSE heard[d]
      /\ c.kind = "heartbeat" => /\ history'[d] = history[d] \union {0}
                                 /\ beats'[d] = beats[d] \union {0}
                                 /\ incident' = incident
      /\ c.kind # "heartbeat" => /\ history' = history /\ beats' = beats
                                 /\ incident'[d] = IncidentAt(c)
  BY <1>1 DEF Handle, TypeOK
<1>3. /\ device'[d] \in [known: BOOLEAN, seen: BOOLEAN, fix: Places \union {NoFix}]
      /\ device'[d].known = TRUE
      /\ c.kind # "panic" => device'[d].seen = TRUE
      /\ device[d].seen => device'[d].seen
      /\ device'[d].fix = heard'[d]
  <2>1. device[d] \in [known: BOOLEAN, seen: BOOLEAN, fix: Places \union {NoFix}]
    BY <1>1 DEF TypeOK
  <2>2. /\ fix \in Places \union {NoFix}
        /\ fix = IF c.gps.valid /\ c.gps.at \in Places THEN c.gps.at ELSE device[d].fix
    BY FixOf
  <2>3. device[d].fix = heard[d]
    BY <1>1
  <2>4. CASE c.kind = "panic"
    BY <1>2, <2>1, <2>3, <2>4
  <2>5. CASE c.kind # "panic"
    <3> HIDE DEF fix
    <3>1. device'[d] = [known |-> TRUE, seen |-> TRUE, fix |-> fix]
      BY <1>2, <2>5
    <3>2. QED
      BY <1>2, <2>2, <2>3, <2>5, <3>1
  <2>6. QED
    BY <2>4, <2>5
<1>4. ASSUME c.kind # "heartbeat"
      PROVE  incident'[d] \in Places \union {NoFix} /\ incident'[d] # Never
  BY <1>1, <1>2, <1>4, FixOf, NullAssumption
<1>5. TypeOK'
  <2>1. device' \in [Ids -> [known: BOOLEAN, seen: BOOLEAN, fix: Places \union {NoFix}]]
    BY <1>1, <1>3 DEF Handle, TypeOK
  <2>2. heard' \in [Ids -> Places \union {NoFix}]
    BY <1>1 DEF Handle, TypeOK
  <2>3. 0 \in Ages
    BY DevicesAssumption DEF Ages, Oldest
  <2>4. history' \in [Ids -> SUBSET Ages] /\ beats' \in [Ids -> SUBSET Ages]
    <3>1. CASE c.kind = "heartbeat"
      <4>1. history[d] \union {0} \in SUBSET Ages /\ beats[d] \union {0} \in SUBSET Ages
        BY <1>1, <2>3 DEF TypeOK
      <4>2. /\ history' = [history EXCEPT ![d] = history[d] \union {0}]
            /\ beats' = [beats EXCEPT ![d] = beats[d] \union {0}]
        BY <3>1 DEF Handle
      <4>3. QED
        BY <1>1, <4>1, <4>2 DEF TypeOK
    <3>2. CASE c.kind # "heartbeat"
      BY <3>2 DEF Handle, TypeOK
    <3>3. QED
      BY <3>1, <3>2
  <2>5. incident' \in [Ids -> Places \union {NoFix, Never}]
    BY <1>1, <1>4, FixOf DEF Handle, TypeOK
  <2>6. QED
    BY <2>1, <2>2, <2>4, <2>5 DEF TypeOK
<1>6. \A e \in Ids : Known(e) => Known(e)'
  BY <1>2, <1>3 DEF Known
<1>7. \A r \in Requests : RequestOK(r)'
  <2> SUFFICES ASSUME NEW r \in Requests PROVE RequestOK(r)'
    OBVIOUS
  <2>1. request[r].at \in {"hash", "commit"} => request[r].device \in Ids
    BY RequestFields DEF Request
  <2>2. ASSUME request[r].holds PROVE ~ Known(request[r].device)'
    <3>1. request[r].at \in {"hash", "commit"} /\ ~ Known(request[r].device)
      BY <2>2 DEF RequestOK
    <3>2. request[r].device # d
      BY <2>2, <3>1 DEF Inserting
    <3>3. QED
      BY <1>2, <2>1, <3>1, <3>2 DEF Known
  <2>3. QED
    BY <1>6, <2>1, <2>2 DEF RequestOK
<1>8. InsertsExclude' /\ AccountsHaveDevices'
  <2>1. \A e \in Emails : account[e] # NoDevice => account[e] \in Ids
    BY DEF TypeOK
  <2>2. QED
    BY <1>6, <2>1 DEF InsertsExclude, AccountsHaveDevices
<1>9. KnownForAReason'
  <2>1. ASSUME NEW e \in Ids \ {d}, Known(e)'
        PROVE  device'[e].seen \/ incident'[e] # Never \/ \E x \in Emails : account'[x] = e
    BY <1>2, <2>1 DEF KnownForAReason, Known
  <2>2. device'[d].seen \/ incident'[d] # Never
    BY <1>3, <1>4
  <2>3. QED
    BY <2>1, <2>2 DEF KnownForAReason
<1>10. \A e \in Ids : device'[e].fix = heard'[e]
  BY <1>2, <1>3
<1>11. AtMostOneContactIsLost'
  BY <1>6 DEF AtMostOneContactIsLost
<1>12. HistoryIsComplete'
  <2>1. \A e \in Ids : history'[e] \in SUBSET Ages /\ beats'[e] \in SUBSET Ages
    BY <1>5 DEF TypeOK
  <2>2. \A e \in Ids : Agree(history[e], beats[e])
    BY CompleteLists DEF TypeOK
  <2>3. \A e \in Ids : Agree(history'[e], beats'[e])
    BY <1>2, <2>2 DEF Agree
  <2>4. QED
    BY <2>1, <2>3, AgreeingLists DEF HistoryIsComplete, Heartbeats
<1>13. QED
  BY <1>5, <1>7, <1>8, <1>9, <1>10, <1>11, <1>12

LEMMA ContactKeeps ==
    ASSUME Inv, NEW c \in Contacts, Contact(c)
    PROVE  Inv'
<1>1. CASE ~ Known(c.device) /\ Inserting(c.device)
  <2>1. loop' = c /\ UNCHANGED <<device, heard, history, beats, incident, account, request, lost>>
    BY <1>1 DEF Contact
  <2>2. c.device \in Ids
    BY DevicesAssumption DEF Contacts
  <2>3. lost[c.device] = 0
    <3>1. lost[c.device] \in 0..2 /\ ~ (lost[c.device] > 0)
      BY <1>1, <2>2 DEF Inv, DevicesInv, TypeOK, AtMostOneContactIsLost
    <3>2. QED
      BY <3>1
  <2>4. TypeOK'
    BY <2>1 DEF Inv, DevicesInv, TypeOK
  <2>5. QED
    BY <2>1, <2>3, <2>4
    DEF Inv, DevicesInv, InsertsExclude, RequestOK, AccountsHaveDevices, KnownForAReason, Known,
        AtMostOneContactIsLost, HistoryIsComplete, Heartbeats
<1>2. CASE ~ (~ Known(c.device) /\ Inserting(c.device))
  <2>1. Handle(c) /\ loop' = Free /\ UNCHANGED <<account, request, lost>>
    BY <1>2 DEF Contact
  <2>2. QED
    BY <1>2, <2>1, HandleKeeps
<1>3. QED
  BY <1>1, <1>2

\* The handler that waited has lost nothing before, so what it loses now is one.
LEMMA GoOnKeeps ==
    ASSUME Inv, GoOn
    PROVE  Inv'
<1>1. /\ loop \in Contacts /\ loop.device \in Ids
      /\ ~ Inserting(loop.device) /\ loop' = Free /\ UNCHANGED <<account, request>>
      /\ lost[loop.device] = 0
  BY DevicesAssumption DEF GoOn, Inv, DevicesInv, TypeOK, Contacts
<1>2. CASE Known(loop.device)
  <2>1. /\ lost' = [lost EXCEPT ![loop.device] = lost[loop.device] + 1]
        /\ UNCHANGED <<device, heard, history, beats, incident>>
    BY <1>2 DEF GoOn, Fail
  <2>2. /\ lost'[loop.device] = 1
        /\ \A d \in Ids \ {loop.device} : lost'[d] = lost[d]
        /\ lost' \in [Ids -> 0..2]
    BY <1>1, <2>1 DEF Inv, DevicesInv, TypeOK
  <2>3. TypeOK'
    BY <1>1, <2>1, <2>2 DEF Inv, DevicesInv, TypeOK
  <2>4. AtMostOneContactIsLost'
    BY <1>2, <2>1, <2>2 DEF Inv, AtMostOneContactIsLost, Known
  <2>5. QED
    BY <1>1, <2>1, <2>3, <2>4
    DEF Inv, DevicesInv, InsertsExclude, RequestOK, AccountsHaveDevices, KnownForAReason, Known,
        HistoryIsComplete, Heartbeats
<1>3. CASE ~ Known(loop.device)
  BY <1>1, <1>3, HandleKeeps DEF GoOn
<1>4. QED
  BY <1>2, <1>3

-----------------------------------------------------------------------------
(* Registrations                                                           *)

\* A request's step that commits nothing: what the other requests rely on stays,
\* so it is enough that what this one holds now is its own.
LEMMA RequestKeeps ==
    ASSUME Inv, NEW r \in Requests, UNCHANGED <<device, account, Unrelated>>,
           NEW x \in Request \union {Idle},
           request' = [request EXCEPT ![r] = x],
           RequestOK(r)',
           \A s \in Requests \ {r} :
              /\ x.holds /\ request[s].holds => x.device # request[s].device
              /\ x.at = "commit" /\ request[s].at = "commit" => x.email # request[s].email
    PROVE  Inv'
<1>1. /\ request'[r] = x /\ \A s \in Requests \ {r} : request'[s] = request[s]
      /\ UNCHANGED <<device, account, heard, history, beats, incident, loop, lost>>
  BY DEF Inv, DevicesInv, TypeOK, Unrelated
<1>2. TypeOK'
  BY <1>1 DEF Inv, DevicesInv, TypeOK, Request
<1>3. \A s \in Requests : RequestOK(s)'
  <2>1. ASSUME NEW s \in Requests \ {r} PROVE RequestOK(s)'
    BY <1>1 DEF Inv, DevicesInv, RequestOK, Known
  <2>2. QED
    BY <2>1
<1>4. InsertsExclude'
  <2> SUFFICES ASSUME NEW p \in Requests, NEW q \in Requests, p # q
               PROVE  /\ request'[p].holds /\ request'[q].holds =>
                            request'[p].device # request'[q].device
                      /\ request'[p].at = "commit" /\ request'[q].at = "commit" =>
                            request'[p].email # request'[q].email
    BY DEF InsertsExclude
  <2>1. CASE p = r
    BY <1>1, <2>1
  <2>2. CASE q = r
    BY <1>1, <2>2
  <2>3. CASE p # r /\ q # r
    BY <1>1, <2>3 DEF Inv, DevicesInv, InsertsExclude
  <2>4. QED
    BY <2>1, <2>2, <2>3
<1>5. QED
  BY <1>1, <1>2, <1>3, <1>4
  DEF Inv, DevicesInv, AccountsHaveDevices, KnownForAReason, Known, AtMostOneContactIsLost,
      HistoryIsComplete, Heartbeats

LEMMA RegisterKeeps ==
    ASSUME Inv, NEW r \in Requests, Register(r)
    PROVE  Inv'
<1>1. PICK e \in Emails, d \in Ids :
         request' = [request EXCEPT
                       ![r] = [at |-> "email", holds |-> FALSE, email |-> e, device |-> d]]
  BY DEF Register
<1> DEFINE x == [at |-> "email", holds |-> FALSE, email |-> e, device |-> d]
<1>2. x \in Request /\ x.holds = FALSE /\ x.at = "email"
  BY DEF Request, Phases
<1> HIDE DEF x
<1>3. request'[r] = x
  BY <1>1 DEF Inv, DevicesInv, TypeOK, x
<1>4. RequestOK(r)'
  BY <1>2, <1>3 DEF RequestOK
<1>5. request' = [request EXCEPT ![r] = x] /\ UNCHANGED <<device, account, Unrelated>>
  BY <1>1 DEF Register, x
<1>6. QED
  BY <1>2, <1>4, <1>5, RequestKeeps

\* A request that only moves on; it may give up the row it holds.
LEMMA MoveKeeps ==
    ASSUME Inv, NEW r \in Requests, request[r].at # "idle",
           UNCHANGED <<device, account, Unrelated>>,
           NEW phase \in Phases, NEW holds \in BOOLEAN,
           request' = [request EXCEPT ![r].at = phase, ![r].holds = holds],
           holds => phase \in {"hash", "commit"} /\ ~ Known(request[r].device),
           phase \in {"hash", "commit"} /\ ~ holds => Known(request[r].device),
           phase = "commit" => /\ account[request[r].email] = NoDevice
                               /\ ~ EmailInserting(r) \/ request[r].at = "commit",
           holds => request[r].holds \/ ~ Inserting(request[r].device)
    PROVE  Inv'
<1> DEFINE x == [request[r] EXCEPT !.at = phase, !.holds = holds]
<1>1. request[r] \in Request
  BY RequestFields DEF Inv, DevicesInv
<1>2. /\ x \in Request /\ x.at = phase /\ x.holds = holds
      /\ x.email = request[r].email /\ x.device = request[r].device
  BY <1>1 DEF Request
<1>3. request' = [request EXCEPT ![r] = x]
  BY DEF Inv, DevicesInv, TypeOK
<1> HIDE DEF x
<1>4. request'[r] = x
  BY <1>3 DEF Inv, DevicesInv, TypeOK
<1>5. RequestOK(r)'
  BY <1>2, <1>4 DEF RequestOK, Known
<1>6. ASSUME NEW s \in Requests \ {r}
      PROVE  /\ x.holds /\ request[s].holds => x.device # request[s].device
             /\ x.at = "commit" /\ request[s].at = "commit" => x.email # request[s].email
  <2>1. InsertsExclude
    BY DEF Inv, DevicesInv
  <2>2. x.holds /\ request[s].holds => x.device # request[s].device
    BY <1>2, <2>1 DEF InsertsExclude, Inserting
  <2>3. x.at = "commit" /\ request[s].at = "commit" => x.email # request[s].email
    BY <1>2, <2>1 DEF InsertsExclude, EmailInserting
  <2>4. QED
    BY <2>2, <2>3
<1>7. QED
  BY <1>2, <1>3, <1>5, <1>6, RequestKeeps

\* Everything a registration does before its commit.
LEMMA ProceedsKeeps ==
    ASSUME Inv, NEW r \in Requests,
           \/ LooksForEmail(r) \/ LooksForDevice(r)
           \/ InsertsDevice(r) \/ InsertsAccount(r) \/ Answers(r)
    PROVE  Inv'
<1>1. /\ request \in [Requests -> [at: Phases, holds: BOOLEAN, email: Emails, device: Ids]
                                  \union {Idle}]
      /\ request[r].holds \in BOOLEAN
      /\ RequestOK(r)
  <2>1. request \in [Requests -> Request \union {Idle}] /\ RequestOK(r)
    BY DEF Inv, DevicesInv, TypeOK, Request
  <2>2. Idle.holds \in BOOLEAN /\ \A x \in Request : x.holds \in BOOLEAN
    BY DEF Idle, Request
  <2>3. QED
    BY <2>1, <2>2 DEF Request
<1>2. UNCHANGED <<device, account, Unrelated>>
  BY DEF LooksForEmail, LooksForDevice, InsertsDevice, InsertsAccount, Answers
<1>3. ASSUME NEW phase \in Phases, request[r].at # "idle", GoTo(r, phase)
      PROVE  request' = [request EXCEPT ![r].at = phase, ![r].holds = request[r].holds]
  <2>1. request[r] \in Request
    BY <1>3, RequestFields DEF Inv, DevicesInv
  <2>2. [request[r] EXCEPT !.at = phase] = [request[r] EXCEPT !.at = phase, !.holds = request[r].holds]
    BY <2>1 DEF Request
  <2>3. QED
    BY <1>1, <1>3, <2>2 DEF GoTo
<1>4. CASE LooksForEmail(r)
  <2>1. PICK phase \in {"done", "device"} : GoTo(r, phase)
    BY <1>4 DEF LooksForEmail
  <2>2. request[r].at = "email" /\ ~ request[r].holds
    BY <1>1, <1>4 DEF LooksForEmail, RequestOK
  <2>3. QED
    BY <1>1, <1>2, <1>3, <2>1, <2>2, MoveKeeps DEF Phases
<1>5. CASE LooksForDevice(r)
  <2>1. PICK phase \in {"hash", "insert"} :
           /\ GoTo(r, phase)
           /\ phase = "hash" => Known(request[r].device)
    BY <1>5 DEF LooksForDevice
  <2>2. request[r].at = "device" /\ ~ request[r].holds
    BY <1>1, <1>5 DEF LooksForDevice, RequestOK
  <2>3. QED
    BY <1>1, <1>2, <1>3, <2>1, <2>2, MoveKeeps DEF Phases
<1>6. CASE InsertsDevice(r)
  <2> DEFINE phase == IF Known(request[r].device) THEN "done" ELSE "hash"
             holds == ~ Known(request[r].device)
  <2>1. request' = [request EXCEPT ![r].at = phase, ![r].holds = holds]
    BY <1>6 DEF InsertsDevice
  <2>2. request[r].at = "insert" /\ ~ Inserting(request[r].device)
    BY <1>6 DEF InsertsDevice
  <2>3. /\ phase \in Phases /\ holds \in BOOLEAN /\ phase # "commit"
        /\ phase = "hash" => holds
        /\ holds => phase = "hash" /\ ~ Known(request[r].device)
    BY DEF Phases
  <2> HIDE DEF phase, holds
  <2>4. QED
    BY <1>2, <2>1, <2>2, <2>3, MoveKeeps
<1>7. CASE InsertsAccount(r)
  <2>1. /\ request[r].at = "hash" /\ ~ EmailInserting(r)
        /\ IF account[request[r].email] # NoDevice
           THEN request' = [request EXCEPT ![r].at = "done", ![r].holds = FALSE]
           ELSE GoTo(r, "commit")
    BY <1>7 DEF InsertsAccount
  <2>2. /\ request[r].holds => ~ Known(request[r].device)
        /\ ~ request[r].holds => Known(request[r].device)
    BY <1>1, <2>1 DEF RequestOK
  <2>3. CASE account[request[r].email] # NoDevice
    BY <1>2, <2>1, <2>3, MoveKeeps DEF Phases
  <2>4. CASE account[request[r].email] = NoDevice
    BY <1>1, <1>2, <1>3, <2>1, <2>2, <2>4, MoveKeeps DEF Phases
  <2>5. QED
    BY <2>3, <2>4
<1>8. CASE Answers(r)
  <2>1. request' = [request EXCEPT ![r] = Idle] /\ request'[r] = Idle
    BY <1>1, <1>8 DEF Answers
  <2>2. Idle.holds = FALSE /\ Idle.at = "idle"
    BY DEF Idle
  <2>3. RequestOK(r)'
    BY <2>1, <2>2 DEF RequestOK
  <2>4. QED
    BY <1>2, <2>1, <2>2, <2>3, RequestKeeps
<1>9. QED
  BY <1>4, <1>5, <1>6, <1>7, <1>8

\* At the commit the email is free, so no account loses its device, and what
\* others hold is another device.
LEMMA CommitsKeeps ==
    ASSUME Inv, NEW r \in Requests, Commits(r)
    PROVE  Inv'
<1> DEFINE d == request[r].device
           e == request[r].email
<1>1. /\ request[r] \in Request /\ request[r].at = "commit"
      /\ d \in Ids /\ e \in Emails
      /\ device \in [Ids -> [known: BOOLEAN, seen: BOOLEAN, fix: Places \union {NoFix}]]
      /\ account \in [Emails -> Ids \union {NoDevice}]
  BY RequestFields DEF Commits, Inv, DevicesInv, TypeOK, Request
<1>2. account[e] = NoDevice /\ (request[r].holds => ~ Known(d)) /\ (~ request[r].holds => Known(d))
  BY <1>1 DEF Inv, DevicesInv, RequestOK
<1>3. /\ \A c \in Ids \ {d} : device'[c] = device[c]
      /\ device'[d].known /\ device'[d].seen = device[d].seen /\ device'[d].fix = device[d].fix
      /\ device' \in [Ids -> [known: BOOLEAN, seen: BOOLEAN, fix: Places \union {NoFix}]]
  <2>1. CASE request[r].holds
    <3>1. device' = [device EXCEPT ![d].known = TRUE]
      BY <2>1 DEF Commits
    <3>2. QED
      BY <1>1, <3>1
  <2>2. CASE ~ request[r].holds
    BY <1>1, <1>2, <2>2 DEF Commits, Known
  <2>3. QED
    BY <2>1, <2>2
<1>4. account'[e] = d /\ \A x \in Emails \ {e} : account'[x] = account[x]
  BY <1>1 DEF Commits
<1>5. /\ request'[r].at = "done" /\ request'[r].holds = FALSE
      /\ request' \in [Requests -> Request \union {Idle}]
      /\ \A s \in Requests \ {r} : request'[s] = request[s]
  <2>1. request \in [Requests -> Request \union {Idle}]
    BY DEF Inv, DevicesInv, TypeOK, Request
  <2>2. [request[r] EXCEPT !.at = "done", !.holds = FALSE] \in Request
    BY <1>1 DEF Request, Phases
  <2>3. request' = [request EXCEPT ![r] = [request[r] EXCEPT !.at = "done", !.holds = FALSE]]
    BY <2>1 DEF Commits
  <2>4. QED
    BY <1>1, <2>1, <2>2, <2>3 DEF Request
<1>6. UNCHANGED <<heard, history, beats, incident, loop, lost>>
  BY DEF Commits, Unrelated
<1>7. TypeOK'
  <2>1. account' \in [Emails -> Ids \union {NoDevice}]
    BY <1>1 DEF Commits
  <2>2. QED
    BY <1>3, <1>5, <1>6, <2>1 DEF Inv, DevicesInv, TypeOK, Request
<1>8. \A c \in Ids : Known(c) => Known(c)'
  BY <1>3 DEF Known
<1>9. \A s \in Requests : RequestOK(s)'
  <2> SUFFICES ASSUME NEW s \in Requests \ {r} PROVE RequestOK(s)'
    BY <1>5 DEF RequestOK
  <2>1. request'[s] = request[s] /\ RequestOK(s) /\ InsertsExclude
    BY <1>5 DEF Inv, DevicesInv
  <2>2. request[s].at \in {"hash", "commit"} => request[s].device \in Ids /\ request[s].email \in Emails
    BY RequestFields DEF Inv, DevicesInv, Request
  <2>3. request[s].holds => request[s].at \in {"hash", "commit"} /\ ~ Known(request[s].device)'
    <3>1. request[s].holds => request[s].device # d
      BY <1>2, <2>1 DEF RequestOK, InsertsExclude
    <3>2. QED
      BY <1>3, <2>1, <2>2, <3>1 DEF RequestOK, Known
  <2>4. request[s].at \in {"hash", "commit"} /\ ~ request[s].holds => Known(request[s].device)'
    BY <1>8, <2>1, <2>2 DEF RequestOK
  <2>5. request[s].at = "commit" => account'[request[s].email] = NoDevice
    BY <1>1, <1>4, <2>1, <2>2 DEF RequestOK, InsertsExclude
  <2>6. QED
    BY <2>1, <2>3, <2>4, <2>5 DEF RequestOK
<1>10. InsertsExclude'
  BY <1>5 DEF Inv, DevicesInv, InsertsExclude
<1>11. AccountsHaveDevices'
  <2>1. \A x \in Emails : account[x] # NoDevice => account[x] \in Ids /\ Known(account[x])
    BY <1>1 DEF Inv, DevicesInv, AccountsHaveDevices
  <2>2. QED
    BY <1>3, <1>4, <1>8, <2>1 DEF AccountsHaveDevices, Known
<1>12. KnownForAReason'
  <2> SUFFICES ASSUME NEW c \in Ids, Known(c)'
               PROVE  device'[c].seen \/ incident'[c] # Never \/ \E x \in Emails : account'[x] = c
    BY DEF KnownForAReason
  <2>1. CASE c = d
    BY <1>1, <1>4, <2>1
  <2>2. CASE c # d
    <3>1. device[c].seen \/ incident[c] # Never \/ \E x \in Emails : account[x] = c
      BY <1>3, <2>2 DEF Inv, DevicesInv, KnownForAReason, Known
    <3>2. \A x \in Emails : account[x] = c => x # e
      BY <1>2, DevicesAssumption
    <3>3. QED
      BY <1>3, <1>4, <1>6, <2>2, <3>1, <3>2
  <2>3. QED
    BY <2>1, <2>2
<1>13. \A c \in Ids : device'[c].fix = heard'[c]
  BY <1>3, <1>6 DEF Inv, DevicesInv
<1>14. AtMostOneContactIsLost' /\ HistoryIsComplete' /\ (loop' # Free => lost'[loop'.device] = 0)
  BY <1>6, <1>8 DEF Inv, DevicesInv, AtMostOneContactIsLost, HistoryIsComplete, Heartbeats
<1>15. QED
  BY <1>7, <1>9, <1>10, <1>11, <1>12, <1>13, <1>14 DEF Inv, DevicesInv

-----------------------------------------------------------------------------
(* Time                                                                    *)

\* A step that touches only ages, and after which they still agree.
LEMMA AgesKeep ==
    ASSUME Inv, UNCHANGED <<device, heard, incident, account, request, loop, lost>>,
           history' \in [Ids -> SUBSET Ages], beats' \in [Ids -> SUBSET Ages],
           \A d \in Ids : Agree(history'[d], beats'[d])
    PROVE  Inv'
<1>1. TypeOK'
  BY DEF Inv, DevicesInv, TypeOK
<1>2. HistoryIsComplete'
  <2>1. \A d \in Ids : history'[d] \in SUBSET Ages /\ beats'[d] \in SUBSET Ages
    OBVIOUS
  <2>2. QED
    BY <2>1, AgreeingLists DEF HistoryIsComplete, Heartbeats
<1>3. QED
  BY <1>1, <1>2
  DEF Inv, DevicesInv, InsertsExclude, RequestOK, AccountsHaveDevices, KnownForAReason, Known,
      AtMostOneContactIsLost

\* What is stored now.
LEMMA NowListed ==
    ASSUME Inv, NEW d \in Ids
    PROVE  /\ history[d] \subseteq Ages /\ beats[d] \subseteq Ages
           /\ Agree(history[d], beats[d])
<1>1. history \in [Ids -> SUBSET Ages] /\ beats \in [Ids -> SUBSET Ages]
  BY DEF Inv, DevicesInv, TypeOK
<1>2. QED
  BY <1>1, CompleteLists DEF Inv

LEMMA TickKeeps ==
    ASSUME Inv, Tick
    PROVE  Inv'
<1>1. ASSUME NEW d \in Ids
      PROVE  /\ history'[d] = Older(history[d]) \union (history[d] \intersect {Oldest})
             /\ beats'[d] = Older(beats[d]) \intersect (0..Longest)
  BY DEF Tick
<1>2. Oldest \in Nat /\ Longest < Oldest
  BY DevicesAssumption DEF Oldest
<1>3. ASSUME NEW d \in Ids
      PROVE  Agree(history'[d], beats'[d])
  <2> SUFFICES ASSUME NEW a \in 0..Longest
               PROVE  /\ a \in history'[d] => a \in beats'[d]
                      /\ a \in beats'[d] /\ a <= Retention => a \in history'[d]
    BY DEF Agree
  <2>1. ASSUME NEW S, S \subseteq Ages
        PROVE  a \in Older(S) <=> a # 0 /\ a - 1 \in S
    <3>1. \A b \in Ages : a = b + 1 <=> a # 0 /\ b = a - 1
      BY <1>2, DevicesAssumption DEF Ages
    <3>2. a - 1 # Oldest
      BY <1>2, DevicesAssumption
    <3>3. QED
      BY <2>1, <3>1, <3>2 DEF Older
  <2>2. a # 0 => a - 1 \in 0..Longest /\ (a <= Retention => a - 1 <= Retention)
    BY DevicesAssumption
  <2>3. a # Oldest
    BY <1>2, DevicesAssumption
  <2>4. history[d] \subseteq Ages /\ beats[d] \subseteq Ages /\ Agree(history[d], beats[d])
    BY NowListed
  <2>5. /\ a \in history'[d] <=> a # 0 /\ a - 1 \in history[d]
        /\ a \in beats'[d] <=> a # 0 /\ a - 1 \in beats[d]
    BY <1>1, <2>1, <2>3, <2>4
  <2>6. QED
    BY <2>2, <2>4, <2>5 DEF Agree
<1>4. ASSUME NEW S, S \subseteq Ages
      PROVE  Older(S) \subseteq Ages
  <2>1. \A a \in Ages \ {Oldest} : a + 1 \in Ages
    BY <1>2 DEF Ages
  <2>2. QED
    BY <1>4, <2>1 DEF Older
<1>5. history' \in [Ids -> SUBSET Ages] /\ beats' \in [Ids -> SUBSET Ages]
  BY <1>4, NowListed DEF Tick
<1>6. QED
  BY <1>3, <1>5, AgesKeep DEF Tick

LEMMA PruneKeeps ==
    ASSUME Inv, Prune
    PROVE  Inv'
<1>1. \A d \in Ids : history'[d] = {a \in history[d] : ~ (a > Retention)}
  BY DEF Prune, Expired
<1>2. \A a \in 0..Longest : a <= Retention => ~ (a > Retention)
  BY DevicesAssumption
<1>3. \A d \in Ids : Agree(history'[d], beats'[d])
  <2> SUFFICES ASSUME NEW d \in Ids PROVE Agree(history'[d], beats'[d])
    OBVIOUS
  <2>1. Agree(history[d], beats[d]) /\ beats'[d] = beats[d]
    BY NowListed DEF Prune
  <2>2. QED
    BY <1>1, <1>2, <2>1 DEF Agree
<1>4. history' \in [Ids -> SUBSET Ages] /\ beats' \in [Ids -> SUBSET Ages]
  BY NowListed DEF Prune, Inv, DevicesInv, TypeOK
<1>5. QED
  BY <1>3, <1>4, AgesKeep DEF Prune

-----------------------------------------------------------------------------

LEMMA NextKeeps == Inv /\ [Next]_vars => Inv'
<1> SUFFICES ASSUME Inv, [Next]_vars PROVE Inv'
  OBVIOUS
<1>1. CASE UNCHANGED vars
  BY <1>1 DEF vars, Inv, DevicesInv, TypeOK, InsertsExclude, RequestOK, AccountsHaveDevices,
              KnownForAReason, Known, AtMostOneContactIsLost, HistoryIsComplete, Heartbeats
<1>2. CASE Next
  BY <1>2, ContactKeeps, GoOnKeeps, RegisterKeeps, ProceedsKeeps, CommitsKeeps, TickKeeps,
     PruneKeeps DEF Next, Proceeds
<1>3. QED
  BY <1>1, <1>2

\* The three invariants hold together.
LEMMA Invariance == Spec => []Inv
<1>1. QED
  BY InitiallyInv, NextKeeps, PTL DEF Spec

\* Rows, registrations under way and the waiting handler fit together, whatever
\* transactions overlap (accounts.py:86, ingest.py:26).
THEOREM DevicesInvariance == Spec => []DevicesInv
<1>1. Inv => DevicesInv
  BY DEF Inv
<1>2. QED
  BY <1>1, Invariance, PTL

\* A registration costs a device at most one contact, and the next one finds its
\* row (ingest.py:26).
THEOREM OneLossAtMost == Spec => []AtMostOneContactIsLost
<1>1. Inv => AtMostOneContactIsLost
  BY DEF Inv
<1>2. QED
  BY <1>1, Invariance, PTL

\* No list of heartbeats has a gap within the retention, whether the longest list
\* is longer than the retention or not, and whenever the old ones are deleted
\* (main.py:88, devices.py:54, config.py:41).
THEOREM ListsAreComplete == Spec => []HistoryIsComplete
<1>1. Inv => HistoryIsComplete
  BY DEF Inv
<1>2. QED
  BY <1>1, Invariance, PTL

\* A panic without a fix is placed at the last one the device had (sentinel.py:72).
THEOREM PanicsArePlaced == Spec => PanicIsPlaced
<1> DEFINE Placed == \A c \in Contacts :
                        c.kind = "panic" /\ CleanFix(c.gps.at) = NoFix /\ Contact(c)
                           /\ loop' = Free => incident'[c.device] = heard[c.device]
<1>1. Inv /\ [Next]_vars => [Placed]_vars
  <2> SUFFICES ASSUME Inv, NEW c \in Contacts, c.kind = "panic",
                      CleanFix(c.gps.at) = NoFix, Contact(c), loop' = Free
               PROVE  incident'[c.device] = heard[c.device]
    OBVIOUS
  <2>1. CASE loop' = loop /\ Handle(c)
    <3>1. c.device \in Ids /\ incident \in [Ids -> Places \union {NoFix, Never}]
      BY DevicesAssumption DEF Contacts, Inv, DevicesInv, TypeOK
    <3>2. incident'[c.device] = IncidentAt(c)
      BY <2>1, <3>1 DEF Handle
    <3>3. IncidentAt(c) = device[c.device].fix
      BY DEF IncidentAt
    <3>4. QED
      BY <3>1, <3>2, <3>3 DEF Inv, DevicesInv
  <2>2. CASE ~ (loop' = loop /\ Handle(c))
    \* Then the handler waits, and is not Free.
    BY <2>2, NullAssumption DEF Contact
  <2>3. QED
    BY <2>1, <2>2
<1>2. QED
  BY <1>1, Invariance, PTL DEF Spec, PanicIsPlaced

-----------------------------------------------------------------------------
(* Nobody waits in a circle                                                *)

\* Registration r waits for an email that another one has inserted.
WaitsForEmail(r) == request[r].at = "hash" /\ EmailInserting(r)

\* Registration r holds what others may wait for, and waits for nothing itself.
Runs(r) == request[r].at \in {"hash", "commit"} /\ ~ WaitsForEmail(r)

\* Whenever somebody waits, a handler or a registration for a device's row or a
\* registration for an email, some registration goes on without waiting, so
\* that registrations and the event loop never block each other for good.
SomebodyRuns ==
    (\E d \in Ids : Inserting(d)) \/ (\E r \in Requests : WaitsForEmail(r)) =>
       \E r \in Requests : Runs(r)

\* Devices are locked before emails, and every lock is held by a registration
\* that commits or gives up by itself (accounts.py:86).
THEOREM NoCircularWait == Spec => []SomebodyRuns
<1>1. Inv => SomebodyRuns
  <2> SUFFICES ASSUME Inv, (\E d \in Ids : Inserting(d)) \/ (\E r \in Requests : WaitsForEmail(r))
               PROVE  \E r \in Requests : Runs(r)
    BY DEF SomebodyRuns
  <2>1. CASE \E r \in Requests : WaitsForEmail(r)
    BY <2>1 DEF EmailInserting, WaitsForEmail, Runs
  <2>2. CASE ~ \E r \in Requests : WaitsForEmail(r)
    <3>1. PICK r \in Requests : request[r].holds
      BY <2>2 DEF Inserting
    <3>2. request[r].at \in {"hash", "commit"}
      BY <3>1 DEF Inv, DevicesInv, RequestOK
    <3>3. QED
      BY <2>2, <3>2 DEF Runs
  <2>3. QED
    BY <2>1, <2>2
<1>2. QED
  BY <1>1, Invariance, PTL
=============================================================================
