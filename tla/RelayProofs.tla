----------------------------- MODULE RelayProofs -----------------------------
(***************************************************************************)
(* The rate limit of the SMS relay, for every limit, window and clock.     *)
(*                                                                         *)
(* RelayInv is inductive.  Only Send has work to do: dropping the old      *)
(* entries keeps the queue the end of the log, since an entry may only go  *)
(* if it is older than a window, and the clock never makes it younger; and *)
(* an entry that is admitted meets fewer than Limit others of the last     *)
(* window, so the one that is Limit places before it is not among them.    *)
(***************************************************************************)
EXTENDS Relay, FiniteSetTheorems, TLAPS

LEMMA InitiallyRelayInv == Init => RelayInv
<1> SUFFICES ASSUME Init PROVE RelayInv
  OBVIOUS
<1>1. TypeOK
  BY DEF Init, TypeOK
<1>2. \A k \in Keys : Len(sent[k]) = 0 /\ Len(log[k]) = 0
  BY DEF Init
<1>3. WithinLimit
  BY <1>2 DEF WithinLimit
<1>4. ASSUME NEW k \in Keys PROVE QueueIsTail(k)
  <2>1. /\ Len(log[k]) - Len(sent[k]) \in Nat
        /\ \A i \in 1..Len(sent[k]) : FALSE
        /\ \A i \in 1..Len(log[k]) : FALSE
        /\ \A i \in 1..(Len(log[k]) - Len(sent[k])) : FALSE
    BY <1>2
  <2>2. QED
    BY <2>1 DEF QueueIsTail
<1>5. QED
  BY <1>1, <1>3, <1>4 DEF RelayInv

\* What the queue and the log of one key become when the first n entries are
\* dropped, and when an entry is admitted after that.
LEMMA DroppingKeepsTail ==
    ASSUME RelayInv, NEW k \in Keys, NEW n \in 0..Len(sent[k]), Drops(sent[k], clock, n)
    PROVE  LET q == SubSeq(sent[k], n + 1, Len(sent[k]))
               gone == Len(log[k]) - Len(q)
           IN  /\ q \in Seq(Nat)
               /\ Len(q) = Len(sent[k]) - n
               /\ gone \in Nat
               /\ \A i \in 1..Len(q) : q[i] = log[k][gone + i]
               /\ \A i \in 1..gone : clock - log[k][i] > Window
<1> DEFINE q == SubSeq(sent[k], n + 1, Len(sent[k]))
           old == Len(log[k]) - Len(sent[k])
<1>1. sent[k] \in Seq(Nat) /\ log[k] \in Seq(Nat)
  BY DEF RelayInv, TypeOK
<1>2. Len(sent[k]) \in Nat /\ Len(log[k]) \in Nat /\ n \in Nat /\ old \in Nat
  <2>1. old \in Nat
    BY DEF RelayInv, QueueIsTail
  <2>2. QED
    BY <1>1, <2>1
<1>3. /\ \A i \in 1..Len(sent[k]) : sent[k][i] = log[k][old + i]
      /\ \A i \in 1..old : clock - log[k][i] > Window
  BY DEF RelayInv, QueueIsTail
<1>4. q \in Seq(Nat)
  BY <1>1
<1>5. Len(q) = Len(sent[k]) - n
  BY <1>1, <1>2
<1>6. ASSUME NEW i \in 1..Len(q)
      PROVE  q[i] = sent[k][n + i]
  <2>1. i \in 1..(Len(sent[k]) - (n + 1) + 1) /\ i + (n + 1) - 1 = n + i
    BY <1>2, <1>5
  <2>2. q[i] = sent[k][i + (n + 1) - 1]
    BY <2>1
  <2>3. QED
    BY <2>1, <2>2
<1> HIDE DEF q
<1>7. Len(log[k]) - Len(q) = old + n
  BY <1>2, <1>5
<1> HIDE DEF old
<1>8. ASSUME NEW i \in 1..Len(q)
      PROVE  q[i] = log[k][(old + n) + i]
  <2>1. n + i \in 1..Len(sent[k]) /\ old + (n + i) = (old + n) + i
    BY <1>2, <1>5
  <2>2. sent[k][n + i] = log[k][old + (n + i)]
    BY <1>3, <2>1
  <2>3. QED
    BY <1>6, <2>1, <2>2
<1>9. ASSUME NEW i \in 1..(old + n)
      PROVE  clock - log[k][i] > Window
  <2>1. CASE i \in 1..old
    BY <1>3, <2>1
  <2>2. CASE i \notin 1..old
    <3>1. i - old \in 1..n /\ i - old \in 1..Len(sent[k]) /\ i = old + (i - old)
      BY <1>2, <2>2
    <3>2. sent[k][i - old] = log[k][i]
      BY <1>3, <3>1
    <3>3. QED
      BY <3>1, <3>2 DEF Drops
  <2>3. QED
    BY <2>1, <2>2
<1>10. old + n \in Nat
  BY <1>2
<1>11. QED
  BY <1>4, <1>5, <1>7, <1>8, <1>9, <1>10 DEF q

\* A step that leaves the queues, the log and the clock alone.
LEMMA ContactsKeep ==
    ASSUME RelayInv, TypeOK', UNCHANGED <<sent, clock, log>>
    PROVE  RelayInv'
BY DEF RelayInv, WithinLimit, QueueIsTail, Drops

LEMMA SendKeeps ==
    ASSUME RelayInv, NEW k \in Keys, NEW p \in Phones, Send(k, p)
    PROVE  RelayInv'
<1>1. PICK n \in 0..Len(sent[k]) :
         /\ Drops(sent[k], clock, n)
         /\ LET q == SubSeq(sent[k], n + 1, Len(sent[k])) IN
              \/ /\ sent' = [sent EXCEPT ![k] = q]
                 /\ UNCHANGED log
              \/ /\ Len(q) < Limit
                 /\ sent' = [sent EXCEPT ![k] = WithEntry(q, clock)]
                 /\ log' = [log EXCEPT ![k] = Append(@, clock)]
  BY DEF Send
<1> DEFINE q == SubSeq(sent[k], n + 1, Len(sent[k]))
           gone == Len(log[k]) - Len(q)
           l == log[k]
<1>2. /\ sent \in [Keys -> Seq(Nat)] /\ log \in [Keys -> Seq(Nat)] /\ clock \in Nat
      /\ clock' = clock /\ contact' = contact
  BY DEF RelayInv, TypeOK, Send
<1>3. /\ q \in Seq(Nat)
      /\ gone \in Nat
      /\ \A i \in 1..Len(q) : q[i] = l[gone + i]
      /\ \A i \in 1..gone : clock - l[i] > Window
  BY <1>1, DroppingKeepsTail
<1>4. /\ \A i, j \in 1..Len(l) : i <= j => l[i] <= l[j]
      /\ \A i \in 1..Len(l) : l[i] <= clock
  BY DEF RelayInv, QueueIsTail
<1>5. \A x \in Keys \ {k} : sent'[x] = sent[x] /\ log'[x] = log[x]
  BY <1>1, <1>2
<1>6. ASSUME NEW x \in Keys \ {k} PROVE QueueIsTail(x)'
  <2>1. QueueIsTail(x) /\ sent'[x] = sent[x] /\ log'[x] = log[x]
    BY <1>5 DEF RelayInv
  <2>2. QED
    BY <1>2, <2>1 DEF QueueIsTail
<1>7. l = log[k] /\ l \in Seq(Nat)
  BY <1>2
<1>8. /\ Len(q) \in Nat /\ Len(l) \in Nat /\ gone \in Nat
       /\ Len(l) = gone + Len(q) /\ gone = Len(l) - Len(q)
  BY <1>2, <1>3
<1> HIDE DEF q, gone, l
<1>9. ASSUME sent' = [sent EXCEPT ![k] = q], log' = log
      PROVE  RelayInv'
  <2>1. sent'[k] = q /\ log'[k] = l
    BY <1>2, <1>7, <1>9
  <2>2. QueueIsTail(k)'
    BY <1>2, <1>3, <1>4, <1>8, <2>1 DEF QueueIsTail
  <2>3. TypeOK'
    BY <1>2, <1>3, <1>9 DEF RelayInv, TypeOK
  <2>4. WithinLimit'
    BY <1>9 DEF RelayInv, WithinLimit
  <2>5. QED
    BY <1>6, <2>2, <2>3, <2>4 DEF RelayInv
<1>10. ASSUME Len(q) < Limit,
             sent' = [sent EXCEPT ![k] = WithEntry(q, clock)],
             log' = [log EXCEPT ![k] = Append(@, clock)]
      PROVE  RelayInv'
  <2>1. sent'[k] = Append(q, clock) /\ log'[k] = Append(l, clock)
    BY <1>2, <1>7, <1>10 DEF WithEntry
  <2>2. Len(sent'[k]) = Len(q) + 1 /\ Len(log'[k]) = Len(l) + 1
    BY <1>2, <1>3, <1>7, <2>1
  <2>3. /\ \A i \in 1..Len(l) : log'[k][i] = l[i]
        /\ log'[k][Len(l) + 1] = clock
    BY <1>2, <1>7, <2>1
  <2>4. /\ \A i \in 1..Len(q) : sent'[k][i] = q[i]
        /\ sent'[k][Len(q) + 1] = clock
    BY <1>2, <1>3, <2>1
  <2>5. Len(log'[k]) - Len(sent'[k]) = gone
    BY <1>8, <2>2
  <2>6. ASSUME NEW i \in 1..Len(sent'[k])
        PROVE  sent'[k][i] = log'[k][gone + i]
    <3>1. CASE i = Len(q) + 1
      <4>1. gone + i = Len(l) + 1
        BY <1>8, <3>1
      <4>2. QED
        BY <2>3, <2>4, <3>1, <4>1
    <3>2. CASE i \in 1..Len(q)
      <4>1. gone + i \in 1..Len(l)
        BY <1>8, <3>2
      <4>2. QED
        BY <1>3, <2>3, <2>4, <3>2, <4>1
    <3>3. QED
      BY <1>8, <2>2, <3>1, <3>2
  <2>7. \A i \in 1..gone : i \in 1..Len(l)
    BY <1>8
  <2>8. \A i \in 1..gone : clock' - log'[k][i] > Window
    BY <1>2, <1>3, <2>3, <2>7
  <2>9. \A i \in 1..Len(log'[k]) : i \in 1..Len(l) \/ i = Len(l) + 1
    BY <1>8, <2>2
  <2>10. ASSUME NEW i \in 1..Len(log'[k])
         PROVE  log'[k][i] <= clock'
    <3>1. CASE i \in 1..Len(l)
      BY <1>2, <1>4, <2>3, <3>1
    <3>2. CASE i = Len(l) + 1
      BY <1>2, <2>3, <3>2
    <3>3. QED
      BY <2>9, <3>1, <3>2
  <2>11. ASSUME NEW i \in 1..Len(log'[k]), NEW j \in 1..Len(log'[k]), i <= j
         PROVE  log'[k][i] <= log'[k][j]
    <3>1. CASE j = Len(l) + 1
      BY <1>2, <2>3, <2>10, <3>1
    <3>2. CASE j \in 1..Len(l)
      <4>1. i \in 1..Len(l)
        BY <1>8, <2>11, <3>2
      <4>2. QED
        BY <1>4, <2>3, <2>11, <3>2, <4>1
    <3>3. QED
      BY <2>9, <3>1, <3>2
  <2>12. QueueIsTail(k)'
    BY <1>8, <2>5, <2>6, <2>8, <2>10, <2>11 DEF QueueIsTail
  <2>13. TypeOK'
    <3>1. sent'[k] \in Seq(Nat) /\ log'[k] \in Seq(Nat)
      BY <1>2, <1>3, <1>7, <2>1
    <3>2. QED
      BY <1>2, <1>10, <2>1, <3>1 DEF RelayInv, TypeOK
  <2>14. ASSUME NEW x \in Keys, NEW i \in 1..Len(log'[x]), i + Limit \in 1..Len(log'[x])
         PROVE  log'[x][i + Limit] - log'[x][i] > Window
    <3>1. CASE x # k
      BY <1>5, <2>14, <3>1 DEF RelayInv, WithinLimit
    <3>2. CASE x = k /\ i + Limit \in 1..Len(l)
      <4>1. i \in 1..Len(l)
        BY <1>8, <2>14, <3>2, RateAssumption
      <4>2. l[i + Limit] - l[i] > Window
        BY <1>7, <3>2, <4>1 DEF RelayInv, WithinLimit
      <4>3. QED
        BY <2>3, <3>2, <4>1, <4>2
    <3>3. CASE x = k /\ i + Limit = Len(l) + 1
      <4>1. i \in 1..gone
        BY <1>8, <1>10, <2>14, <3>3, RateAssumption
      <4>2. QED
        BY <1>2, <2>3, <2>8, <3>3, <4>1
    <3>4. QED
      BY <2>9, <2>14, <3>1, <3>2, <3>3
  <2>15. QED
    BY <1>6, <2>12, <2>13, <2>14 DEF RelayInv, WithinLimit
<1>11. QED
  BY <1>1, <1>9, <1>10 DEF q

LEMMA TickKeeps == RelayInv /\ Tick => RelayInv'
<1> SUFFICES ASSUME RelayInv, Tick PROVE RelayInv'
  OBVIOUS
<1>1. clock \in Nat /\ clock' = clock + 1 /\ UNCHANGED <<contact, sent, log>>
  BY DEF Tick, RelayInv, TypeOK
<1>2. log \in [Keys -> Seq(Nat)] /\ sent \in [Keys -> Seq(Nat)]
  BY DEF RelayInv, TypeOK
<1>3. ASSUME NEW k \in Keys PROVE QueueIsTail(k)'
  <2> DEFINE gone == Len(log[k]) - Len(sent[k])
  <2>1. QueueIsTail(k)
    BY DEF RelayInv
  <2>2. \A i \in 1..Len(log[k]) : log[k][i] \in Nat
    BY <1>2
  <2>3. ASSUME NEW i \in 1..gone PROVE clock' - log[k][i] > Window
    <3>1. i \in 1..Len(log[k])
      <4>1. Len(log[k]) \in Nat /\ Len(sent[k]) \in Nat
        BY <1>2
      <4>2. QED
        BY <4>1
    <3>2. clock - log[k][i] > Window /\ log[k][i] \in Nat
      BY <2>1, <2>2, <3>1 DEF QueueIsTail
    <3>3. QED
      BY <1>1, <3>2, RateAssumption
  <2>4. ASSUME NEW i \in 1..Len(log[k]) PROVE log[k][i] <= clock'
    <3>1. log[k][i] <= clock /\ log[k][i] \in Nat
      BY <2>1, <2>2 DEF QueueIsTail
    <3>2. QED
      BY <1>1, <3>1
  <2>5. QED
    BY <1>1, <2>1, <2>3, <2>4 DEF QueueIsTail
<1>4. TypeOK' /\ WithinLimit'
  BY <1>1 DEF RelayInv, TypeOK, WithinLimit
<1>5. QED
  BY <1>3, <1>4 DEF RelayInv

LEMMA RestartKeeps == RelayInv /\ Restart => RelayInv'
<1> SUFFICES ASSUME RelayInv, Restart PROVE RelayInv'
  OBVIOUS
<1>1. \A k \in Keys : Len(sent'[k]) = 0 /\ Len(log'[k]) = 0
  BY DEF Restart
<1>2. TypeOK'
  BY DEF Restart, RelayInv, TypeOK
<1>3. WithinLimit'
  BY <1>1 DEF WithinLimit
<1>4. ASSUME NEW k \in Keys PROVE QueueIsTail(k)'
  <2>1. /\ Len(log'[k]) - Len(sent'[k]) \in Nat
        /\ \A i \in 1..Len(sent'[k]) : FALSE
        /\ \A i \in 1..Len(log'[k]) : FALSE
        /\ \A i \in 1..(Len(log'[k]) - Len(sent'[k])) : FALSE
    BY <1>1
  <2>2. QED
    BY <2>1 DEF QueueIsTail
<1>5. QED
  BY <1>2, <1>3, <1>4 DEF RelayInv

LEMMA ManageKeeps ==
    ASSUME RelayInv, NEW who \in Drivers \union {None}, NEW c \in Contacts, Manage(who, c)
    PROVE  RelayInv'
<1>1. TypeOK /\ contact \in [Contacts -> ContactRow \union {None}]
  BY DEF RelayInv, TypeOK
<1>2. ASSUME NEW d \in Devices, NEW p \in Phones, NEW active \in BOOLEAN,
             AddContact(who, c, d, p, active)
      PROVE  RelayInv'
  <2>1. [device |-> d, owner |-> who, phone |-> p, active |-> active] \in ContactRow
    BY DEF ContactRow
  <2>2. QED
    BY <1>1, <1>2, <2>1, ContactsKeep DEF AddContact, TypeOK
<1>3. ASSUME NEW p \in Phones, NEW active \in BOOLEAN, UpdateContact(who, c, p, active)
      PROVE  RelayInv'
  <2>1. contact[c] \in ContactRow
    BY <1>1, <1>3 DEF UpdateContact
  <2>2. [contact[c] EXCEPT !.phone = p, !.active = active] \in ContactRow
    BY <2>1 DEF ContactRow
  <2>3. QED
    BY <1>1, <1>3, <2>2, ContactsKeep DEF UpdateContact, TypeOK
<1>4. ASSUME DeleteContact(who, c)
      PROVE  RelayInv'
  BY <1>1, <1>4, ContactsKeep DEF DeleteContact, TypeOK
<1>5. QED
  BY <1>2, <1>3, <1>4 DEF Manage

LEMMA NextKeepsRelayInv == RelayInv /\ [Next]_vars => RelayInv'
<1> SUFFICES ASSUME RelayInv, [Next]_vars PROVE RelayInv'
  OBVIOUS
<1>1. CASE UNCHANGED vars
  BY <1>1, ContactsKeep DEF vars, RelayInv, TypeOK
<1>2. QED
  BY <1>1, ManageKeeps, SendKeeps, TickKeeps, RestartKeeps DEF Next

\* The queue of every key is the end of its log, and what left it is older
\* than a window.
THEOREM RelayInvariance == Spec => []RelayInv
BY InitiallyRelayInv, NextKeepsRelayInv, PTL DEF Spec

\* Every variable keeps its type.
THEOREM RelayTypes == Spec => []TypeOK
BY RelayInvariance, PTL DEF RelayInv

\* No key is admitted more than Limit times within any window, whatever the
\* limit and the window are (sms.py:82, one process).
THEOREM LimitHolds == Spec => []WithinLimit
BY RelayInvariance, PTL DEF RelayInv

LEMMA TailIsWindow == RelayInv => WindowIsExact
<1> SUFFICES ASSUME RelayInv, NEW k \in Keys, NEW n \in 0..Len(sent[k]),
                    Drops(sent[k], clock, n)
             PROVE  Len(sent[k]) - n
                      = Cardinality({i \in 1..Len(log[k]) : clock - log[k][i] <= Window})
  BY DEF WindowIsExact
<1> DEFINE q == SubSeq(sent[k], n + 1, Len(sent[k]))
           gone == Len(log[k]) - Len(q)
<1>1. /\ sent[k] \in Seq(Nat) /\ Len(sent[k]) \in Nat
      /\ log[k] \in Seq(Nat) /\ Len(log[k]) \in Nat
      /\ \A i \in 1..Len(log[k]) : log[k][i] \in Nat
      /\ clock \in Nat /\ Window \in Nat /\ n \in Nat
  BY RateAssumption DEF RelayInv, TypeOK
<1>2. \A i, j \in 1..Len(log[k]) : i <= j => log[k][i] <= log[k][j]
  BY DEF RelayInv, QueueIsTail
<1>3. /\ Len(q) = Len(sent[k]) - n
      /\ gone \in Nat
      /\ \A i \in 1..Len(q) : q[i] = log[k][gone + i]
      /\ \A i \in 1..gone : clock - log[k][i] > Window
  BY DroppingKeepsTail
<1>4. n < Len(sent[k]) => q[1] = sent[k][n + 1]
  BY <1>1
<1>5. Len(q) \in Nat /\ Len(log[k]) = gone + Len(q)
  BY <1>1, <1>3
<1> HIDE DEF q, gone
<1>6. ASSUME NEW i \in (gone + 1)..Len(log[k])
      PROVE  clock - log[k][i] <= Window
  <2>1. n < Len(sent[k]) /\ 1 \in 1..Len(q)
    BY <1>1, <1>3, <1>5
  <2>2. gone + 1 \in 1..Len(log[k]) /\ i \in 1..Len(log[k]) /\ gone + 1 <= i
    BY <1>1, <1>3, <1>5
  <2>3. clock - log[k][gone + 1] <= Window
    BY <1>3, <1>4, <2>1 DEF Drops
  <2>4. log[k][gone + 1] <= log[k][i]
    BY <1>2, <2>2
  <2>5. log[k][gone + 1] \in Nat /\ log[k][i] \in Nat
    BY <1>1, <2>2
  <2>6. clock \in Nat /\ Window \in Nat
    BY <1>1
  <2>7. QED
    BY <2>3, <2>4, <2>5, <2>6
<1>7. {i \in 1..Len(log[k]) : clock - log[k][i] <= Window} = (gone + 1)..Len(log[k])
  <2>1. \A i \in 1..Len(log[k]) : i \in 1..gone \/ i \in (gone + 1)..Len(log[k])
    BY <1>1, <1>3, <1>5
  <2>2. /\ \A i \in (gone + 1)..Len(log[k]) : i \in 1..Len(log[k])
        /\ \A i \in 1..gone : i \in 1..Len(log[k])
    BY <1>1, <1>3, <1>5
  <2>3. ASSUME NEW i \in 1..gone
        PROVE  ~ (clock - log[k][i] <= Window)
    <3>1. clock - log[k][i] > Window /\ log[k][i] \in Nat
      BY <1>1, <1>3, <2>2
    <3>2. QED
      BY <1>1, <3>1
  <2>4. QED
    BY <1>6, <2>1, <2>2, <2>3
<1>8. Cardinality((gone + 1)..Len(log[k])) = Len(q)
  <2>1. gone + 1 \in Int /\ Len(log[k]) \in Int
    BY <1>1, <1>3
  <2>2. Cardinality((gone + 1)..Len(log[k]))
          = IF gone + 1 > Len(log[k]) THEN 0 ELSE Len(log[k]) - (gone + 1) + 1
    BY <2>1, FS_Interval
  <2>3. QED
    BY <1>3, <1>5, <2>2
<1>9. QED
  BY <1>3, <1>7, <1>8 DEF q

\* A request is weighed against exactly the admissions of the last window.
THEOREM WindowIsTheLastOne == Spec => []WindowIsExact
BY RelayInvariance, TailIsWindow, PTL
=============================================================================
