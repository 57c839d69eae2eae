-------------------------------- MODULE Relay --------------------------------
(***************************************************************************)
(* The SMS relay and the emergency contacts that decide whom it may reach: *)
(*   app/modules/sms.py        POST /sms/send                              *)
(*   app/modules/sentinel.py   the contacts of a device                    *)
(*                                                                         *)
(* The handlers run on the event loop and do not await anything before     *)
(* they have changed what they change, so each is one action up to that    *)
(* point; what the provider makes of a message afterwards changes nothing  *)
(* here.  The queues of the rate limit live in the process.                *)
(***************************************************************************)
EXTENDS Integers, Sequences, FiniteSets

CONSTANTS
    Devices,     \* devices with a row
    Drivers,     \* driver accounts
    DeviceOf,    \* the device a driver is linked to
    Subjects,    \* who may ask for a message: an API key or a responder
    Contacts,    \* bound: rows of emergency_contacts there can be
    Phones,      \* spellings of phone numbers
    Numbers,     \* what they stand for, +<country><number>
    Normal,      \* Normal[p]: the number p stands for, or Malformed
    Malformed,
    AllowList,   \* SMS_ALLOWED_RECIPIENTS
    Limit,       \* SMS_RATE_LIMIT_PER_10MIN
    Window,      \* 600 s, in ticks
    Horizon,     \* bound: ticks of the clock
    None         \* no row, no owner, no device

ASSUME RateAssumption == Limit \in Nat /\ Window \in Nat /\ Horizon \in Nat

ASSUME PhoneAssumption ==
    /\ Malformed \notin Numbers
    /\ Normal \in [Phones -> Numbers \union {Malformed}]
    /\ AllowList \subseteq Phones

ASSUME DeviceAssumption == DeviceOf \in [Drivers -> Devices] /\ None \notin Devices \union Drivers

\* The limit's key: who asks, and for which device.
Keys == Subjects \X (Devices \union {None})

VARIABLES
    contact,   \* contact[c]: a row, or None
    sent,      \* sent[k]: the times in k's queue, oldest first
    clock,     \* time.monotonic()
    log        \* log[k], for the properties only: k's admissions since the start

vars == <<contact, sent, clock, log>>

ContactRow ==
    [device: Devices, owner: Drivers \union {None}, phone: Phones, active: BOOLEAN]

TypeOK ==
    /\ contact \in [Contacts -> ContactRow \union {None}]
    /\ sent \in [Keys -> Seq(Nat)]
    /\ log \in [Keys -> Seq(Nat)]
    /\ clock \in Nat

Init ==
    /\ contact = [c \in Contacts |-> None]
    /\ sent = [k \in Keys |-> <<>>]
    /\ log = [k \in Keys |-> <<>>]
    /\ clock = 0

-----------------------------------------------------------------------------
(* Contacts.  `who` is a driver, or None for a responder.                  *)

\* ensure_device_access, and the rows _contact_owner lets a driver touch.
MayManage(who, d) == who # None => DeviceOf[who] = d

Owns(who, row) == MayManage(who, row.device) /\ (who # None => row.owner = who)

AddContact(who, c, d, p, active) ==
    /\ contact[c] = None
    /\ MayManage(who, d)
    /\ contact' = [contact EXCEPT ![c] =
                     [device |-> d, owner |-> who, phone |-> p, active |-> active]]
    /\ UNCHANGED <<sent, clock, log>>

\* A field that is not in the body stays as it is.
UpdateContact(who, c, p, active) ==
    /\ contact[c] # None
    /\ Owns(who, contact[c])
    /\ contact' = [contact EXCEPT ![c].phone = p, ![c].active = active]
    /\ UNCHANGED <<sent, clock, log>>

DeleteContact(who, c) ==
    /\ contact[c] # None
    /\ Owns(who, contact[c])
    /\ contact' = [contact EXCEPT ![c] = None]
    /\ UNCHANGED <<sent, clock, log>>

\* Whoever owns the row, an active contact of the device may be messaged; a
\* malformed number among the contacts is skipped.
Recipients(d) ==
    {Normal[p] : p \in AllowList}
    \union ({Normal[contact[c].phone] : c \in {x \in Contacts : /\ contact[x] # None
                                                              /\ contact[x].device = d
                                                              /\ contact[x].active}}
            \ {Malformed})

\* A malformed number on the allow list fails every request.
ListIsSound == \A p \in AllowList : Normal[p] # Malformed

-----------------------------------------------------------------------------
(* _check_rate                                                             *)

\* A faulty variant: an entry is dropped when it is a window old.
DropsEarly(q, now, n) ==
    /\ \A i \in 1..n : now - q[i] >= Window
    /\ n < Len(q) => now - q[n + 1] < Window

\* The first n entries of the queue are the ones that are dropped.
Drops(q, now, n) ==
    /\ \A i \in 1..n : now - q[i] > Window
    /\ n < Len(q) => now - q[n + 1] <= Window

\* A faulty variant: the new entry goes to the front.
WithEntryFirst(q, now) == <<now>> \o q

WithEntry(q, now) == Append(q, now)

\* The order of the checks is the code's; a request that fails one before the
\* limit (422, 403) changes nothing.  Refused (429) or admitted, the old
\* entries are gone; an admitted request keeps its place whatever the provider
\* answers.
Send(k, p) ==
    /\ Normal[p] # Malformed
    /\ ListIsSound
    /\ Normal[p] \in Recipients(k[2])
    /\ \E n \in 0..Len(sent[k]) :
          /\ Drops(sent[k], clock, n)
          /\ LET q == SubSeq(sent[k], n + 1, Len(sent[k])) IN
               \/ /\ Len(q) >= Limit
                  /\ sent' = [sent EXCEPT ![k] = q]
                  /\ UNCHANGED log
               \/ /\ Len(q) < Limit
                  /\ sent' = [sent EXCEPT ![k] = WithEntry(q, clock)]
                  /\ log' = [log EXCEPT ![k] = Append(@, clock)]
    /\ UNCHANGED <<contact, clock>>

Tick ==
    /\ clock < Horizon
    /\ clock' = clock + 1
    /\ UNCHANGED <<contact, sent, log>>

\* A new process starts with empty queues.
Restart ==
    /\ sent' = [k \in Keys |-> <<>>]
    /\ log' = [k \in Keys |-> <<>>]
    /\ UNCHANGED <<contact, clock>>

Manage(who, c) ==
    \/ \E d \in Devices, p \in Phones, active \in BOOLEAN : AddContact(who, c, d, p, active)
    \/ \E p \in Phones, active \in BOOLEAN : UpdateContact(who, c, p, active)
    \/ DeleteContact(who, c)

Next ==
    \/ \E who \in Drivers \union {None}, c \in Contacts : Manage(who, c)
    \/ \E k \in Keys, p \in Phones : Send(k, p)
    \/ Tick
    \/ Restart

Spec == Init /\ [][Next]_vars

-----------------------------------------------------------------------------
(* Properties                                                              *)

\* SMS_RATE_LIMIT_PER_10MIN: of any Limit + 1 admissions of one key in a row,
\* the first and the last are more than a window apart.
WithinLimit ==
    \A k \in Keys : \A i \in 1..Len(log[k]) :
       i + Limit \in 1..Len(log[k]) => log[k][i + Limit] - log[k][i] > Window

\* The limit takes back what it gave: a request is weighed against exactly the
\* admissions of the last window, neither against older ones that were never
\* dropped nor without one that was dropped too early.
WindowIsExact ==
    \A k \in Keys : \A n \in 0..Len(sent[k]) :
       Drops(sent[k], clock, n) =>
          Len(sent[k]) - n = Cardinality({i \in 1..Len(log[k]) : clock - log[k][i] <= Window})

\* The queue is the end of the log, in the order of time, and what is no
\* longer in it is older than a window: the invariant from which the two
\* properties follow.
QueueIsTail(k) ==
    LET gone == Len(log[k]) - Len(sent[k]) IN
    /\ gone \in Nat
    /\ \A i \in 1..Len(sent[k]) : sent[k][i] = log[k][gone + i]
    /\ \A i \in 1..gone : clock - log[k][i] > Window
    /\ \A i, j \in 1..Len(log[k]) : i <= j => log[k][i] <= log[k][j]
    /\ \A i \in 1..Len(log[k]) : log[k][i] <= clock

RelayInv == TypeOK /\ WithinLimit /\ \A k \in Keys : QueueIsTail(k)
=============================================================================
