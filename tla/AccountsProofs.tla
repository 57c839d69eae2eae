---------------------------- MODULE AccountsProofs ----------------------------
(***************************************************************************)
(* Theorems about module Accounts, for every choice of its constants.      *)
(*                                                                         *)
(* AccountsInv is inductive.  A step belongs to one request; what it does  *)
(* to the rows respects the locks of the others (RespectsLocks), so what   *)
(* they rely on stays true (OthersKeep), and only the request's own part   *)
(* of the invariant is left to be looked at for each action.               *)
(*                                                                         *)
(* The last part shows that the table implements module Sessions: a step   *)
(* changes the unrevoked tokens of at most one session, or commits a bulk  *)
(* revocation, or is a stutter.                                            *)
(***************************************************************************)
EXTENDS Accounts, TLAPS

-----------------------------------------------------------------------------
(* What a step does                                                        *)

\* The step writes no row that another request than r holds, drops none, and
\* makes no revoked token valid again.
RespectsLocks(r) ==
    /\ token' \in [Tokens -> TokenRow \union {None}]
    /\ \A t \in Tokens :
          token[t] # None => /\ token'[t] # None
                             /\ token'[t].owner = token[t].owner
                             /\ token'[t].session = token[t].session
    /\ \A t \in Tokens : token[t] # None /\ Unrevoked(t)' => Unrevoked(t)
    /\ \A t \in Tokens : \A q \in Requests \ {r} :
          Holds(q, t) /\ Unrevoked(t) => Unrevoked(t)'

\* Of the requests, the step changes r only.
OnlyOf(r) == /\ req' \in [Requests -> Request \union {None}]
             /\ \A q \in Requests \ {r} : req'[q] = req[q]

\* r holds no row it did not hold before, unless nobody else held it.
LocksFree(r) == \A t \in Tokens :
                   Holds(r, t)' => Holds(r, t) \/ ~ LockedByAnother(r, t)

\* The tokens that are inserted: t, of u, as part of a session.
Inserts(t, u, session) ==
    /\ Unused(t)
    /\ token'[t] = NewToken(t, u, session)
    /\ \A s \in Tokens \ {t} : token[s] = None => token'[s] = None

\* A session of account u.
BelongsTo(session, u) == Begins(session) /\ token[session].owner = u

InsertsNothing == \A s \in Tokens : token[s] = None => token'[s] = None

-----------------------------------------------------------------------------
(* Lemmas about the invariant                                              *)

\* What other requests rely on survives a step that respects their locks.
LEMMA OthersKeep ==
    ASSUME AccountsInv, NEW r \in Requests, RespectsLocks(r), OnlyOf(r)
    PROVE  \A q \in Requests \ {r} : RequestOK(q)'
<1> SUFFICES ASSUME NEW q \in Requests \ {r}, req[q] # None
             PROVE  RequestOK(q)'
  BY DEF OnlyOf, RequestOK
<1>1. req'[q] = req[q] /\ req[q] \in Request /\ RequestOK(q)
  BY DEF OnlyOf, AccountsInv, TypeOK
<1>2. \A t \in Tokens : Holds(q, t) /\ Unrevoked(t) => Unrevoked(t)'
  BY DEF RespectsLocks
<1>3. ASSUME req[q].op \in {"refresh", "logout"}
      PROVE  req[q].token \in Tokens /\ token'[req[q].token] # None
  BY <1>1, <1>3 DEF RequestOK, RespectsLocks
<1>4. ASSUME req[q].op = "refresh", req[q].at \in {"load", "rotate"}
      PROVE  Unrevoked(req[q].token)' /\ token'[req[q].token].owner = req[q].account
  <2>1. Holds(q, req[q].token) /\ Unrevoked(req[q].token)
    BY <1>1, <1>4 DEF RequestOK, Holds
  <2>2. Unrevoked(req[q].token)'
    BY <1>1, <1>2, <1>3, <1>4, <2>1 DEF Unrevoked
  <2>3. QED
    BY <1>1, <1>3, <1>4, <2>2 DEF RequestOK, RespectsLocks, Unrevoked
<1>5. ASSUME NEW t \in req[q].swept
      PROVE  Unrevoked(t)'
  BY <1>1, <1>2, <1>5 DEF RequestOK, Holds, Request
<1>6. ASSUME NEW t \in req[q].existing
      PROVE  /\ token'[t] # None /\ token'[t].owner = req[q].account
             /\ Unrevoked(t)' => t \in req[q].swept \union req[q].left \/ req[q].sweeps > 0
  BY <1>1, <1>6 DEF RequestOK, Request, RespectsLocks
<1>7. ASSUME NEW t \in req[q].swept \union req[q].left
      PROVE  token'[t] # None /\ token'[t].owner = req[q].account
  BY <1>1, <1>7 DEF RequestOK, Request, RespectsLocks
<1>8. QED
  BY <1>1, <1>3, <1>4, <1>5, <1>6, <1>7 DEF RequestOK, Unrevoked

\* Rows stay locked by one request each.
LEMMA LocksStayExclusive ==
    ASSUME AccountsInv, NEW r \in Requests, OnlyOf(r), LocksFree(r)
    PROVE  LocksExclude'
<1>1. \A q \in Requests \ {r} : \A t \in Tokens : Holds(q, t)' <=> Holds(q, t)
  BY DEF OnlyOf, Holds
<1>2. QED
  BY <1>1 DEF AccountsInv, LocksExclude, LocksFree, LockedByAnother

\* A step that inserts nothing keeps the sessions in order.
LEMMA NothingInserted ==
    ASSUME AccountsInv, NEW r \in Requests, RespectsLocks(r), InsertsNothing
    PROVE  SessionsAreRooted' /\ OneLivePerSession'
<1>1. \A t \in Tokens : token'[t] # None =>
         /\ token[t] # None
         /\ token'[t].owner = token[t].owner /\ token'[t].session = token[t].session
         /\ token[t].session \in Tokens
  BY DEF RespectsLocks, InsertsNothing, AccountsInv, TypeOK, TokenRow
<1>2. SessionsAreRooted'
  BY <1>1 DEF SessionsAreRooted, AccountsInv, RespectsLocks
<1>3. \A t \in Tokens : Unrevoked(t)' => Unrevoked(t) /\ token'[t].session = token[t].session
  BY <1>1 DEF RespectsLocks, Unrevoked
<1>4. QED
  BY <1>2, <1>3 DEF OneLivePerSession, AccountsInv

\* Nor does one that inserts a token of a session none of whose tokens is left
\* unrevoked, or a token that begins a session.
LEMMA OneInserted ==
    ASSUME AccountsInv, NEW r \in Requests, RespectsLocks(r),
           NEW t \in Tokens, NEW u \in Accounts, NEW session \in Tokens,
           Inserts(t, u, session),
           session = t \/ BelongsTo(session, u),
           \A s \in Tokens \ {t} : Unrevoked(s)' => token[s].session # session
    PROVE  SessionsAreRooted' /\ OneLivePerSession'
<1>1. token'[t] = [owner |-> u, state |-> "valid", session |-> session] /\ token[t] = None
  BY DEF Inserts, NewToken, Unused
<1>2. token'[t] # None
  <2>1. token'[t] \in TokenRow
    BY <1>1 DEF TokenRow
  <2>2. QED
    BY <2>1, NoneAssumption
<1>3. \A s \in Tokens \ {t} : token'[s] # None =>
         /\ token[s] # None
         /\ token'[s].owner = token[s].owner /\ token'[s].session = token[s].session
         /\ token[s].session \in Tokens
  BY DEF RespectsLocks, Inserts, AccountsInv, TypeOK, TokenRow
<1>4. SessionsAreRooted'
  <2>1. token'[t].owner = u /\ token'[t].session = session
    BY <1>1
  <2>2. session # t => /\ token'[session] # None
                       /\ token'[session].session = session /\ token'[session].owner = u
    BY DEF BelongsTo, Begins, RespectsLocks
  <2>3. ASSUME NEW s \in Tokens \ {t}, token'[s] # None
        PROVE  LET first == token'[token'[s].session] IN
               /\ first # None
               /\ first.session = token'[s].session /\ first.owner = token'[s].owner
    BY <1>3, <2>3 DEF SessionsAreRooted, AccountsInv, RespectsLocks
  <2>4. QED
    BY <1>2, <2>1, <2>2, <2>3 DEF SessionsAreRooted
<1>5. \A s \in Tokens \ {t} : Unrevoked(s)' => Unrevoked(s) /\ token'[s].session = token[s].session
  BY <1>3 DEF RespectsLocks, Unrevoked
<1>6. OneLivePerSession'
  BY <1>1, <1>5 DEF OneLivePerSession, AccountsInv
<1>7. QED
  BY <1>4, <1>6

-----------------------------------------------------------------------------
(* Lemmas about the steps                                                  *)

\* A step that leaves the table alone.
LEMMA TableUntouched ==
    ASSUME AccountsInv, NEW r \in Requests, token' = token
    PROVE  RespectsLocks(r) /\ InsertsNothing
BY DEF RespectsLocks, InsertsNothing, AccountsInv, TypeOK, Unrevoked

\* The commit of a bulk revocation.
LEMMA SweptAreRevoked ==
    ASSUME AccountsInv, NEW r \in Requests, req[r] # None, token' = WithSweptRevoked(r)
    PROVE  /\ RespectsLocks(r) /\ InsertsNothing
           /\ \A t \in req[r].swept : ~ Unrevoked(t)'
<1>1. req[r] \in Request /\ req[r].swept \subseteq Tokens
  BY DEF AccountsInv, TypeOK, Request
<1>2. \A t \in req[r].swept :
         /\ token[t] \in TokenRow /\ token[t] # None
         /\ token'[t] = [token[t] EXCEPT !.state = "revoked"]
  BY <1>1 DEF WithSweptRevoked, AccountsInv, TypeOK, RequestOK, Unrevoked
<1>3. \A t \in req[r].swept :
         /\ token'[t] \in TokenRow
         /\ token'[t].owner = token[t].owner /\ token'[t].session = token[t].session
         /\ token'[t].state = "revoked"
  BY <1>2 DEF TokenRow
<1>4. \A t \in Tokens \ req[r].swept : token'[t] = token[t]
  BY DEF WithSweptRevoked
<1>5. token' \in [Tokens -> TokenRow \union {None}]
  <2>1. \A t \in Tokens : token'[t] \in TokenRow \union {None}
    BY <1>3, <1>4 DEF AccountsInv, TypeOK
  <2>2. QED
    BY <2>1 DEF WithSweptRevoked
<1>6. \A t \in req[r].swept : \A q \in Requests \ {r} : ~ Holds(q, t)
  BY <1>1 DEF AccountsInv, LocksExclude, Holds
<1>7. RespectsLocks(r)
  BY <1>3, <1>4, <1>5, <1>6, NoneAssumption DEF RespectsLocks, Unrevoked
<1>8. InsertsNothing
  BY <1>2, <1>4 DEF InsertsNothing
<1>9. QED
  BY <1>3, <1>7, <1>8 DEF Unrevoked

\* One row becomes revoked that nobody else holds.
LEMMA OneIsRevoked ==
    ASSUME AccountsInv, NEW r \in Requests, NEW t \in Tokens,
           token[t] # None, ~ LockedByAnother(r, t),
           token' = [token EXCEPT ![t].state = "revoked"]
    PROVE  RespectsLocks(r) /\ InsertsNothing
<1>1. token[t] \in TokenRow
  BY DEF AccountsInv, TypeOK
<1>2. /\ token'[t] \in TokenRow
      /\ token'[t].owner = token[t].owner /\ token'[t].session = token[t].session
      /\ token'[t].state = "revoked"
  BY <1>1 DEF TokenRow, AccountsInv, TypeOK
<1>3. \A s \in Tokens \ {t} : token'[s] = token[s]
  BY DEF AccountsInv, TypeOK
<1>4. token' \in [Tokens -> TokenRow \union {None}]
  BY <1>2 DEF AccountsInv, TypeOK
<1>5. RespectsLocks(r)
  BY <1>2, <1>3, <1>4, NoneAssumption DEF RespectsLocks, Unrevoked, LockedByAnother
<1>6. QED
  BY <1>3, <1>5 DEF InsertsNothing

\* What is left to show of a step of request r.
LEMMA StepKeeps ==
    ASSUME AccountsInv, NEW r \in Requests,
           account' \in [Accounts -> AccountState],
           RespectsLocks(r), OnlyOf(r), LocksFree(r), RequestOK(r)',
           SessionsAreRooted', OneLivePerSession'
    PROVE  AccountsInv'
<1>1. TypeOK'
  BY DEF TypeOK, RespectsLocks, OnlyOf
<1>2. \A q \in Requests : RequestOK(q)'
  BY OthersKeep
<1>3. LocksExclude'
  BY LocksStayExclusive
<1>4. QED
  BY <1>1, <1>2, <1>3 DEF AccountsInv

\* A request that ends, and inserts nothing.
LEMMA EndKeeps ==
    ASSUME AccountsInv, NEW r \in Requests,
           account' \in [Accounts -> AccountState],
           RespectsLocks(r), InsertsNothing, Ends(r)
    PROVE  AccountsInv'
<1>1. OnlyOf(r) /\ req'[r] = None
  BY DEF Ends, OnlyOf, AccountsInv, TypeOK
<1>2. LocksFree(r) /\ RequestOK(r)'
  BY <1>1 DEF LocksFree, Holds, RequestOK
<1>3. QED
  BY <1>1, <1>2, NothingInserted, StepKeeps

\* A request that ends with the insertion of a token.
LEMMA InsertAndEndKeeps ==
    ASSUME AccountsInv, NEW r \in Requests,
           account' \in [Accounts -> AccountState],
           RespectsLocks(r), Ends(r),
           NEW t \in Tokens, NEW u \in Accounts, NEW session \in Tokens,
           Inserts(t, u, session),
           session = t \/ BelongsTo(session, u),
           \A s \in Tokens \ {t} : Unrevoked(s)' => token[s].session # session
    PROVE  AccountsInv'
<1>1. OnlyOf(r) /\ req'[r] = None
  BY DEF Ends, OnlyOf, AccountsInv, TypeOK
<1>2. LocksFree(r) /\ RequestOK(r)'
  BY <1>1 DEF LocksFree, Holds, RequestOK
<1>3. SessionsAreRooted' /\ OneLivePerSession'
  BY OneInserted
<1>4. QED
  BY <1>1, <1>2, <1>3, StepKeeps

\* A request that goes on without touching the table.
LEMMA QuietKeeps ==
    ASSUME AccountsInv, NEW r \in Requests,
           account' = account, token' = token,
           NEW x \in Request, req' = [req EXCEPT ![r] = x],
           LocksFree(r), RequestOK(r)'
    PROVE  AccountsInv'
<1>1. OnlyOf(r)
  BY DEF OnlyOf, AccountsInv, TypeOK
<1>2. RespectsLocks(r) /\ InsertsNothing
  BY TableUntouched
<1>3. account' \in [Accounts -> AccountState]
  BY DEF AccountsInv, TypeOK
<1>4. QED
  BY <1>1, <1>2, <1>3, NothingInserted, StepKeeps

\* A token that begins a session belongs to no other.
LEMMA FreshIsAlone ==
    ASSUME AccountsInv, NEW t \in Tokens, token[t] = None
    PROVE  \A s \in Tokens : token[s] # None => token[s].session # t
BY DEF AccountsInv, SessionsAreRooted

-----------------------------------------------------------------------------
(* Each action keeps the invariant                                         *)

\* A request that begins, or goes on, without a lock and with nothing to end.
LEMMA LocklessKeeps ==
    ASSUME AccountsInv, NEW r \in Requests,
           account' = account, token' = token,
           NEW x \in Request, req' = [req EXCEPT ![r] = x],
           x.op # "refresh", x.swept = {}, x.left = {}, x.existing = {}, x.wish = "leave", x.at # "count",
           x.op \notin {"logout", "any"} => x.account \in Accounts,
           x.op = "any" => x.account \in Accounts \union {Key},
           x.op = "logout" => x.token \in Tokens /\ token[x.token] # None
    PROVE  AccountsInv'
<1>1. req'[r] = x
  BY DEF AccountsInv, TypeOK
<1>2. LocksFree(r)
  BY <1>1 DEF LocksFree, Holds
<1>3. RequestOK(r)'
  BY <1>1 DEF RequestOK
<1>4. QED
  BY <1>2, <1>3, QuietKeeps

\* What a handler of refresh makes of its request.
LEMMA RefreshRequest ==
    ASSUME NEW u \in Accounts, NEW t \in Tokens, NEW S \in SUBSET Tokens
    PROVE  /\ [Open("refresh", "load") EXCEPT !.account = u, !.token = t] \in Request
           /\ [Open("refresh", "sweep") EXCEPT
                 !.account = u, !.token = t, !.sweeps = 1, !.existing = S] \in Request
<1>1. /\ Open("refresh", "load") \in Request
      /\ Open("refresh", "sweep") \in Request
  BY DEF Open, Request, AccountState
<1>2. \A x \in Request : [x EXCEPT !.account = u] \in Request /\ [x EXCEPT !.token = t] \in Request
  BY DEF Request
<1>3. \A x \in Request : [x EXCEPT !.sweeps = 1] \in Request /\ [x EXCEPT !.existing = S] \in Request
  BY DEF Request
<1>4. QED
  BY <1>1, <1>2, <1>3

LEMMA SignsInKeeps ==
    ASSUME AccountsInv, NEW r \in Requests, SignsIn(r)
    PROVE  AccountsInv'
<1>1. ASSUME NEW u \in Accounts, Register(r, u)
      PROVE  AccountsInv'
  <2> DEFINE x == [Open("register", "insert") EXCEPT !.account = u]
  <2>1. x \in Request
    BY DEF Open, Request, AccountState
  <2>2. QED
    BY <1>1, <2>1, LocklessKeeps DEF Register, Open
<1>2. ASSUME NEW u \in Accounts, Login(r, u)
      PROVE  AccountsInv'
  <2> DEFINE x == [Open("login", "insert") EXCEPT !.account = u]
  <2>1. x \in Request
    BY DEF Open, Request, AccountState
  <2>2. QED
    BY <1>2, <2>1, LocklessKeeps DEF Login, Open
<1>3. ASSUME NEW t \in Tokens, Unused(t), Ends(r),
             req[r] # None, req[r].op \in {"login", "register"},
             token' = [token EXCEPT ![t] = NewToken(t, req[r].account, t)],
             account' \in [Accounts -> AccountState]
      PROVE  AccountsInv'
  <2>1. req[r].account \in Accounts
    BY <1>3 DEF AccountsInv, RequestOK
  <2>2. NewToken(t, req[r].account, t) \in TokenRow
    BY <2>1 DEF NewToken, TokenRow
  <2>3. Inserts(t, req[r].account, t)
    BY <1>3 DEF Inserts, AccountsInv, TypeOK
  <2>4. token[t] = None /\ \A s \in Tokens \ {t} : token'[s] = token[s]
    BY <1>3 DEF Unused, AccountsInv, TypeOK
  <2>5. RespectsLocks(r)
    BY <1>3, <2>2, <2>4 DEF RespectsLocks, Unrevoked, AccountsInv, TypeOK
  <2>6. \A s \in Tokens \ {t} : Unrevoked(s)' => token[s].session # t
    BY <2>4, FreshIsAlone DEF Unrevoked
  <2>7. QED
    BY <1>3, <2>1, <2>3, <2>5, <2>6, InsertAndEndKeeps
<1>4. ASSUME RegisterInserts(r)
      PROVE  AccountsInv'
  <2>1. CASE account[req[r].account] = "absent"
    <3>1. account' \in [Accounts -> AccountState]
      BY <1>4, <2>1 DEF RegisterInserts, AccountsInv, TypeOK, AccountState
    <3>2. QED
      BY <1>3, <1>4, <2>1, <3>1 DEF RegisterInserts, Under
  <2>2. CASE account[req[r].account] # "absent"
    BY <1>4, <2>2, TableUntouched, EndKeeps DEF RegisterInserts, AccountsInv, TypeOK
  <2>3. QED
    BY <2>1, <2>2
<1>5. ASSUME LoginInserts(r)
      PROVE  AccountsInv'
  BY <1>3, <1>5 DEF LoginInserts, Under, AccountsInv, TypeOK
<1>6. QED
  BY <1>1, <1>2, <1>4, <1>5 DEF SignsIn

LEMMA RefreshKeeps ==
    ASSUME AccountsInv, NEW r \in Requests, NEW t \in Tokens,
           RefreshValid(r, t) \/ RefreshExpired(r, t) \/ RefreshReused(r, t)
    PROVE  AccountsInv'
<1> DEFINE u == token[t].owner
<1>1. token[t] \in TokenRow /\ u \in Accounts
  BY DEF RefreshValid, RefreshExpired, RefreshReused, AccountsInv, TypeOK, TokenRow
<1>2. ASSUME RefreshValid(r, t)
      PROVE  AccountsInv'
  <2> DEFINE x == [Open("refresh", "load") EXCEPT !.account = u, !.token = t]
  <2>1. x \in Request
    BY <1>1, RefreshRequest
  <2>2. req' = [req EXCEPT ![r] = x] /\ req'[r] = x /\ token' = token /\ account' = account
    BY <1>2 DEF RefreshValid, AccountsInv, TypeOK
  <2>3. LocksFree(r)
    BY <1>2, <2>2 DEF LocksFree, Holds, Open, RefreshValid
  <2>4. RequestOK(r)'
    BY <1>1, <1>2, <2>2 DEF RequestOK, Open, RefreshValid, Unrevoked
  <2>5. QED
    BY <2>1, <2>2, <2>3, <2>4, QuietKeeps
<1>3. ASSUME RefreshExpired(r, t)
      PROVE  AccountsInv'
  <2>1. RespectsLocks(r) /\ InsertsNothing
    BY <1>3, OneIsRevoked DEF RefreshExpired
  <2>2. req' = req /\ account' = account /\ req[r] = None
    BY <1>3 DEF RefreshExpired
  <2>3. OnlyOf(r) /\ LocksFree(r) /\ RequestOK(r)'
    BY <2>2 DEF OnlyOf, LocksFree, Holds, RequestOK, AccountsInv, TypeOK
  <2>4. account' \in [Accounts -> AccountState]
    BY <2>2 DEF AccountsInv, TypeOK
  <2>5. QED
    BY <2>1, <2>3, <2>4, NothingInserted, StepKeeps
<1>4. ASSUME RefreshReused(r, t)
      PROVE  AccountsInv'
  <2> DEFINE x == [Open("refresh", "sweep") EXCEPT
                     !.account = u, !.token = t, !.sweeps = 1, !.existing = TokensOf(u)]
  <2>1. TokensOf(u) \in SUBSET Tokens /\ x \in Request
    BY <1>1, RefreshRequest DEF TokensOf
  <2>2. req' = [req EXCEPT ![r] = x] /\ req'[r] = x /\ token' = token /\ account' = account
    BY <1>4 DEF RefreshReused, AccountsInv, TypeOK
  <2>3. LocksFree(r)
    BY <1>4, <2>2 DEF LocksFree, Holds, Open, RefreshReused
  <2>4. RequestOK(r)'
    BY <1>1, <1>4, <2>2 DEF RequestOK, Open, RefreshReused, TokensOf, Unrevoked
  <2>5. QED
    BY <2>1, <2>2, <2>3, <2>4, QuietKeeps
<1>5. QED
  BY <1>2, <1>3, <1>4

LEMMA SessionKeeps ==
    ASSUME AccountsInv, NEW r \in Requests, Session(r)
    PROVE  AccountsInv'
<1>1. ASSUME NEW t \in Tokens, Logout(r, t)
      PROVE  AccountsInv'
  <2> DEFINE x == [Open("logout", "write") EXCEPT !.token = t]
  <2>1. x \in Request
    BY DEF Open, Request, AccountState
  <2>2. QED
    BY <1>1, <2>1, LocklessKeeps DEF Logout, Open, Unrevoked
<1>2. ASSUME RefreshLoads(r)
      PROVE  AccountsInv'
  <2>1. CASE Ends(r)
    BY <1>2, <2>1, TableUntouched, EndKeeps DEF RefreshLoads, AccountsInv, TypeOK
  <2>2. CASE req' = [req EXCEPT ![r].at = "rotate"]
    <3> DEFINE x == [req[r] EXCEPT !.at = "rotate"]
    <3>1. /\ req[r] \in Request /\ req[r] # None /\ RequestOK(r)
          /\ req[r].op = "refresh" /\ req[r].at = "load"
      BY <1>2 DEF RefreshLoads, Under, AccountsInv, TypeOK
    <3>2. x \in Request
      BY <3>1 DEF Request
    <3>3. req' = [req EXCEPT ![r] = x] /\ req'[r] = x /\ token' = token /\ account' = account
      BY <1>2, <2>2 DEF RefreshLoads, AccountsInv, TypeOK
    <3>4. LocksFree(r)
      BY <3>1, <3>3 DEF LocksFree, Holds, Request
    <3>5. RequestOK(r)'
      BY <3>1, <3>3 DEF RequestOK, Request, Unrevoked
    <3>6. QED
      BY <3>2, <3>3, <3>4, <3>5, QuietKeeps
  <2>3. QED
    BY <1>2, <2>1, <2>2 DEF RefreshLoads
<1>3. ASSUME LogoutWrites(r)
      PROVE  AccountsInv'
  <2>1. req[r].token \in Tokens /\ token[req[r].token] # None
    BY <1>3 DEF LogoutWrites, Under, AccountsInv, RequestOK
  <2>2. RespectsLocks(r) /\ InsertsNothing
    BY <1>3, <2>1, OneIsRevoked DEF LogoutWrites
  <2>3. QED
    BY <1>3, <2>2, EndKeeps DEF LogoutWrites, AccountsInv, TypeOK
<1>4. ASSUME Rotate(r)
      PROVE  AccountsInv'
  <2> DEFINE old == req[r].token
             u == req[r].account
             session == token[old].session
  <2>1. /\ req[r] # None /\ old \in Tokens /\ Unrevoked(old) /\ Holds(r, old)
        /\ token[old] \in TokenRow /\ token[old].owner = u
    BY <1>4 DEF Rotate, Under, AccountsInv, TypeOK, RequestOK, Holds, Unrevoked
  <2>2. u \in Accounts /\ session \in Tokens /\ BelongsTo(session, u)
    BY <2>1 DEF TokenRow, AccountsInv, SessionsAreRooted, Unrevoked, BelongsTo, Begins
  <2>3. PICK t \in Tokens :
           /\ Unused(t)
           /\ token' = [token EXCEPT ![old].state = "revoked", ![t] = NewToken(t, u, session)]
    BY <1>4 DEF Rotate
  <2>4. token[t] = None /\ t # old
    BY <2>1, <2>3 DEF Unused, Unrevoked
  <2>5. /\ token'[t] = NewToken(t, u, session)
        /\ token'[old] = [token[old] EXCEPT !.state = "revoked"]
        /\ \A s \in Tokens \ {t, old} : token'[s] = token[s]
    BY <2>1, <2>3, <2>4 DEF AccountsInv, TypeOK
  <2>6. /\ token'[t] \in TokenRow
        /\ token'[old] \in TokenRow /\ token'[old].owner = token[old].owner
        /\ token'[old].session = token[old].session /\ token'[old].state = "revoked"
    BY <2>1, <2>2, <2>5 DEF TokenRow, NewToken
  <2>7. Inserts(t, u, session)
    BY <2>1, <2>3, <2>5 DEF Inserts, Unrevoked
  <2>8. token' \in [Tokens -> TokenRow \union {None}]
    BY <2>3, <2>5, <2>6 DEF AccountsInv, TypeOK
  <2>9. \A q \in Requests \ {r} : ~ Holds(q, old)
    BY <2>1 DEF AccountsInv, LocksExclude
  <2>10. RespectsLocks(r)
    BY <2>1, <2>4, <2>5, <2>6, <2>8, <2>9, NoneAssumption DEF RespectsLocks, Unrevoked
  <2>11. ASSUME NEW s \in Tokens \ {t}, Unrevoked(s)'
         PROVE  token[s].session # session
    <3>1. s # old
      BY <2>6, <2>11 DEF Unrevoked
    <3>2. Unrevoked(s)
      BY <2>5, <2>11, <3>1 DEF Unrevoked
    <3>3. QED
      BY <2>1, <3>1, <3>2 DEF AccountsInv, OneLivePerSession
  <2>12. account' \in [Accounts -> AccountState] /\ Ends(r)
    BY <1>4 DEF Rotate, AccountsInv, TypeOK
  <2>13. QED
    BY <2>2, <2>7, <2>10, <2>11, <2>12, InsertAndEndKeeps
<1>5. QED
  BY <1>1, <1>2, <1>3, <1>4, RefreshKeeps DEF Session

\* A request that is in its bulk revocations.
LEMMA SweepingRequest ==
    ASSUME AccountsInv, NEW r \in Requests, Sweeping(r)
    PROVE  /\ req[r] \in Request /\ req[r] # None /\ req[r].at = "sweep" /\ RequestOK(r)
           /\ req[r].sweeps \in 0..2 /\ req[r].left \subseteq Tokens
           /\ req[r].swept \subseteq Tokens /\ req[r].existing \subseteq Tokens
BY DEF Sweeping, AccountsInv, TypeOK, Request

LEMMA SweepStartsKeeps ==
    ASSUME AccountsInv, NEW r \in Requests, SweepStarts(r)
    PROVE  AccountsInv'
<1> DEFINE left == TokensOf(req[r].account) \ req[r].swept
           x == [req[r] EXCEPT !.sweeps = @ - 1, !.left = left]
<1>1. /\ req[r] \in Request /\ req[r] # None /\ req[r].at = "sweep" /\ RequestOK(r)
      /\ req[r].sweeps \in 0..2 /\ req[r].sweeps > 0
      /\ req[r].swept \subseteq Tokens /\ req[r].existing \subseteq Tokens
  BY SweepingRequest DEF SweepStarts
<1>2. left \in SUBSET Tokens /\ req[r].sweeps - 1 \in 0..2
  BY <1>1 DEF TokensOf
<1>3. x \in Request
  <2>1. [req[r] EXCEPT !.sweeps = @ - 1] \in Request
    BY <1>1, <1>2 DEF Request
  <2>2. \A y \in Request : [y EXCEPT !.left = left] \in Request
    BY <1>2 DEF Request
  <2>3. QED
    BY <2>1, <2>2
<1>4. /\ x.op = req[r].op /\ x.at = req[r].at /\ x.account = req[r].account
      /\ x.token = req[r].token /\ x.swept = req[r].swept /\ x.existing = req[r].existing
      /\ x.wish = req[r].wish /\ x.others = req[r].others /\ x.left = left
  BY <1>1 DEF Request
<1>5. req' = [req EXCEPT ![r] = x] /\ req'[r] = x /\ token' = token /\ account' = account
  BY DEF SweepStarts, AccountsInv, TypeOK
<1>6. LocksFree(r)
  BY <1>1, <1>4, <1>5 DEF LocksFree, Holds
<1>7. \A t \in x.existing :
         /\ token[t] # None /\ token[t].owner = x.account
         /\ Unrevoked(t) => t \in x.swept \union x.left
  BY <1>1, <1>4 DEF RequestOK, TokensOf
<1>8. /\ \A t \in x.swept : Unrevoked(t)
      /\ \A t \in x.swept \union x.left : token[t] # None /\ token[t].owner = x.account
  BY <1>1, <1>4 DEF RequestOK, TokensOf, Unrevoked
<1>9. RequestOK(r)'
  BY <1>1, <1>4, <1>5, <1>7, <1>8 DEF RequestOK, Unrevoked
<1>10. QED
  BY <1>3, <1>5, <1>6, <1>9, QuietKeeps

LEMMA SweepTakesKeeps ==
    ASSUME AccountsInv, NEW r \in Requests, NEW t \in Tokens, SweepTakes(r, t)
    PROVE  AccountsInv'
<1> DEFINE left == req[r].left \ {t}
           swept == IF Unrevoked(t) THEN req[r].swept \union {t} ELSE req[r].swept
           x == [req[r] EXCEPT !.left = left, !.swept = swept]
<1>1. /\ req[r] \in Request /\ req[r] # None /\ req[r].at = "sweep" /\ RequestOK(r)
      /\ req[r].left \subseteq Tokens
      /\ req[r].swept \subseteq Tokens /\ req[r].existing \subseteq Tokens
      /\ ~ LockedByAnother(r, t)
  BY SweepingRequest DEF SweepTakes
<1>2. x \in Request
  <2>1. left \in SUBSET Tokens /\ swept \in SUBSET Tokens
    BY <1>1
  <2>2. \A y \in Request : [y EXCEPT !.left = left] \in Request /\ [y EXCEPT !.swept = swept] \in Request
    BY <2>1 DEF Request
  <2>3. QED
    BY <1>1, <2>2
<1>3. /\ x.op = req[r].op /\ x.at = req[r].at /\ x.account = req[r].account
      /\ x.token = req[r].token /\ x.existing = req[r].existing
      /\ x.wish = req[r].wish /\ x.others = req[r].others /\ x.sweeps = req[r].sweeps
      /\ x.left = left /\ x.swept = swept
  BY <1>1 DEF Request
<1>4. req' = [req EXCEPT ![r] = x] /\ req'[r] = x /\ token' = token /\ account' = account
  BY DEF SweepTakes, AccountsInv, TypeOK
<1>5. LocksFree(r)
  BY <1>1, <1>3, <1>4 DEF LocksFree, Holds
<1>6. /\ \A s \in x.swept : Unrevoked(s)
      /\ \A s \in x.swept \union x.left : token[s] # None /\ token[s].owner = x.account
  <2>1. t \in req[r].left
    BY DEF SweepTakes
  <2>2. QED
    BY <1>1, <1>3, <2>1 DEF RequestOK
<1>7. \A s \in x.existing :
         /\ token[s] # None /\ token[s].owner = x.account
         /\ Unrevoked(s) => s \in x.swept \union x.left \/ x.sweeps > 0
  BY <1>1, <1>3 DEF RequestOK
<1>8. RequestOK(r)'
  BY <1>1, <1>3, <1>4, <1>6, <1>7 DEF RequestOK, Unrevoked
<1>9. QED
  BY <1>2, <1>4, <1>5, <1>8, QuietKeeps

LEMMA SweepKeeps ==
    ASSUME AccountsInv, NEW r \in Requests, Sweep(r)
    PROVE  AccountsInv'
<1>1. ASSUME ReuseCommits(r)
      PROVE  AccountsInv'
  BY <1>1, SweepingRequest, SweptAreRevoked, EndKeeps
     DEF ReuseCommits, Swept, AccountsInv, TypeOK
<1>2. ASSUME PatchCommits(r)
      PROVE  AccountsInv'
  <2>1. RespectsLocks(r) /\ InsertsNothing
    BY <1>2, SweepingRequest, SweptAreRevoked DEF PatchCommits, Swept
  <2>2. req[r].account \in Accounts
    BY <1>2, SweepingRequest DEF PatchCommits, Swept, RequestOK
  <2>3. Patched(req[r].account, req[r].wish, req[r].was) \in AccountState
    BY <2>2 DEF Patched, AccountsInv, TypeOK, AccountState
  <2>4. account' \in [Accounts -> AccountState] /\ Ends(r)
    BY <1>2, <2>3 DEF PatchCommits, AccountsInv, TypeOK
  <2>5. QED
    BY <2>1, <2>4, EndKeeps
<1>3. ASSUME Aborts(r)
      PROVE  AccountsInv'
  BY <1>3, TableUntouched, EndKeeps DEF Aborts, AccountsInv, TypeOK
<1>4. ASSUME PasswordCommits(r)
      PROVE  AccountsInv'
  <2> DEFINE table == WithSweptRevoked(r)
             u == req[r].account
  <2>1. req[r] # None /\ u \in Accounts /\ req[r].swept \subseteq Tokens /\ RequestOK(r)
    BY <1>4, SweepingRequest DEF PasswordCommits, Swept, RequestOK
  <2>2. PICK t \in Tokens :
           Unused(t) /\ token' = [table EXCEPT ![t] = NewToken(t, u, t)]
    BY <1>4 DEF PasswordCommits
  <2>3. token[t] = None /\ t \notin req[r].swept
    BY <2>1, <2>2 DEF Unused, RequestOK, Unrevoked
  <2>4. NewToken(t, u, t) \in TokenRow
    BY <2>1 DEF NewToken, TokenRow
  <2>5. /\ token'[t] = NewToken(t, u, t)
        /\ \A s \in Tokens \ {t} : token'[s] = table[s]
        /\ DOMAIN table = Tokens
    BY <2>2 DEF WithSweptRevoked
  <2>6. /\ \A s \in req[r].swept : /\ token[s] \in TokenRow
                                   /\ token'[s] = [token[s] EXCEPT !.state = "revoked"]
        /\ \A s \in Tokens \ ({t} \union req[r].swept) : token'[s] = token[s]
    <3>1. \A s \in req[r].swept : token[s] \in TokenRow
      BY <2>1 DEF RequestOK, Unrevoked, AccountsInv, TypeOK
    <3>2. \A s \in req[r].swept : token'[s] = [token[s] EXCEPT !.state = "revoked"]
      BY <2>1, <2>3, <2>5 DEF WithSweptRevoked
    <3>3. \A s \in Tokens \ ({t} \union req[r].swept) : token'[s] = token[s]
      BY <2>5 DEF WithSweptRevoked
    <3>4. QED
      BY <3>1, <3>2, <3>3
  <2>7. \A s \in req[r].swept :
           /\ token'[s] \in TokenRow
           /\ token'[s].owner = token[s].owner /\ token'[s].session = token[s].session
           /\ token'[s].state = "revoked"
    BY <2>6 DEF TokenRow
  <2>8. token' \in [Tokens -> TokenRow \union {None}]
    <3>1. \A s \in Tokens : token'[s] \in TokenRow \union {None}
      BY <2>4, <2>5, <2>6, <2>7 DEF AccountsInv, TypeOK
    <3>2. DOMAIN token' = Tokens /\ token' = [s \in Tokens |-> token'[s]]
      BY <2>2 DEF WithSweptRevoked
    <3>3. QED
      BY <3>1, <3>2
  <2>9. \A s \in req[r].swept : \A q \in Requests \ {r} : ~ Holds(q, s)
    BY <2>1 DEF AccountsInv, LocksExclude, Holds
  <2>10. RespectsLocks(r)
    BY <2>1, <2>3, <2>6, <2>7, <2>8, <2>9, NoneAssumption DEF RespectsLocks, Unrevoked
  <2>11. Inserts(t, u, t)
    <3>1. \A s \in Tokens \ {t} : token[s] = None => token'[s] = None
      BY <2>1, <2>6 DEF RequestOK, Unrevoked
    <3>2. QED
      BY <2>2, <2>5, <3>1 DEF Inserts
  <2>12. \A s \in Tokens \ {t} : Unrevoked(s)' => token[s].session # t
    <3>1. \A s \in Tokens \ {t} : Unrevoked(s)' => token[s] # None
      BY <2>1, <2>6 DEF RequestOK, Unrevoked
    <3>2. QED
      BY <2>3, <3>1, FreshIsAlone
  <2>13. account' \in [Accounts -> AccountState] /\ Ends(r)
    BY <1>4 DEF PasswordCommits, AccountsInv, TypeOK
  <2>14. QED
    BY <2>1, <2>10, <2>11, <2>12, <2>13, InsertAndEndKeeps
<1>5. QED
  BY <1>1, <1>2, <1>3, <1>4, SweepStartsKeeps, SweepTakesKeeps DEF Sweep

LEMMA ChangePasswordKeeps ==
    ASSUME AccountsInv, NEW r \in Requests, ChangePassword(r)
    PROVE  AccountsInv'
<1> DEFINE u == req[r].account
           x == [Open("password", "sweep") EXCEPT
                   !.account = u, !.sweeps = 1, !.existing = TokensOf(u)]
<1>1. CASE Ends(r)
  BY <1>1, TableUntouched, EndKeeps DEF ChangePassword, AccountsInv, TypeOK
<1>2. CASE req' = [req EXCEPT ![r] = x]
  <2>1. u \in Accounts
    BY DEF ChangePassword, Under, AccountsInv, RequestOK
  <2>2. x \in Request
    <3>1. Open("password", "sweep") \in Request /\ TokensOf(u) \in SUBSET Tokens
      BY DEF Open, Request, TokensOf, AccountState
    <3>2. \A y \in Request : [y EXCEPT !.account = u] \in Request /\ [y EXCEPT !.sweeps = 1] \in Request
      BY <2>1 DEF Request
    <3>3. \A y \in Request : [y EXCEPT !.existing = TokensOf(u)] \in Request
      BY <3>1 DEF Request
    <3>4. QED
      BY <3>1, <3>2, <3>3
  <2>3. req'[r] = x /\ token' = token /\ account' = account
    BY <1>2 DEF ChangePassword, AccountsInv, TypeOK
  <2>4. LocksFree(r)
    BY <2>3 DEF LocksFree, Holds, Open
  <2>5. RequestOK(r)'
    BY <2>1, <2>3 DEF RequestOK, Open, TokensOf, Unrevoked
  <2>6. QED
    BY <1>2, <2>2, <2>3, <2>4, <2>5, QuietKeeps
<1>3. QED
  BY <1>1, <1>2 DEF ChangePassword

LEMMA PatchReadsKeeps ==
    ASSUME AccountsInv, NEW r \in Requests, NEW u \in Accounts,
           NEW wish \in {"activate", "deactivate", "leave"}, NEW password \in BOOLEAN,
           PatchReads(r, u, wish, password)
    PROVE  AccountsInv'
<1> DEFINE at == IF wish = "deactivate" THEN "count" ELSE "sweep"
           sweeps == (IF password THEN 1 ELSE 0) + (IF wish = "deactivate" THEN 1 ELSE 0)
           existing == ToBeEnded(u, wish, password)
           x == [Open("patch", at) EXCEPT
                   !.account = u, !.wish = wish, !.was = account[u],
                   !.sweeps = sweeps, !.existing = existing]
<1>1. /\ Open("patch", at) \in Request
      /\ existing \in SUBSET Tokens /\ sweeps \in 0..2
      /\ account[u] \in AccountState
  BY DEF Open, Request, ToBeEnded, TokensOf, AccountsInv, TypeOK, AccountState
<1>2. x \in Request
  <2>1. \A y \in Request : /\ [y EXCEPT !.account = u] \in Request
                           /\ [y EXCEPT !.wish = wish] \in Request
                           /\ [y EXCEPT !.was = account[u]] \in Request
    BY <1>1 DEF Request
  <2>2. \A y \in Request : /\ [y EXCEPT !.sweeps = sweeps] \in Request
                           /\ [y EXCEPT !.existing = existing] \in Request
    BY <1>1 DEF Request
  <2>3. QED
    BY <1>1, <2>1, <2>2
<1>3. /\ x.op = "patch" /\ x.at = at /\ x.account = u /\ x.token = None /\ x.swept = {}
      /\ x.left = {} /\ x.sweeps = sweeps /\ x.existing = existing /\ x.wish = wish
  BY DEF Open
<1>4. req' = [req EXCEPT ![r] = x] /\ req'[r] = x /\ token' = token /\ account' = account
  BY DEF PatchReads, AccountsInv, TypeOK
<1>5. LocksFree(r)
  BY <1>3, <1>4 DEF LocksFree, Holds
<1>6. \A t \in existing : token[t] # None /\ token[t].owner = u /\ sweeps > 0
  BY DEF ToBeEnded, TokensOf, Unrevoked
<1>7. RequestOK(r)'
  <2>1. wish = "deactivate" => x.at # "sweep"
    BY <1>3
  <2>2. \A t \in x.existing : token[t] # None /\ token[t].owner = x.account /\ x.sweeps > 0
    BY <1>3, <1>6
  <2>3. QED
    BY <1>3, <1>4, <2>1, <2>2 DEF RequestOK, Unrevoked
<1>8. QED
  BY <1>2, <1>4, <1>5, <1>7, QuietKeeps

LEMMA PatchCountsKeeps ==
    ASSUME AccountsInv, NEW r \in Requests, PatchCounts(r)
    PROVE  AccountsInv'
<1> DEFINE others == ActiveTeam \ {req[r].account}
           x == [req[r] EXCEPT !.at = "sweep", !.others = others]
<1>1. CASE Ends(r)
  BY <1>1, TableUntouched, EndKeeps DEF PatchCounts, AccountsInv, TypeOK
<1>2. CASE others # {} /\ req' = [req EXCEPT ![r] = x]
  <2>1. /\ req[r] \in Request /\ req[r] # None /\ RequestOK(r)
        /\ req[r].op = "patch" /\ req[r].at = "count"
    BY DEF PatchCounts, Under, AccountsInv, TypeOK
  <2>2. others \in SUBSET Accounts
    BY DEF ActiveTeam
  <2>3. x \in Request
    <3>1. \A y \in Request : [y EXCEPT !.at = "sweep"] \in Request /\ [y EXCEPT !.others = others] \in Request
      BY <2>2 DEF Request
    <3>2. QED
      BY <2>1, <3>1
  <2>4. /\ x.op = "patch" /\ x.at = "sweep" /\ x.account = req[r].account
        /\ x.token = req[r].token /\ x.swept = req[r].swept /\ x.existing = req[r].existing
        /\ x.left = req[r].left /\ x.sweeps = req[r].sweeps /\ x.others = others
    BY <2>1 DEF Request
  <2>5. req'[r] = x /\ token' = token /\ account' = account
    BY <1>2 DEF PatchCounts, AccountsInv, TypeOK
  <2>6. LocksFree(r)
    BY <2>1, <2>4, <2>5 DEF LocksFree, Holds
  <2>7. RequestOK(r)'
    BY <1>2, <2>1, <2>4, <2>5 DEF RequestOK, Unrevoked
  <2>8. QED
    BY <1>2, <2>3, <2>5, <2>6, <2>7, QuietKeeps
<1>3. QED
  BY <1>1, <1>2 DEF PatchCounts

LEMMA TeamKeeps ==
    ASSUME AccountsInv, NEW r \in Requests, Team(r)
    PROVE  AccountsInv'
<1>1. ASSUME NEW p \in Accounts \union {Key}, Authenticate(r, p)
      PROVE  AccountsInv'
  <2> DEFINE x == [Open("any", "admitted") EXCEPT !.account = p]
  <2>1. x \in Request
    BY DEF Open, Request, AccountState
  <2>2. QED
    BY <1>1, <2>1, LocklessKeeps DEF Authenticate, Open
<1>2. ASSUME Answers(r)
      PROVE  AccountsInv'
  BY <1>2, TableUntouched, EndKeeps DEF Answers, AccountsInv, TypeOK
<1>3. ASSUME NEW u \in Accounts, CreateResponder(r, u)
      PROVE  AccountsInv'
  <2> DEFINE x == [Open("create", "insert") EXCEPT !.account = u]
  <2>1. x \in Request
    BY DEF Open, Request, AccountState
  <2>2. QED
    BY <1>3, <2>1, LocklessKeeps DEF CreateResponder, Open
<1>4. ASSUME CreateInserts(r)
      PROVE  AccountsInv'
  BY <1>4, TableUntouched, EndKeeps DEF CreateInserts, AccountsInv, TypeOK, AccountState
<1>5. QED
  BY <1>1, <1>2, <1>3, <1>4, ChangePasswordKeeps, PatchReadsKeeps, PatchCountsKeeps DEF Team

LEMMA ExpireKeeps ==
    ASSUME AccountsInv, NEW t \in Tokens, Expire(t)
    PROVE  AccountsInv'
<1>1. token[t] \in TokenRow
  BY DEF Expire, AccountsInv, TypeOK
<1>2. /\ token'[t] \in TokenRow
      /\ token'[t].owner = token[t].owner /\ token'[t].session = token[t].session
      /\ token'[t].state = "expired" /\ Unrevoked(t)
      /\ \A s \in Tokens \ {t} : token'[s] = token[s]
  BY <1>1 DEF Expire, TokenRow, Unrevoked, AccountsInv, TypeOK
<1>3. /\ token' \in [Tokens -> TokenRow \union {None}]
      /\ \A s \in Tokens : token'[s] = None <=> token[s] = None
  BY <1>2, NoneAssumption DEF Expire, AccountsInv, TypeOK
<1>4. \A s \in Tokens : Unrevoked(s)' <=> Unrevoked(s)
  BY <1>2, <1>3 DEF Unrevoked
<1>5. \A r \in Requests : RespectsLocks(r) /\ InsertsNothing /\ OnlyOf(r) /\ LocksFree(r)
  BY <1>2, <1>3, <1>4
     DEF RespectsLocks, InsertsNothing, OnlyOf, LocksFree, Holds, Expire, AccountsInv, TypeOK
<1>6. ASSUME NEW r \in Requests
      PROVE  RequestOK(r)'
  <2>1. req'[r] = req[r] /\ RequestOK(r) /\ req[r] \in Request \union {None}
    BY DEF Expire, AccountsInv, TypeOK
  <2>2. \A s \in Tokens : token[s] # None => token'[s].owner = token[s].owner
    BY <1>2
  <2>3. ASSUME req[r] # None
        PROVE  /\ req[r].swept \subseteq Tokens /\ req[r].left \subseteq Tokens
               /\ req[r].existing \subseteq Tokens
    BY <2>1, <2>3 DEF Request
  <2>4. \A s \in Tokens : token[s] # None => token'[s] # None
    BY <1>3
  <2>5. QED
    BY <1>4, <2>1, <2>2, <2>3, <2>4 DEF RequestOK, Unrevoked
<1>7. SessionsAreRooted' /\ OneLivePerSession'
  <2>1. \A s \in Tokens : token[s] # None => /\ token'[s].session = token[s].session
                                             /\ token'[s].owner = token[s].owner
    BY <1>2
  <2>2. \A s \in Tokens : token[s] # None => token[s].session \in Tokens
    BY DEF AccountsInv, TypeOK, TokenRow
  <2>3. QED
    BY <1>3, <1>4, <2>1, <2>2 DEF SessionsAreRooted, OneLivePerSession, AccountsInv, Unrevoked
<1>8. account' = account /\ req' = req
  BY DEF Expire
<1>9. LocksExclude'
  BY <1>8 DEF LocksExclude, Holds, AccountsInv
<1>10. TypeOK'
  BY <1>3, <1>8 DEF AccountsInv, TypeOK
<1>11. QED
  BY <1>6, <1>7, <1>9, <1>10 DEF AccountsInv

-----------------------------------------------------------------------------
(* The invariant                                                           *)

LEMMA InitInv == Init => AccountsInv
<1> SUFFICES ASSUME Init
             PROVE  AccountsInv
  OBVIOUS
<1>1. TypeOK
  BY DEF Init, TypeOK, AccountState
<1>2. \A t \in Tokens : token[t] = None
  BY DEF Init
<1>3. \A r \in Requests : req[r] = None
  BY DEF Init
<1>4. QED
  BY <1>1, <1>2, <1>3
     DEF AccountsInv, RequestOK, LocksExclude, Holds, SessionsAreRooted,
         OneLivePerSession, Unrevoked

LEMMA NextInv == AccountsInv /\ [Next]_vars => AccountsInv'
<1> SUFFICES ASSUME AccountsInv, [Next]_vars
             PROVE  AccountsInv'
  OBVIOUS
<1>1. CASE Next
  BY <1>1, SignsInKeeps, SessionKeeps, SweepKeeps, TeamKeeps, ExpireKeeps DEF Next
<1>2. CASE UNCHANGED vars
  BY <1>2 DEF vars, AccountsInv, TypeOK, RequestOK, LocksExclude, Holds,
              SessionsAreRooted, OneLivePerSession, Unrevoked
<1>3. QED
  BY <1>1, <1>2

\* However the requests interleave, the locks, the revocations in progress and
\* the rotation chains fit together.
THEOREM AccountsInvariance == Spec => []AccountsInv
<1>1. QED
  BY InitInv, NextInv, PTL DEF Spec

\* The variables keep their types.
THEOREM AccountsTyping == Spec => []TypeOK
<1>1. AccountsInv => TypeOK
  BY DEF AccountsInv
<1>2. QED
  BY <1>1, AccountsInvariance, PTL

\* Of the tokens that descend from one login at most one is unrevoked.
THEOREM RotationIsLinear == Spec => []OneLivePerSession
<1>1. AccountsInv => OneLivePerSession
  BY DEF AccountsInv
<1>2. QED
  BY <1>1, AccountsInvariance, PTL

-----------------------------------------------------------------------------
(* What a step may never do                                                *)

\* A token is never revived, and a new one begins a session or goes on with
\* one that is not over.
SessionsGoOn ==
    /\ \A t \in Tokens :
          token[t] # None => /\ token'[t] # None
                             /\ token'[t].session = token[t].session
                             /\ Unrevoked(t)' => Unrevoked(t)
    /\ \A t \in Tokens :
          token[t] = None /\ token'[t] # None =>
             \/ token'[t].session = t
             \/ \E s \in Tokens : Unrevoked(s) /\ token[s].session = token'[t].session

LEMMA GoingOn ==
    ASSUME AccountsInv, NEW r \in Requests, RespectsLocks(r), InsertsNothing
    PROVE  SessionsGoOn
BY DEF RespectsLocks, InsertsNothing, SessionsGoOn


\* Every token that a step inserts begins a session.
LEMMA Beginning ==
    ASSUME AccountsInv, NEW u, NEW t \in Tokens, token[t] = None,
           token' = [token EXCEPT ![t] = NewToken(t, u, t)]
    PROVE  SessionsGoOn
BY DEF SessionsGoOn, NewToken, Unrevoked, AccountsInv, TypeOK

LEMMA StepGoesOn == AccountsInv /\ [Next]_vars => SessionsGoOn
<1> SUFFICES ASSUME AccountsInv, [Next]_vars
             PROVE  SessionsGoOn
  OBVIOUS
<1>1. CASE token' = token
  BY <1>1 DEF SessionsGoOn, Unrevoked
<1>2. ASSUME NEW r \in Requests, RegisterInserts(r) \/ LoginInserts(r), token' # token
      PROVE  SessionsGoOn
  BY <1>2, Beginning DEF RegisterInserts, LoginInserts, Unused
<1>3. ASSUME NEW r \in Requests, NEW t \in Tokens, RefreshExpired(r, t)
      PROVE  SessionsGoOn
  BY <1>3, OneIsRevoked, GoingOn DEF RefreshExpired
<1>4. ASSUME NEW r \in Requests, LogoutWrites(r)
      PROVE  SessionsGoOn
  <2>1. req[r].token \in Tokens /\ token[req[r].token] # None
    BY <1>4 DEF LogoutWrites, Under, AccountsInv, RequestOK
  <2>2. QED
    BY <1>4, <2>1, OneIsRevoked, GoingOn DEF LogoutWrites
<1>5. ASSUME NEW r \in Requests, ReuseCommits(r) \/ PatchCommits(r)
      PROVE  SessionsGoOn
  BY <1>5, SweepingRequest, SweptAreRevoked, GoingOn DEF ReuseCommits, PatchCommits, Swept
<1>6. ASSUME NEW r \in Requests, Rotate(r)
      PROVE  SessionsGoOn
  <2> DEFINE old == req[r].token
             session == token[old].session
  <2>1. old \in Tokens /\ Unrevoked(old) /\ token[old] \in TokenRow
    BY <1>6 DEF Rotate, Under, AccountsInv, TypeOK, RequestOK, Unrevoked
  <2>2. PICK t \in Tokens :
           /\ Unused(t)
           /\ token' = [token EXCEPT ![old].state = "revoked",
                                     ![t] = NewToken(t, req[r].account, session)]
    BY <1>6 DEF Rotate
  <2>3. token[t] = None /\ t # old
    BY <2>1, <2>2 DEF Unused, Unrevoked
  <2>4. /\ token'[t] = NewToken(t, req[r].account, session)
        /\ token'[old] = [token[old] EXCEPT !.state = "revoked"]
        /\ \A s \in Tokens \ {t, old} : token'[s] = token[s]
    BY <2>1, <2>2, <2>3 DEF AccountsInv, TypeOK
  <2>5. /\ token'[t].session = session
        /\ token'[old] \in TokenRow /\ token'[old].session = session
        /\ token'[old].state = "revoked"
    BY <2>1, <2>4 DEF TokenRow, NewToken
  <2>6. QED
    BY <2>1, <2>3, <2>4, <2>5, NoneAssumption DEF SessionsGoOn, Unrevoked
<1>7. ASSUME NEW r \in Requests, PasswordCommits(r)
      PROVE  SessionsGoOn
  <2> DEFINE table == WithSweptRevoked(r)
  <2>1. req[r].swept \subseteq Tokens /\ RequestOK(r) /\ req[r] # None
    BY <1>7, SweepingRequest DEF PasswordCommits, Swept
  <2>2. PICK t \in Tokens :
           Unused(t) /\ token' = [table EXCEPT ![t] = NewToken(t, req[r].account, t)]
    BY <1>7 DEF PasswordCommits
  <2>3. token[t] = None /\ token'[t].session = t
    BY <2>2 DEF Unused, NewToken, WithSweptRevoked
  <2>4. \A s \in Tokens \ ({t} \union req[r].swept) : token'[s] = token[s]
    BY <2>2 DEF WithSweptRevoked
  <2>5. \A s \in req[r].swept :
           /\ s # t /\ token[s] \in TokenRow
           /\ token'[s] = [token[s] EXCEPT !.state = "revoked"]
    BY <2>1, <2>2, <2>3 DEF WithSweptRevoked, RequestOK, Unrevoked, AccountsInv, TypeOK
  <2>6. \A s \in req[r].swept :
           /\ token'[s] \in TokenRow /\ token'[s].session = token[s].session
           /\ token'[s].state = "revoked"
    BY <2>5 DEF TokenRow
  <2>7. QED
    BY <2>3, <2>4, <2>5, <2>6, NoneAssumption DEF SessionsGoOn, Unrevoked
<1>8. ASSUME NEW t \in Tokens, Expire(t)
      PROVE  SessionsGoOn
  <2>1. token[t] \in TokenRow /\ Unrevoked(t)
    BY <1>8 DEF Expire, Unrevoked, AccountsInv, TypeOK
  <2>2. /\ token'[t] \in TokenRow /\ token'[t].session = token[t].session
        /\ \A s \in Tokens \ {t} : token'[s] = token[s]
    BY <1>8, <2>1 DEF Expire, TokenRow, AccountsInv, TypeOK
  <2>3. QED
    BY <2>1, <2>2, NoneAssumption DEF SessionsGoOn, Unrevoked
<1>9. CASE Next
  <2>1. ASSUME NEW r \in Requests, SignsIn(r)
        PROVE  SessionsGoOn
    BY <1>1, <1>2, <2>1 DEF SignsIn, Register, Login
  <2>2. ASSUME NEW r \in Requests, Session(r)
        PROVE  SessionsGoOn
    BY <1>1, <1>3, <1>4, <1>6, <2>2
       DEF Session, RefreshValid, RefreshReused, Logout, RefreshLoads
  <2>3. ASSUME NEW r \in Requests, Sweep(r)
        PROVE  SessionsGoOn
    BY <1>1, <1>5, <1>7, <2>3 DEF Sweep, SweepStarts, SweepTakes, Aborts
  <2>4. ASSUME NEW r \in Requests, Team(r)
        PROVE  SessionsGoOn
    BY <1>1, <2>4 DEF Team, Authenticate, Answers, ChangePassword, CreateResponder,
                      CreateInserts, PatchReads, PatchCounts
  <2>5. QED
    BY <1>8, <1>9, <2>1, <2>2, <2>3, <2>4 DEF Next
<1>10. QED
  BY <1>1, <1>9 DEF vars

\* A session that is over stays over: no refresh that was under way when its
\* last token was revoked brings it back.
THEOREM OverIsOver == Spec => EndedStaysEnded
<1>1. AccountsInv /\ [Next]_vars => [\A t \in Tokens : Ended(t) => Ended(t)']_vars
  <2> SUFFICES ASSUME AccountsInv, [Next]_vars, NEW t \in Tokens, Ended(t)
               PROVE  Ended(t)'
    OBVIOUS
  <2>1. SessionsGoOn
    BY StepGoesOn
  <2>2. token'[t] # None
    BY <2>1 DEF Ended, SessionsGoOn
  <2>3. ASSUME NEW s \in Tokens, Unrevoked(s)'
        PROVE  token'[s].session # t
    <3>1. CASE token[s] # None
      BY <2>1, <2>3, <3>1 DEF Ended, SessionsGoOn
    <3>2. CASE token[s] = None
      <4>1. \/ token'[s].session = s
            \/ \E old \in Tokens : Unrevoked(old) /\ token[old].session = token'[s].session
        BY <2>1, <2>3, <3>2 DEF SessionsGoOn, Unrevoked
      <4>2. QED
        BY <3>2, <4>1 DEF Ended
    <3>3. QED
      BY <3>1, <3>2
  <2>4. QED
    BY <2>2, <2>3 DEF Ended
<1>2. QED
  BY <1>1, AccountsInvariance, PTL DEF Spec, EndedStaysEnded


\* A logout that finds its token as it read it ends the session: the token was
\* the only one that lived.
THEOREM LogoutIsFinal == Spec => LogoutEndsTheSession
<1>1. AccountsInv /\ [Next]_vars =>
        [\A r \in Requests :
            Under(r, "logout", "write") /\ Unrevoked(req[r].token) /\ LogoutWrites(r) =>
               \A s \in Tokens : token[req[r].token].session = s => Ended(s)']_vars
  <2> SUFFICES ASSUME AccountsInv, NEW r \in Requests, NEW s \in Tokens,
                      Under(r, "logout", "write"), Unrevoked(req[r].token),
                      LogoutWrites(r), token[req[r].token].session = s
               PROVE  Ended(s)'
    OBVIOUS
  <2> DEFINE t == req[r].token
  <2>1. /\ t \in Tokens /\ token[t] # None
        /\ token' = [token EXCEPT ![t].state = "revoked"]
    BY DEF AccountsInv, RequestOK, Under, LogoutWrites
  <2>2. \A x \in Tokens : token[x] # None =>
           token[x] \in TokenRow /\ token[x] = [owner |-> token[x].owner,
                                   state |-> token[x].state, session |-> token[x].session]
    BY DEF AccountsInv, TypeOK, TokenRow
  <2>3. /\ \A x \in Tokens \ {t} : token'[x] = token[x]
        /\ token'[t] = [token[t] EXCEPT !.state = "revoked"]
    BY <2>1 DEF AccountsInv, TypeOK
  <2>4. token'[t].state = "revoked"
    <3>1. token[t] \in TokenRow
      BY <2>1, <2>2
    <3>2. [token[t] EXCEPT !.state = "revoked"].state = "revoked"
      BY <3>1 DEF TokenRow
    <3>3. QED
      BY <2>3, <3>2
  <2>5. token'[s] # None
    <3>1. token[s] # None
      BY <2>1 DEF AccountsInv, SessionsAreRooted
    <3>2. token'[t] \in TokenRow
      <4>1. token[t] \in TokenRow
        BY <2>1, <2>2
      <4>2. QED
        BY <2>3, <4>1 DEF TokenRow
    <3>3. QED
      BY <2>3, <3>1, <3>2, NoneAssumption
  <2>6. ASSUME NEW x \in Tokens, Unrevoked(x)'
        PROVE  token'[x].session # s
    <3>1. x # t
      BY <2>4, <2>6 DEF Unrevoked
    <3>2. Unrevoked(x) /\ token'[x] = token[x]
      BY <2>3, <2>6, <3>1 DEF Unrevoked
    <3>3. QED
      BY <2>1, <3>1, <3>2 DEF AccountsInv, OneLivePerSession
  <2>7. QED
    BY <2>5, <2>6 DEF Ended
<1>2. QED
  BY <1>1, AccountsInvariance, PTL DEF Spec, LogoutEndsTheSession


\* A request leaves its bulk revocations by its commit only.
LEMMA SweptThenCommits ==
    ASSUME AccountsInv, Next, NEW r \in Requests, Swept(r), ~ Sweeping(r)'
    PROVE  ReuseCommits(r) \/ PatchCommits(r) \/ PasswordCommits(r)
<1>1. /\ req[r] # None /\ req[r].at = "sweep" /\ req[r].left = {} /\ req[r].sweeps = 0
      /\ req' # req /\ req'[r] # req[r]
  BY SweepingRequest DEF Swept, Sweeping
<1>2. \A q \in Requests \ {r} : \A x : req' # [req EXCEPT ![q] = x]
  BY <1>1 DEF AccountsInv, TypeOK
<1>3. ASSUME NEW q \in Requests, SignsIn(q)
      PROVE  FALSE
  BY <1>1, <1>2, <1>3 DEF SignsIn, Register, RegisterInserts, Login, LoginInserts, Under, Ends
<1>4. ASSUME NEW q \in Requests, Session(q)
      PROVE  FALSE
  <2>1. \A t \in Tokens : ~ RefreshValid(q, t) /\ ~ RefreshExpired(q, t)
    BY <1>1, <1>2 DEF RefreshValid, RefreshExpired
  <2>2. \A t \in Tokens : ~ RefreshReused(q, t) /\ ~ Logout(q, t)
    BY <1>1, <1>2 DEF RefreshReused, Logout
  <2>3. ~ RefreshLoads(q) /\ ~ Rotate(q) /\ ~ LogoutWrites(q)
    BY <1>1, <1>2 DEF RefreshLoads, Rotate, LogoutWrites, Under, Ends
  <2>4. QED
    BY <1>4, <2>1, <2>2, <2>3 DEF Session
<1>5. ASSUME NEW q \in Requests, Team(q)
      PROVE  FALSE
  <2>1. CASE q = r
    BY <1>1, <1>5, <2>1 DEF Team, Authenticate, Answers, ChangePassword, CreateResponder,
                            CreateInserts, PatchReads, PatchCounts, ByResponder, Under
  <2>2. ASSUME NEW x, req' = [req EXCEPT ![q] = x], q # r
        PROVE  FALSE
    BY <1>2, <2>2
  <2>3. CASE q # r
    <3>1. ~ \E p \in Accounts \union {Key} : Authenticate(q, p)
      BY <2>2, <2>3 DEF Authenticate
    <3>2. ~ Answers(q) /\ ~ CreateInserts(q)
      BY <2>2, <2>3 DEF Answers, CreateInserts, Ends
    <3>3. ~ ChangePassword(q)
      BY <2>2, <2>3 DEF ChangePassword, Ends
    <3>4. ~ \E u \in Accounts : CreateResponder(q, u)
      BY <2>2, <2>3 DEF CreateResponder
    <3>5. ~ \E u \in Accounts, wish \in {"activate", "deactivate", "leave"},
               password \in BOOLEAN : PatchReads(q, u, wish, password)
      BY <2>2, <2>3 DEF PatchReads
    <3>6. ~ PatchCounts(q)
      BY <1>1, <2>3 DEF PatchCounts, Ends, AccountsInv, TypeOK
    <3>7. QED
      BY <1>5, <3>1, <3>2, <3>3, <3>4, <3>5, <3>6 DEF Team
  <2>4. QED
    BY <2>1, <2>3
<1>6. ASSUME NEW t \in Tokens, Expire(t)
      PROVE  FALSE
  BY <1>1, <1>6 DEF Expire
<1>7. ASSUME NEW q \in Requests, Sweep(q)
      PROVE  ReuseCommits(r) \/ PatchCommits(r) \/ PasswordCommits(r)
  <2>1. q = r
    <3> SUFFICES ASSUME q # r
                 PROVE  FALSE
      OBVIOUS
    <3>1. ~ SweepStarts(q) /\ \A t \in Tokens : ~ SweepTakes(q, t)
      BY <1>1 DEF SweepStarts, SweepTakes, AccountsInv, TypeOK
    <3>2. ~ Ends(q)
      BY <1>2 DEF Ends
    <3>3. QED
      BY <1>7, <3>1, <3>2 DEF Sweep, ReuseCommits, PasswordCommits, PatchCommits, Aborts
  <2>2. ~ SweepStarts(r) /\ \A t \in Tokens : ~ SweepTakes(r, t)
    BY <1>1 DEF SweepStarts, SweepTakes
  <2>3. ~ Aborts(r)
    BY <1>1 DEF Aborts, Awaits
  <2>4. QED
    BY <1>7, <2>1, <2>2, <2>3 DEF Sweep
<1>8. QED
  BY <1>3, <1>4, <1>5, <1>6, <1>7 DEF Next

\* Whoever commits a bulk revocation has revoked all that it was to end.
THEOREM RevocationIsComplete == Spec => ExistingTokensAreRevoked
<1> DEFINE Complete == \A r \in Requests :
                          Swept(r) /\ ~ Sweeping(r)' => \A t \in req[r].existing : ~ Unrevoked(t)'
<1>1. AccountsInv /\ [Next]_vars => [Complete]_vars
  <2> SUFFICES ASSUME AccountsInv, Next, NEW r \in Requests, Swept(r), ~ Sweeping(r)',
                      NEW t \in req[r].existing
               PROVE  ~ Unrevoked(t)'
    OBVIOUS
  <2>1. /\ req[r] \in Request /\ req[r] # None /\ RequestOK(r)
        /\ req[r].left = {} /\ req[r].sweeps = 0
        /\ t \in Tokens /\ req[r].swept \subseteq Tokens
    BY SweepingRequest DEF Swept
  <2>2. token[t] # None /\ (Unrevoked(t) => t \in req[r].swept)
    BY <2>1 DEF RequestOK
  <2>3. CASE ~ Unrevoked(t)
    BY <2>1, <2>2, <2>3, StepGoesOn DEF SessionsGoOn
  <2>4. CASE t \in req[r].swept /\ token' = WithSweptRevoked(r)
    BY <2>1, <2>4, SweptAreRevoked
  <2>5. CASE t \in req[r].swept /\ PasswordCommits(r)
    <3>1. PICK n \in Tokens :
             /\ Unused(n)
             /\ token' = [WithSweptRevoked(r) EXCEPT ![n] = NewToken(n, req[r].account, n)]
      BY <2>5 DEF PasswordCommits
    <3>2. n # t
      BY <2>2, <3>1 DEF Unused
    <3>3. token'[t] = [token[t] EXCEPT !.state = "revoked"] /\ token[t] \in TokenRow
      BY <2>1, <2>2, <2>5, <3>1, <3>2 DEF WithSweptRevoked, AccountsInv, TypeOK
    <3>4. QED
      BY <3>3 DEF Unrevoked, TokenRow
  <2>6. QED
    BY <2>2, <2>3, <2>4, <2>5, SweptThenCommits DEF ReuseCommits, PatchCommits
<1>2. QED
  BY <1>1, AccountsInvariance, PTL DEF Spec, ExistingTokensAreRevoked

\* A deactivation that meets no other leaves an active responder.
THEOREM OnlyARaceLosesTheTeam == Spec => TeamIsLostOnlyInARace
<1> DEFINE Raced == ActiveTeam # {} /\ ActiveTeam' = {} =>
                       \E r \in Requests : /\ Under(r, "patch", "sweep")
                                           /\ req'[r] = None
                                           /\ req[r].others # {}
<1>1. AccountsInv /\ [Next]_vars => [Raced]_vars
  <2> SUFFICES ASSUME AccountsInv, Next, ActiveTeam # {}, ActiveTeam' = {}
               PROVE  \E r \in Requests : /\ Under(r, "patch", "sweep")
                                          /\ req'[r] = None
                                          /\ req[r].others # {}
    OBVIOUS
  <2>1. PICK u \in Accounts : account[u] = "active" /\ account'[u] # "active"
    BY DEF ActiveTeam
  <2>2. u \in Accounts
    BY AccountAssumption
  <2>3. ASSUME NEW r \in Requests, ~ PatchCommits(r)
        PROVE  ~ (SignsIn(r) \/ Session(r) \/ Sweep(r) \/ Team(r))
    <3>1. account' # account
      BY <2>1
    <3>2. ~ RegisterInserts(r)
      BY <2>1, <2>2 DEF RegisterInserts, AccountsInv, TypeOK
    <3>3. ~ CreateInserts(r)
      BY <2>1, <2>2 DEF CreateInserts, AccountsInv, TypeOK
    <3>4. ~ SignsIn(r)
      BY <3>1, <3>2 DEF SignsIn, Register, Login, LoginInserts
    <3>5. ~ Session(r)
      BY <3>1 DEF Session, RefreshValid, RefreshExpired, RefreshReused, Logout, RefreshLoads,
                  Rotate, LogoutWrites
    <3>6. ~ Sweep(r)
      BY <2>3, <3>1 DEF Sweep, SweepStarts, SweepTakes, ReuseCommits, PasswordCommits, Aborts
    <3>7. ~ Team(r)
      BY <3>1, <3>3 DEF Team, Authenticate, Answers, ChangePassword, CreateResponder,
                        PatchReads, PatchCounts
    <3>8. QED
      BY <3>4, <3>5, <3>6, <3>7
  <2>4. PICK r \in Requests : PatchCommits(r)
    BY <2>1, <2>3 DEF Next, Expire
  <2>5. /\ req[r] # None /\ req[r].at = "sweep" /\ req[r].op = "patch" /\ RequestOK(r)
    BY <2>4, SweepingRequest DEF PatchCommits, Swept
  <2>6. u = req[r].account /\ Patched(u, req[r].wish, req[r].was) # "active"
    BY <2>1, <2>2, <2>4 DEF PatchCommits, AccountsInv, TypeOK
  <2>7. req[r].wish = "deactivate"
    BY <2>1, <2>6 DEF Patched
  <2>8. req'[r] = None
    BY <2>4 DEF PatchCommits, Ends, AccountsInv, TypeOK
  <2>9. QED
    BY <2>5, <2>7, <2>8 DEF RequestOK, Under
<1>2. QED
  BY <1>1, AccountsInvariance, PTL DEF Spec, TeamIsLostOnlyInARace
-----------------------------------------------------------------------------
(* The table acts as module Sessions says                                  *)

LEMMA TheOnlyOne == TheOnly({}) = None /\ \A x : TheOnly({x}) = x
BY DEF TheOnly

\* An unrevoked token is what carries its session on.
LEMMA LiveIsCurrent ==
    ASSUME AccountsInv, NEW t \in Tokens, Unrevoked(t)
    PROVE  /\ token[t].session \in Tokens
           /\ Current[token[t].session] = t
           /\ Owner[token[t].session] = token[t].owner
<1>1. token[t] \in TokenRow /\ token[t].session \in Tokens
  BY DEF AccountsInv, TypeOK, TokenRow, Unrevoked
<1>2. LiveTokens(token[t].session) = {t}
  BY <1>1 DEF LiveTokens, AccountsInv, OneLivePerSession
<1>3. Begins(token[t].session) /\ token[token[t].session].owner = token[t].owner
  BY DEF AccountsInv, SessionsAreRooted, Begins, Unrevoked
<1>4. QED
  BY <1>1, <1>2, <1>3, TheOnlyOne DEF Current, Owner

\* What carries a session on is an unrevoked token of it.
LEMMA CurrentIsLive ==
    ASSUME AccountsInv, NEW s \in Tokens, Current[s] # None
    PROVE  /\ Current[s] \in Tokens
           /\ Unrevoked(Current[s])
           /\ token[Current[s]].session = s
<1>1. Current[s] = TheOnly(LiveTokens(s))
  BY DEF Current
<1>2. LiveTokens(s) # {}
  BY <1>1, TheOnlyOne
<1>3. PICK t \in Tokens : Unrevoked(t) /\ token[t].session = s
  BY <1>2 DEF LiveTokens
<1>4. Current[s] = t
  BY <1>3, LiveIsCurrent
<1>5. QED
  BY <1>3, <1>4

\* The tokens that a bulk revocation finds are what carries the account's
\* sessions on.
LEMMA TokensOfAccount ==
    ASSUME AccountsInv, NEW u \in Accounts
    PROVE  TokensOf(u) = {Current[s] : s \in Granted!LiveOf(u)}
<1>1. ASSUME NEW t \in TokensOf(u)
      PROVE  \E s \in Granted!LiveOf(u) : t = Current[s]
  <2>1. t \in Tokens /\ Unrevoked(t) /\ token[t].owner = u
    BY DEF TokensOf
  <2>2. /\ token[t].session \in Tokens
        /\ Current[token[t].session] = t /\ Owner[token[t].session] = u
    BY <2>1, LiveIsCurrent
  <2>3. QED
    BY <2>1, <2>2, TokenAssumption DEF Granted!LiveOf
<1>2. ASSUME NEW s \in Granted!LiveOf(u)
      PROVE  Current[s] \in TokensOf(u)
  <2>1. s \in Tokens /\ Owner[s] = u /\ Current[s] # None
    BY DEF Granted!LiveOf
  <2>2. Current[s] \in Tokens /\ Unrevoked(Current[s]) /\ token[Current[s]].session = s
    BY <2>1, CurrentIsLive
  <2>3. token[Current[s]].owner = u
    BY <2>1, <2>2, LiveIsCurrent
  <2>4. QED
    BY <2>2, <2>3 DEF TokensOf
<1>3. QED
  BY <1>1, <1>2

LEMMA TableSame ==
    ASSUME token' = token
    PROVE  Owner' = Owner /\ Current' = Current /\ Issued' = Issued
BY DEF Owner, Current, Issued, Begins, LiveTokens, Unrevoked

\* What the sessions are after the tokens R are revoked and the tokens N, each
\* the first of its session, are inserted.
LEMMA TableStep ==
    ASSUME AccountsInv, NEW R \in SUBSET Tokens, NEW N \in SUBSET Tokens,
           \A t \in R : Unrevoked(t),
           \A t \in Tokens :
              token[t] # None => /\ token'[t] # None
                                 /\ token'[t].owner = token[t].owner
                                 /\ token'[t].session = token[t].session
                                 /\ Unrevoked(t)' <=> Unrevoked(t) /\ t \notin R,
           \A t \in Tokens : token[t] = None => (token'[t] # None <=> t \in N),
           \A t \in N : token[t] = None /\ token'[t].session = t /\ Unrevoked(t)'
    PROVE  /\ Owner' = [s \in Tokens |-> IF s \in N THEN token'[s].owner ELSE Owner[s]]
           /\ Current' = [s \in Tokens |->
                             IF s \in N THEN s
                             ELSE IF s \in {token[t].session : t \in R} THEN None ELSE Current[s]]
           /\ Issued' = Issued \union N
<1>1. \A t \in Tokens : Unrevoked(t) => token[t] # None /\ token[token[t].session] # None
  BY DEF AccountsInv, SessionsAreRooted, Unrevoked
<1>2. \A t \in Tokens : Unrevoked(t)' => token'[t] # None
  BY DEF Unrevoked
<1>3. ASSUME NEW s \in N
      PROVE  Current'[s] = s /\ Owner'[s] = token'[s].owner
  <2>1. LiveTokens(s)' = {s}
    <3>1. \A t \in Tokens : Unrevoked(t)' /\ token'[t].session = s => t = s
      BY <1>1, <1>2
    <3>2. QED
      BY <3>1 DEF LiveTokens
  <2>2. Begins(s)'
    BY <1>2 DEF Begins
  <2>3. QED
    BY <2>1, <2>2, TheOnlyOne DEF Current, Owner
<1>4. ASSUME NEW s \in Tokens \ N
      PROVE  Owner'[s] = Owner[s]
  BY DEF Owner, Begins
<1>5. ASSUME NEW s \in Tokens \ N, NEW t \in R, s = token[t].session
      PROVE  Current'[s] = None
  <2>1. LiveTokens(s)' = {}
    <3> SUFFICES ASSUME NEW x \in Tokens, Unrevoked(x)', token'[x].session = s
                 PROVE  FALSE
      BY DEF LiveTokens
    <3>1. x \notin N
      BY <1>5
    <3>2. token[x] # None /\ Unrevoked(x) /\ x \notin R /\ token[x].session = s
      BY <1>2, <3>1
    <3>3. QED
      BY <1>5, <3>2 DEF AccountsInv, OneLivePerSession
  <2>2. QED
    BY <2>1, TheOnlyOne DEF Current
<1>6. ASSUME NEW s \in Tokens \ N, s \notin {token[t].session : t \in R}
      PROVE  Current'[s] = Current[s]
  <2>1. ASSUME NEW x \in Tokens
        PROVE  Unrevoked(x)' /\ token'[x].session = s <=> Unrevoked(x) /\ token[x].session = s
    BY <1>1, <1>2, <1>6
  <2>2. LiveTokens(s)' = LiveTokens(s)
    BY <2>1 DEF LiveTokens
  <2>3. QED
    BY <2>2 DEF Current
<1>7. Issued' = Issued \union N
  BY <1>2 DEF Issued
<1>8. Owner' = [s \in Tokens |-> Owner'[s]] /\ Current' = [s \in Tokens |-> Current'[s]]
  BY DEF Owner, Current
<1>9. QED
  BY <1>3, <1>4, <1>5, <1>6, <1>7, <1>8

\* What a request is to end changes with the request only.
LEMMA ToEndStep ==
    ASSUME AccountsInv, NEW r \in Requests, NEW x, req' = [req EXCEPT ![r] = x]
    PROVE  ToEnd' = [ToEnd EXCEPT ![r] = IF x = None THEN {} ELSE x.existing]
BY DEF ToEnd, AccountsInv, TypeOK

\* A request that has no bulk revocation to make has promised nothing.
LEMMA NothingToEnd ==
    ASSUME AccountsInv, NEW r \in Requests,
           req[r] # None => req[r].at \notin {"count", "sweep"}
    PROVE  /\ ToEnd[r] = {}
           /\ ToEnd = [ToEnd EXCEPT ![r] = {}]
BY DEF ToEnd, AccountsInv, RequestOK

\* A request that ends without having touched the table.
LEMMA EndForgets ==
    ASSUME AccountsInv, NEW r \in Requests, token' = token, Ends(r)
    PROVE  Granted!Forget(r)
BY ToEndStep, TableSame DEF Ends, Granted!Forget

\* A request that goes on with as much to end as before.
LEMMA QuietStutters ==
    ASSUME AccountsInv, NEW r \in Requests, token' = token,
           NEW x, req' = [req EXCEPT ![r] = x],
           x.existing = ToEnd[r], x # None \/ ToEnd[r] = {}
    PROVE  UNCHANGED Granted!vars
<1>1. ToEnd' = ToEnd
  BY ToEndStep DEF ToEnd
<1>2. QED
  BY <1>1, TableSame DEF Granted!vars

\* A request that is to end all tokens of an account from now on.
LEMMA RequestGives ==
    ASSUME AccountsInv, NEW r \in Requests, NEW u \in Accounts, token' = token,
           ToEnd[r] = {},
           NEW x, x # None, req' = [req EXCEPT ![r] = x], x.existing = TokensOf(u)
    PROVE  Granted!Give(r, u)
<1>1. ToEnd' = [ToEnd EXCEPT ![r] = TokensOf(u)]
  BY ToEndStep
<1>2. QED
  BY <1>1, TokensOfAccount, TableSame DEF Granted!Give

\* A request that begins a session.
LEMMA BeginIsBegin ==
    ASSUME AccountsInv, NEW r \in Requests, NEW t \in Tokens, NEW u \in Accounts,
           req[r] # None => req[r].at \notin {"count", "sweep"},
           Unused(t), token' = [token EXCEPT ![t] = NewToken(t, u, t)], Ends(r)
    PROVE  Granted!Begin(t, u)
<1> DEFINE new == [owner |-> u, state |-> "valid", session |-> t]
<1>1. token[t] = None
  BY DEF Unused
<1>2. new \in TokenRow /\ new # None
  <2>1. new \in TokenRow
    BY DEF TokenRow
  <2>2. QED
    BY <2>1, NoneAssumption
<1>3. token'[t] = new /\ \A s \in Tokens \ {t} : token'[s] = token[s]
  BY DEF NewToken, AccountsInv, TypeOK
<1>4. token'[t].owner = u /\ token'[t].session = t /\ Unrevoked(t)'
  BY <1>2, <1>3 DEF Unrevoked
<1> DEFINE R == {}
           N == {t}
<1>5. /\ R \in SUBSET Tokens /\ N \in SUBSET Tokens
      /\ \A s \in R : Unrevoked(s)
      /\ \A s \in Tokens :
            token[s] # None => /\ token'[s] # None
                               /\ token'[s].owner = token[s].owner
                               /\ token'[s].session = token[s].session
                               /\ Unrevoked(s)' <=> Unrevoked(s) /\ s \notin R
      /\ \A s \in Tokens : token[s] = None => (token'[s] # None <=> s \in N)
      /\ \A s \in N : token[s] = None /\ token'[s].session = s /\ Unrevoked(s)'
  BY <1>1, <1>2, <1>3, <1>4 DEF Unrevoked
<1>6. /\ Owner' = [s \in Tokens |-> IF s \in N THEN token'[s].owner ELSE Owner[s]]
      /\ Current' = [s \in Tokens |->
                        IF s \in N THEN s
                        ELSE IF s \in {token[x].session : x \in R} THEN None ELSE Current[s]]
      /\ Issued' = Issued \union N
  <2> HIDE DEF new, R, N
  <2>1. QED
    BY <1>5, TableStep
<1>7. Owner' = [Owner EXCEPT ![t] = u] /\ Current' = [Current EXCEPT ![t] = t]
  <2>1. DOMAIN Owner = Tokens /\ DOMAIN Current = Tokens
    BY DEF Owner, Current
  <2>2. \A s \in Tokens : s \notin {token[x].session : x \in R}
    OBVIOUS
  <2>3. Owner' = [s \in Tokens |-> IF s = t THEN u ELSE Owner[s]]
    BY <1>4, <1>6
  <2>4. Current' = [s \in Tokens |-> IF s = t THEN t ELSE Current[s]]
    BY <1>6, <2>2
  <2>5. QED
    BY <2>1, <2>3, <2>4
<1>8. ToEnd' = ToEnd
  BY ToEndStep, NothingToEnd DEF Ends
<1>9. t \notin Issued
  BY <1>1 DEF Issued
<1>10. QED
  BY <1>6, <1>7, <1>8, <1>9 DEF Granted!Begin

\* One row that is revoked ends its session.
LEMMA RevokedEnds ==
    ASSUME AccountsInv, NEW t \in Tokens, Unrevoked(t), ToEnd' = ToEnd,
           token' = [token EXCEPT ![t].state = "revoked"]
    PROVE  Granted!End(token[t].session)
<1> DEFINE s == token[t].session
<1>1. token[t] \in TokenRow /\ token[t] # None
  BY DEF Unrevoked, AccountsInv, TypeOK
<1>2. /\ token'[t] \in TokenRow /\ token'[t].state = "revoked"
      /\ token'[t].owner = token[t].owner /\ token'[t].session = token[t].session
      /\ \A x \in Tokens \ {t} : token'[x] = token[x]
  BY <1>1 DEF TokenRow, AccountsInv, TypeOK
<1> DEFINE R == {t}
           N == {}
<1>3. /\ R \in SUBSET Tokens /\ N \in SUBSET Tokens
      /\ \A x \in R : Unrevoked(x)
      /\ \A x \in Tokens :
            token[x] # None => /\ token'[x] # None
                               /\ token'[x].owner = token[x].owner
                               /\ token'[x].session = token[x].session
                               /\ Unrevoked(x)' <=> Unrevoked(x) /\ x \notin R
      /\ \A x \in Tokens : token[x] = None => (token'[x] # None <=> x \in N)
      /\ \A x \in N : token[x] = None /\ token'[x].session = x /\ Unrevoked(x)'
  BY <1>1, <1>2, NoneAssumption DEF Unrevoked
<1>4. /\ Owner' = [x \in Tokens |-> IF x \in N THEN token'[x].owner ELSE Owner[x]]
      /\ Current' = [x \in Tokens |->
                        IF x \in N THEN x
                        ELSE IF x \in {token[y].session : y \in R} THEN None ELSE Current[x]]
      /\ Issued' = Issued \union N
  <2> HIDE DEF s, R, N
  <2>1. QED
    BY <1>3, TableStep
<1>5. {token[y].session : y \in R} = {s}
  OBVIOUS
<1>6. Owner' = Owner /\ Issued' = Issued /\ Current' = Granted!WithEnded({s})
  <2>1. Owner = [x \in Tokens |-> Owner[x]]
    BY DEF Owner
  <2>2. Owner' = Owner /\ Issued' = Issued
    BY <1>4, <2>1
  <2>3. QED
    BY <1>4, <1>5, <2>2 DEF Granted!WithEnded
<1>7. Current[s] # None
  BY LiveIsCurrent, TokenAssumption
<1>8. QED
  BY <1>6, <1>7 DEF Granted!End

\* The sessions that a bulk revocation ends.
SweptSessions(r) == {token[t].session : t \in req[r].swept}

\* They are the account's, and what was promised is among them.
LEMMA SweptFulfil ==
    ASSUME AccountsInv, NEW r \in Requests, Swept(r)
    PROVE  Granted!Fulfils(SweptSessions(r), r, req[r].account)
<1>1. /\ req[r] # None /\ RequestOK(r) /\ req[r].left = {} /\ req[r].sweeps = 0
      /\ req[r].swept \subseteq Tokens /\ req[r].existing \subseteq Tokens
  BY SweepingRequest DEF Swept
<1>2. ASSUME NEW t \in req[r].swept
      PROVE  token[t].session \in Granted!LiveOf(req[r].account)
  <2>1. t \in Tokens /\ Unrevoked(t) /\ token[t].owner = req[r].account
    BY <1>1, <1>2 DEF RequestOK
  <2>2. QED
    BY <2>1, LiveIsCurrent, TokenAssumption DEF Granted!LiveOf
<1>3. ASSUME NEW s \in Tokens, Current[s] \in ToEnd[r]
      PROVE  s \in SweptSessions(r)
  <2>1. Current[s] \in req[r].existing
    BY <1>1, <1>3 DEF ToEnd
  <2>2. Current[s] \in Tokens /\ Current[s] # None
    BY <1>1, <2>1, TokenAssumption
  <2>3. Unrevoked(Current[s]) /\ token[Current[s]].session = s
    BY <2>2, CurrentIsLive
  <2>4. Current[s] \in req[r].swept
    BY <1>1, <2>1, <2>3 DEF RequestOK
  <2>5. QED
    BY <2>3, <2>4 DEF SweptSessions
<1>4. QED
  BY <1>2, <1>3 DEF Granted!Fulfils, SweptSessions

LEMMA SweptEnd ==
    ASSUME AccountsInv, NEW r \in Requests, Swept(r), Ends(r), token' = WithSweptRevoked(r)
    PROVE  Granted!Keep(r, req[r].account, SweptSessions(r))
<1> DEFINE R == req[r].swept
           N == {}
<1>1. req[r] # None /\ RequestOK(r) /\ R \subseteq Tokens
  BY SweepingRequest DEF Swept
<1>2. RespectsLocks(r) /\ InsertsNothing /\ \A t \in R : ~ Unrevoked(t)'
  BY <1>1, SweptAreRevoked
<1>3. \A t \in Tokens \ R : token'[t] = token[t]
  BY DEF WithSweptRevoked
<1>4. /\ R \in SUBSET Tokens /\ N \in SUBSET Tokens
      /\ \A x \in R : Unrevoked(x)
      /\ \A x \in Tokens :
            token[x] # None => /\ token'[x] # None
                               /\ token'[x].owner = token[x].owner
                               /\ token'[x].session = token[x].session
                               /\ Unrevoked(x)' <=> Unrevoked(x) /\ x \notin R
      /\ \A x \in Tokens : token[x] = None => (token'[x] # None <=> x \in N)
      /\ \A x \in N : token[x] = None /\ token'[x].session = x /\ Unrevoked(x)'
  <2>1. \A x \in R : Unrevoked(x)
    BY <1>1 DEF RequestOK
  <2>2. \A x \in Tokens \ R : Unrevoked(x)' <=> Unrevoked(x)
    BY <1>3 DEF Unrevoked
  <2>3. QED
    BY <1>1, <1>2, <2>1, <2>2 DEF RespectsLocks, InsertsNothing
<1>5. /\ Owner' = [x \in Tokens |-> IF x \in N THEN token'[x].owner ELSE Owner[x]]
      /\ Current' = [x \in Tokens |->
                        IF x \in N THEN x
                        ELSE IF x \in {token[y].session : y \in R} THEN None ELSE Current[x]]
      /\ Issued' = Issued \union N
  <2> HIDE DEF R, N
  <2>1. QED
    BY <1>4, TableStep
<1>6. /\ Owner' = Owner /\ Issued' = Issued
      /\ Current' = Granted!WithEnded(SweptSessions(r))
  <2>1. Owner = [x \in Tokens |-> Owner[x]]
    BY DEF Owner
  <2>2. Owner' = Owner /\ Issued' = Issued
    BY <1>5, <2>1
  <2>3. QED
    BY <1>5, <2>2 DEF Granted!WithEnded, SweptSessions
<1>7. ToEnd' = [ToEnd EXCEPT ![r] = {}]
  BY ToEndStep DEF Ends
<1>8. QED
  BY <1>6, <1>7, SweptFulfil DEF Granted!Keep

\* A new password.
LEMMA PasswordEndsAndBegins ==
    ASSUME AccountsInv, NEW r \in Requests, PasswordCommits(r)
    PROVE  \E t \in Tokens : Granted!KeepAndBegin(r, req[r].account, SweptSessions(r), t)
<1> DEFINE u == req[r].account
           R == req[r].swept
<1>1. req[r] # None /\ u \in Accounts /\ R \subseteq Tokens /\ RequestOK(r)
  BY SweepingRequest DEF PasswordCommits, Swept, RequestOK
<1>2. PICK t \in Tokens :
         Unused(t) /\ token' = [WithSweptRevoked(r) EXCEPT ![t] = NewToken(t, u, t)]
  BY DEF PasswordCommits
<1> DEFINE N == {t}
           new == [owner |-> u, state |-> "valid", session |-> t]
<1>3. token[t] = None /\ t \notin R /\ \A x \in R : Unrevoked(x)
  BY <1>1, <1>2 DEF Unused, RequestOK, Unrevoked
<1>4. new \in TokenRow /\ new # None
  <2>1. new \in TokenRow
    BY <1>1 DEF TokenRow
  <2>2. QED
    BY <2>1, NoneAssumption
<1>5. /\ token'[t] = new
      /\ \A x \in R : token[x] \in TokenRow /\ token'[x] = [token[x] EXCEPT !.state = "revoked"]
      /\ \A x \in Tokens \ (N \union R) : token'[x] = token[x]
  <2>1. \A x \in R : token[x] \in TokenRow
    BY <1>1, <1>3 DEF Unrevoked, AccountsInv, TypeOK
  <2>2. \A x \in Tokens \ {t} : token'[x] = WithSweptRevoked(r)[x]
    BY <1>2 DEF WithSweptRevoked
  <2>3. QED
    BY <1>1, <1>2, <1>3, <2>1, <2>2 DEF WithSweptRevoked, NewToken
<1>6. /\ token'[t].owner = u /\ token'[t].session = t /\ Unrevoked(t)'
      /\ \A x \in R : /\ token'[x] \in TokenRow /\ token'[x].state = "revoked"
                       /\ token'[x].owner = token[x].owner
                       /\ token'[x].session = token[x].session
  <2>1. new.owner = u /\ new.session = t /\ new.state # "revoked"
    OBVIOUS
  <2>2. \A x \in R : /\ token'[x] \in TokenRow /\ token'[x].state = "revoked"
                     /\ token'[x].owner = token[x].owner
                     /\ token'[x].session = token[x].session
    BY <1>5 DEF TokenRow
  <2> HIDE DEF new
  <2>3. token'[t].owner = u /\ token'[t].session = t /\ Unrevoked(t)'
    BY <1>4, <1>5, <2>1 DEF Unrevoked
  <2>4. QED
    BY <2>2, <2>3
<1>7. /\ R \in SUBSET Tokens /\ N \in SUBSET Tokens
      /\ \A x \in R : Unrevoked(x)
      /\ \A x \in Tokens :
            token[x] # None => /\ token'[x] # None
                               /\ token'[x].owner = token[x].owner
                               /\ token'[x].session = token[x].session
                               /\ Unrevoked(x)' <=> Unrevoked(x) /\ x \notin R
      /\ \A x \in Tokens : token[x] = None => (token'[x] # None <=> x \in N)
      /\ \A x \in N : token[x] = None /\ token'[x].session = x /\ Unrevoked(x)'
  <2>1. \A x \in R : token'[x] # None /\ ~ Unrevoked(x)'
    BY <1>6, NoneAssumption DEF Unrevoked
  <2>2. \A x \in Tokens \ (N \union R) : Unrevoked(x)' <=> Unrevoked(x)
    BY <1>5 DEF Unrevoked
  <2>3. token'[t] # None
    BY <1>4, <1>5
  <2>4. \A x \in R : token[x] # None
    BY <1>3 DEF Unrevoked
  <2> HIDE DEF new
  <2>5. QED
    BY <1>1, <1>3, <1>5, <1>6, <2>1, <2>2, <2>3, <2>4
<1>8. /\ Owner' = [x \in Tokens |-> IF x \in N THEN token'[x].owner ELSE Owner[x]]
      /\ Current' = [x \in Tokens |->
                        IF x \in N THEN x
                        ELSE IF x \in {token[y].session : y \in R} THEN None ELSE Current[x]]
      /\ Issued' = Issued \union N
  <2> HIDE DEF u, R, N, new
  <2>1. QED
    BY <1>7, TableStep
<1>9. /\ Owner' = [Owner EXCEPT ![t] = u]
      /\ Current' = [Granted!WithEnded(SweptSessions(r)) EXCEPT ![t] = t]
      /\ Issued' = Issued \union {t}
  <2>1. DOMAIN Owner = Tokens
    BY DEF Owner
  <2>2. Owner' = [Owner EXCEPT ![t] = u]
    BY <1>6, <1>8, <2>1
  <2>3. Current' = [Granted!WithEnded(SweptSessions(r)) EXCEPT ![t] = t]
    BY <1>8 DEF Granted!WithEnded, SweptSessions
  <2>4. QED
    BY <1>8, <2>2, <2>3
<1>10. ToEnd' = [ToEnd EXCEPT ![r] = {}]
  BY ToEndStep DEF PasswordCommits, Ends
<1>11. t \notin Issued /\ Granted!Fulfils(SweptSessions(r), r, u)
  BY <1>3, SweptFulfil DEF Issued, PasswordCommits
<1>12. Granted!KeepAndBegin(r, u, SweptSessions(r), t)
  BY <1>9, <1>10, <1>11 DEF Granted!KeepAndBegin
<1>13. QED
  BY <1>12

\* A refresh.
LEMMA RotateRotates ==
    ASSUME AccountsInv, NEW r \in Requests, Rotate(r)
    PROVE  \E s, t \in Tokens : Granted!Rotate(s, t)
<1>1. PICK old \in Tokens, u \in Accounts, s \in Tokens :
         /\ req[r] # None /\ req[r].at = "rotate" /\ old = req[r].token /\ u = req[r].account
         /\ Unrevoked(old) /\ token[old] \in TokenRow
         /\ token[old].owner = u /\ token[old].session = s
  <2>1. req[r] # None /\ req[r].at = "rotate" /\ req[r].op = "refresh" /\ RequestOK(r)
    BY DEF Rotate, Under, AccountsInv
  <2>2. /\ req[r].token \in Tokens /\ req[r].account \in Accounts
        /\ Unrevoked(req[r].token) /\ token[req[r].token].owner = req[r].account
    BY <2>1 DEF RequestOK
  <2>3. token[req[r].token] \in TokenRow /\ token[req[r].token].session \in Tokens
    BY <2>2 DEF AccountsInv, TypeOK, TokenRow, Unrevoked
  <2>4. QED
    BY <2>1, <2>2, <2>3
<1>2. s \in Tokens /\ Current[s] = old /\ Owner[s] = u /\ u \in Accounts /\ token[s] # None
  BY <1>1, LiveIsCurrent DEF AccountsInv, SessionsAreRooted, Unrevoked
<1>3. PICK t \in Tokens :
         /\ Unused(t)
         /\ token' = [token EXCEPT ![old].state = "revoked", ![t] = NewToken(t, u, s)]
  BY <1>1 DEF Rotate
<1> DEFINE new == [owner |-> u, state |-> "valid", session |-> s]
<1>4. token[t] = None /\ t # old /\ t # s
  BY <1>1, <1>2, <1>3 DEF Unused, Unrevoked
<1>5. new \in TokenRow /\ new # None
  <2>1. new \in TokenRow
    BY <1>2 DEF TokenRow
  <2>2. QED
    BY <2>1, NoneAssumption
<1>6. /\ token'[t] = new
      /\ token'[old] = [token[old] EXCEPT !.state = "revoked"]
      /\ \A x \in Tokens \ {t, old} : token'[x] = token[x]
  BY <1>1, <1>3, <1>4 DEF AccountsInv, TypeOK, NewToken
<1>7. /\ token'[t].owner = u /\ token'[t].session = s /\ token'[t] # None /\ Unrevoked(t)'
      /\ token'[old] # None /\ ~ Unrevoked(old)'
      /\ token'[old].owner = u /\ token'[old].session = s
  <2>1. /\ token'[old] \in TokenRow /\ token'[old].state = "revoked"
        /\ token'[old].owner = u /\ token'[old].session = s
    BY <1>1, <1>6 DEF TokenRow
  <2>2. token'[old] # None /\ ~ Unrevoked(old)'
    BY <2>1, NoneAssumption DEF Unrevoked
  <2>3. new.owner = u /\ new.session = s /\ new.state # "revoked"
    OBVIOUS
  <2> HIDE DEF new
  <2>4. token'[t] # None /\ Unrevoked(t)'
    BY <1>5, <1>6, <2>3 DEF Unrevoked
  <2>5. QED
    BY <1>6, <2>1, <2>2, <2>3, <2>4
<1>8. \A x \in Tokens \ {t, old} : Unrevoked(x)' <=> Unrevoked(x)
  BY <1>6 DEF Unrevoked
<1> HIDE DEF new
<1>9. \A x \in Tokens : LiveTokens(x)' = IF x = s THEN {t} ELSE LiveTokens(x)
  <2>1. \A x \in Tokens : Unrevoked(x) /\ token[x].session = s => x = old
    BY <1>1 DEF AccountsInv, OneLivePerSession
  <2>2. LiveTokens(s)' = {t}
    <3>1. ASSUME NEW x \in Tokens, Unrevoked(x)', token'[x].session = s
          PROVE  x = t
      <4>1. x # old
        BY <1>7, <3>1
      <4>2. x # t => Unrevoked(x) /\ token[x].session = s
        BY <1>6, <1>8, <3>1, <4>1
      <4>3. QED
        BY <2>1, <4>1, <4>2
    <3>2. QED
      BY <1>7, <3>1 DEF LiveTokens
  <2>3. ASSUME NEW x \in Tokens, x # s
        PROVE  LiveTokens(x)' = LiveTokens(x)
    <3>1. \A y \in Tokens \ {t, old} :
             (Unrevoked(y)' /\ token'[y].session = x) <=> (Unrevoked(y) /\ token[y].session = x)
      <4> TAKE y \in Tokens \ {t, old}
      <4>1. token'[y].session = token[y].session
        BY <1>6
      <4>2. QED
        BY <1>8, <4>1
    <3>2. token'[t].session # x /\ ~ Unrevoked(old)' /\ token[old].session # x
      BY <1>1, <1>7, <2>3
    <3>3. ~ Unrevoked(t)
      BY <1>4 DEF Unrevoked
    <3>4. QED
      BY <3>1, <3>2, <3>3 DEF LiveTokens
  <2>4. QED
    BY <2>2, <2>3
<1>10. Current' = [Current EXCEPT ![s] = t]
  <2>1. Current' = [x \in Tokens |-> TheOnly(IF x = s THEN {t} ELSE LiveTokens(x))]
    BY <1>9 DEF Current
  <2>2. QED
    BY <2>1, TheOnlyOne DEF Current
<1>11. Owner' = Owner
  <2>1. \A x \in Tokens \ {t} : Begins(x)' <=> Begins(x)
    <3>1. token[old] # None
      BY <1>1 DEF Unrevoked
    <3>2. \A x \in Tokens \ {t, old} : Begins(x)' <=> Begins(x)
      BY <1>6 DEF Begins
    <3>3. Begins(old)' <=> Begins(old)
      BY <1>1, <1>7, <3>1 DEF Begins
    <3>4. QED
      BY <3>2, <3>3
  <2>2. ~ Begins(t)' /\ ~ Begins(t)
    BY <1>4, <1>7 DEF Begins
  <2>3. \A x \in Tokens \ {t} : token[x] # None => token'[x].owner = token[x].owner
    BY <1>1, <1>6, <1>7
  <2>4. QED
    BY <2>1, <2>2, <2>3 DEF Owner, Begins
<1>12. Issued' = Issued \union {t}
  <2>1. \A x \in Tokens \ {t} : token'[x] # None <=> token[x] # None
    BY <1>1, <1>6, <1>7 DEF Unrevoked
  <2>2. QED
    BY <1>7, <2>1 DEF Issued
<1>13. ToEnd' = ToEnd
  BY <1>1, ToEndStep, NothingToEnd DEF Rotate, Ends
<1>14. Current[s] # None /\ t \notin Issued
  BY <1>1, <1>2, <1>4, TokenAssumption DEF Issued
<1>15. Granted!Rotate(s, t)
  BY <1>10, <1>11, <1>12, <1>13, <1>14 DEF Granted!Rotate
<1>16. QED
  BY <1>2, <1>15

\* Records of requests with a field changed.
LEMMA RequestFields ==
    ASSUME NEW x \in Request
    PROVE  /\ \A at \in {"count", "rotate", "sweep"} : [x EXCEPT !.at = at] \in Request
           /\ \A u \in Accounts : [x EXCEPT !.account = u] \in Request
           /\ \A n \in 0..2 : [x EXCEPT !.sweeps = n] \in Request
           /\ \A S \in SUBSET Tokens : /\ [x EXCEPT !.left = S] \in Request
                                       /\ [x EXCEPT !.swept = S] \in Request
                                       /\ [x EXCEPT !.existing = S] \in Request
           /\ \A w \in {"activate", "deactivate", "leave"} : [x EXCEPT !.wish = w] \in Request
           /\ \A w \in AccountState : [x EXCEPT !.was = w] \in Request
           /\ \A S \in SUBSET Accounts : [x EXCEPT !.others = S] \in Request
<1>1. /\ \A at \in {"count", "rotate", "sweep"} : [x EXCEPT !.at = at] \in Request
      /\ \A u \in Accounts : [x EXCEPT !.account = u] \in Request
  BY DEF Request
<1>2. /\ \A n \in 0..2 : [x EXCEPT !.sweeps = n] \in Request
      /\ \A S \in SUBSET Tokens : [x EXCEPT !.left = S] \in Request
  BY DEF Request
<1>3. \A S \in SUBSET Tokens : /\ [x EXCEPT !.swept = S] \in Request
                               /\ [x EXCEPT !.existing = S] \in Request
  BY DEF Request
<1>4. /\ \A w \in {"activate", "deactivate", "leave"} : [x EXCEPT !.wish = w] \in Request
      /\ \A w \in AccountState : [x EXCEPT !.was = w] \in Request
      /\ \A S \in SUBSET Accounts : [x EXCEPT !.others = S] \in Request
  BY DEF Request
<1>5. QED
  BY <1>1, <1>2, <1>3, <1>4

\* A sign-in, a registration, or a request that begins: what the actions of
\* SignsIn are in Sessions.
LEMMA SignsInMaps ==
    ASSUME AccountsInv, NEW r \in Requests, SignsIn(r)
    PROVE  [Granted!Next]_Granted!vars
<1>1. ASSUME NEW u \in Accounts, Register(r, u) \/ Login(r, u)
      PROVE  UNCHANGED Granted!vars
  <2>1. req[r] = None /\ token' = token
    BY <1>1 DEF Register, Login
  <2>2. ToEnd[r] = {}
    BY <2>1, NothingToEnd
  <2>3. \E x : req' = [req EXCEPT ![r] = x] /\ x.existing = {}
    BY <1>1 DEF Register, Login, Open
  <2>4. QED
    BY <2>1, <2>2, <2>3, QuietStutters
<1>2. ASSUME RegisterInserts(r)
      PROVE  Granted!Next
  <2>1. /\ Under(r, "register", "insert") /\ Ends(r)
        /\ req[r] # None => req[r].at \notin {"count", "sweep"}
        /\ req[r].account \in Accounts
    BY <1>2 DEF RegisterInserts, Under, AccountsInv, RequestOK
  <2>2. CASE account[req[r].account] = "absent"
    <3>1. PICK t \in Tokens :
             Unused(t) /\ token' = [token EXCEPT ![t] = NewToken(t, req[r].account, t)]
      BY <1>2, <2>2 DEF RegisterInserts
    <3>2. Granted!Begin(t, req[r].account)
      BY <2>1, <3>1, BeginIsBegin
    <3>3. QED
      BY <2>1, <3>2 DEF Granted!Next
  <2>3. CASE account[req[r].account] # "absent"
    <3>1. Granted!Forget(r)
      BY <1>2, <2>1, <2>3, EndForgets DEF RegisterInserts
    <3>2. QED
      BY <3>1 DEF Granted!Next
  <2>4. QED
    BY <2>2, <2>3
<1>3. ASSUME LoginInserts(r)
      PROVE  Granted!Next
  <2>1. /\ Under(r, "login", "insert") /\ Ends(r)
        /\ req[r] # None => req[r].at \notin {"count", "sweep"}
        /\ req[r].account \in Accounts
    BY <1>3 DEF LoginInserts, Under, AccountsInv, RequestOK
  <2>2. PICK t \in Tokens :
           Unused(t) /\ token' = [token EXCEPT ![t] = NewToken(t, req[r].account, t)]
    BY <1>3 DEF LoginInserts
  <2>3. Granted!Begin(t, req[r].account)
    BY <2>1, <2>2, BeginIsBegin
  <2>4. QED
    BY <2>1, <2>3 DEF Granted!Next
<1>4. QED
  BY <1>1, <1>2, <1>3 DEF SignsIn

LEMMA SessionMaps ==
    ASSUME AccountsInv, NEW r \in Requests, Session(r)
    PROVE  [Granted!Next]_Granted!vars
<1>1. ASSUME NEW t \in Tokens, RefreshValid(r, t) \/ Logout(r, t)
      PROVE  UNCHANGED Granted!vars
  <2>1. req[r] = None /\ token' = token
    BY <1>1 DEF RefreshValid, Logout
  <2>2. ToEnd[r] = {}
    BY <2>1, NothingToEnd
  <2>3. \E x : req' = [req EXCEPT ![r] = x] /\ x.existing = {}
    <3>1. [Open("refresh", "load") EXCEPT !.account = token[t].owner, !.token = t].existing = {}
      BY DEF Open
    <3>2. [Open("logout", "write") EXCEPT !.token = t].existing = {}
      BY DEF Open
    <3>3. QED
      BY <1>1, <3>1, <3>2 DEF RefreshValid, Logout
  <2>4. QED
    BY <2>1, <2>2, <2>3, QuietStutters
<1>2. ASSUME NEW t \in Tokens, RefreshExpired(r, t)
      PROVE  Granted!Next
  <2>1. Unrevoked(t) /\ token' = [token EXCEPT ![t].state = "revoked"] /\ req' = req
    BY <1>2 DEF RefreshExpired, Unrevoked
  <2>2. ToEnd' = ToEnd
    BY <2>1 DEF ToEnd
  <2>3. Granted!End(token[t].session) /\ token[t].session \in Tokens
    BY <2>1, <2>2, RevokedEnds, LiveIsCurrent
  <2>4. QED
    BY <2>3 DEF Granted!Next
<1>3. ASSUME NEW t \in Tokens, RefreshReused(r, t)
      PROVE  Granted!Next
  <2> DEFINE u == token[t].owner
             x == [Open("refresh", "sweep") EXCEPT
                     !.account = u, !.token = t, !.sweeps = 1, !.existing = TokensOf(u)]
  <2>1. u \in Accounts /\ TokensOf(u) \in SUBSET Tokens
    BY <1>3 DEF RefreshReused, AccountsInv, TypeOK, TokenRow, TokensOf
  <2>2. x \in Request /\ x # None /\ x.existing = TokensOf(u)
    <3>1. x \in Request
      BY <2>1, RefreshRequest
    <3>2. x.existing = TokensOf(u)
      BY DEF Open
    <3> HIDE DEF x
    <3>3. QED
      BY <3>1, <3>2, NoneAssumption
  <2>3. req[r] = None /\ token' = token /\ req' = [req EXCEPT ![r] = x]
    BY <1>3 DEF RefreshReused
  <2>4. ToEnd[r] = {}
    BY <2>3, NothingToEnd
  <2> HIDE DEF u, x
  <2>5. Granted!Give(r, u)
    BY <2>1, <2>2, <2>3, <2>4, RequestGives
  <2>6. QED
    BY <2>1, <2>5 DEF Granted!Next
<1>4. ASSUME RefreshLoads(r)
      PROVE  [Granted!Next]_Granted!vars
  <2>1. /\ req[r] # None /\ req[r].at = "load" /\ req[r] \in Request /\ token' = token
        /\ ToEnd[r] = {}
    BY <1>4, NothingToEnd DEF RefreshLoads, Under, AccountsInv, TypeOK
  <2>2. CASE Ends(r)
    BY <2>1, <2>2, EndForgets DEF Granted!Next
  <2>3. CASE req' = [req EXCEPT ![r].at = "rotate"]
    <3> DEFINE x == [req[r] EXCEPT !.at = "rotate"]
    <3>1. req' = [req EXCEPT ![r] = x]
      BY <2>3 DEF AccountsInv, TypeOK
    <3>2. x.existing = ToEnd[r]
      BY <2>1 DEF Request, ToEnd
    <3> HIDE DEF x
    <3>3. QED
      BY <2>1, <3>1, <3>2, QuietStutters
  <2>4. QED
    BY <1>4, <2>2, <2>3 DEF RefreshLoads
<1>5. ASSUME Rotate(r)
      PROVE  Granted!Next
  BY <1>5, RotateRotates DEF Granted!Next
<1>6. ASSUME LogoutWrites(r)
      PROVE  Granted!Next
  <2>1. PICK t \in Tokens : t = req[r].token /\ token[t] # None /\ token[t] \in TokenRow
    BY <1>6 DEF LogoutWrites, Under, AccountsInv, RequestOK, TypeOK
  <2>2. token' = [token EXCEPT ![t].state = "revoked"] /\ Ends(r)
    BY <1>6, <2>1 DEF LogoutWrites
  <2>3. CASE Unrevoked(t)
    <3>1. ToEnd' = ToEnd
      BY <1>6, ToEndStep, NothingToEnd DEF LogoutWrites, Under, Ends
    <3>2. Granted!End(token[t].session) /\ token[t].session \in Tokens
      BY <2>2, <2>3, <3>1, RevokedEnds, LiveIsCurrent
    <3>3. QED
      BY <3>2 DEF Granted!Next
  <2>4. CASE ~ Unrevoked(t)
    <3>1. token[t].state = "revoked"
      BY <2>1, <2>4 DEF Unrevoked
    <3>2. [token[t] EXCEPT !.state = "revoked"] = token[t]
      BY <2>1, <3>1 DEF TokenRow
    <3>3. token' = token
      BY <2>2, <3>2 DEF AccountsInv, TypeOK
    <3>4. Granted!Forget(r)
      BY <2>2, <3>3, EndForgets
    <3>5. QED
      BY <3>4 DEF Granted!Next
  <2>5. QED
    BY <2>3, <2>4
<1>7. QED
  BY <1>1, <1>2, <1>3, <1>4, <1>5, <1>6 DEF Session

LEMMA SweepMaps ==
    ASSUME AccountsInv, NEW r \in Requests, Sweep(r)
    PROVE  [Granted!Next]_Granted!vars
<1>1. ASSUME SweepStarts(r) \/ \E t \in Tokens : SweepTakes(r, t)
      PROVE  UNCHANGED Granted!vars
  <2>1. /\ req[r] \in Request /\ req[r] # None /\ req[r].sweeps \in 0..2
        /\ req[r].left \subseteq Tokens /\ req[r].swept \subseteq Tokens
        /\ token' = token /\ ToEnd[r] = req[r].existing
    BY <1>1, SweepingRequest DEF SweepStarts, SweepTakes, ToEnd
  <2>2. CASE SweepStarts(r)
    <3> DEFINE n == req[r].sweeps - 1
               left == TokensOf(req[r].account) \ req[r].swept
               x == [req[r] EXCEPT !.sweeps = n, !.left = left]
    <3>1. n \in 0..2 /\ left \in SUBSET Tokens
      BY <2>1, <2>2 DEF SweepStarts, TokensOf
    <3>2. req' = [req EXCEPT ![r] = x]
      BY <2>1, <2>2 DEF SweepStarts, AccountsInv, TypeOK
    <3>3. x.existing = req[r].existing
      BY <2>1 DEF Request
    <3>4. x \in Request
      <4> HIDE DEF n, left
      <4>1. [req[r] EXCEPT !.sweeps = n] \in Request
        BY <2>1, <3>1, RequestFields
      <4>2. QED
        BY <3>1, <4>1, RequestFields
    <3> HIDE DEF x
    <3>5. QED
      BY <2>1, <3>2, <3>3, <3>4, NoneAssumption, QuietStutters
  <2>3. ASSUME NEW t \in Tokens, SweepTakes(r, t)
        PROVE  UNCHANGED Granted!vars
    <3> DEFINE left == req[r].left \ {t}
               swept == IF Unrevoked(t) THEN req[r].swept \union {t} ELSE req[r].swept
               x == [req[r] EXCEPT !.left = left, !.swept = swept]
    <3>1. left \in SUBSET Tokens /\ swept \in SUBSET Tokens
      BY <2>1
    <3>2. req' = [req EXCEPT ![r] = x]
      BY <2>1, <2>3 DEF SweepTakes, AccountsInv, TypeOK
    <3>3. x.existing = req[r].existing
      BY <2>1 DEF Request
    <3>4. x \in Request
      <4> HIDE DEF left, swept
      <4>1. [req[r] EXCEPT !.left = left] \in Request
        BY <2>1, <3>1, RequestFields
      <4>2. QED
        BY <3>1, <4>1, RequestFields
    <3> HIDE DEF x
    <3>5. QED
      BY <2>1, <3>2, <3>3, <3>4, NoneAssumption, QuietStutters
  <2>4. QED
    BY <1>1, <2>2, <2>3
<1>2. ASSUME ReuseCommits(r) \/ PatchCommits(r) \/ PasswordCommits(r)
      PROVE  Granted!Next
  <2> DEFINE u == req[r].account
             S == SweptSessions(r)
  <2>1. Swept(r) /\ Ends(r) /\ u \in Accounts /\ S \in SUBSET Granted!LiveOf(u)
    <3>1. Swept(r) /\ Ends(r) /\ req[r].op \in {"refresh", "patch", "password"}
      BY <1>2 DEF ReuseCommits, PatchCommits, PasswordCommits
    <3>2. u \in Accounts
      BY <3>1, SweepingRequest DEF Swept, RequestOK
    <3>3. S \in SUBSET Granted!LiveOf(u)
      BY <3>1, SweptFulfil DEF Granted!Fulfils
    <3>4. QED
      BY <3>1, <3>2, <3>3
  <2>2. CASE ReuseCommits(r) \/ PatchCommits(r)
    <3>1. Granted!Keep(r, u, S)
      BY <2>1, <2>2, SweptEnd DEF ReuseCommits, PatchCommits
    <3> HIDE DEF u, S
    <3>2. QED
      BY <2>1, <3>1 DEF Granted!Next
  <2>3. CASE PasswordCommits(r)
    <3>1. PICK t \in Tokens : Granted!KeepAndBegin(r, u, S, t)
      BY <2>3, PasswordEndsAndBegins
    <3> HIDE DEF u, S
    <3>2. QED
      BY <2>1, <3>1 DEF Granted!Next
  <2>4. QED
    BY <1>2, <2>2, <2>3
<1>3. ASSUME Aborts(r)
      PROVE  Granted!Next
  BY <1>3, EndForgets DEF Aborts, Granted!Next
<1>4. QED
  BY <1>1, <1>2, <1>3 DEF Sweep

LEMMA TeamMaps ==
    ASSUME AccountsInv, NEW r \in Requests, Team(r)
    PROVE  [Granted!Next]_Granted!vars
<1>1. ASSUME Answers(r) \/ CreateInserts(r)
      PROVE  Granted!Next
  BY <1>1, EndForgets DEF Answers, CreateInserts, Granted!Next
<1>2. token' = token
  BY DEF Team, Authenticate, Answers, ChangePassword, CreateResponder, CreateInserts, PatchReads,
         PatchCounts
<1>3. ASSUME NEW p \in Accounts \union {Key}, Authenticate(r, p)
      PROVE  UNCHANGED Granted!vars
  <2> DEFINE x == [Open("any", "admitted") EXCEPT !.account = p]
  <2>1. req' = [req EXCEPT ![r] = x] /\ x.existing = {}
    BY <1>3 DEF Authenticate, Open
  <2>2. ToEnd[r] = {}
    BY <1>3, NothingToEnd DEF Authenticate
  <2>3. QED
    BY <1>2, <2>1, <2>2, QuietStutters
<1>4. ASSUME NEW u \in Accounts, CreateResponder(r, u)
      PROVE  UNCHANGED Granted!vars
  <2> DEFINE x == [Open("create", "insert") EXCEPT !.account = u]
  <2>1. req' = [req EXCEPT ![r] = x] /\ x.existing = {}
    BY <1>4 DEF CreateResponder, Open
  <2>2. ToEnd[r] = {}
    BY <1>4, NothingToEnd DEF CreateResponder, ByResponder, Under
  <2>3. QED
    BY <1>2, <2>1, <2>2, QuietStutters
<1>5. ASSUME ChangePassword(r)
      PROVE  Granted!Next
  <2> DEFINE u == req[r].account
             x == [Open("password", "sweep") EXCEPT
                     !.account = u, !.sweeps = 1, !.existing = TokensOf(u)]
  <2>1. u \in Accounts /\ TokensOf(u) \in SUBSET Tokens /\ ToEnd[r] = {}
    BY <1>5, NothingToEnd DEF ChangePassword, Under, AccountsInv, RequestOK, TokensOf
  <2>2. CASE Ends(r)
    BY <1>2, <2>2, EndForgets DEF Granted!Next
  <2>3. CASE req' = [req EXCEPT ![r] = x]
    <3>1. x.existing = TokensOf(u)
      BY DEF Open
    <3>2. Open("password", "sweep") \in Request
      BY DEF Open, Request, AccountState
    <3>3. x \in Request
      <4> HIDE DEF u
      <4>1. [Open("password", "sweep") EXCEPT !.account = u] \in Request
        BY <2>1, <3>2, RequestFields
      <4> DEFINE y == Open("password", "sweep")
      <4> HIDE DEF y
      <4>2. [y EXCEPT !.account = u] \in Request /\ 1 \in 0..2
        BY <4>1 DEF y
      <4>3. [y EXCEPT !.account = u, !.sweeps = 1] \in Request
        BY <4>2, RequestFields
      <4>4. QED
        BY <2>1, <4>3, RequestFields DEF y
    <3> HIDE DEF u, x
    <3>4. Granted!Give(r, u)
      BY <1>2, <2>1, <2>3, <3>1, <3>3, NoneAssumption, RequestGives
    <3>5. QED
      BY <2>1, <3>4 DEF Granted!Next
  <2>4. QED
    BY <1>5, <2>2, <2>3 DEF ChangePassword
<1>6. ASSUME NEW u \in Accounts, NEW wish \in {"activate", "deactivate", "leave"},
             NEW password \in BOOLEAN, PatchReads(r, u, wish, password)
      PROVE  [Granted!Next]_Granted!vars
  <2> DEFINE at == IF wish = "deactivate" THEN "count" ELSE "sweep"
             sweeps == (IF password THEN 1 ELSE 0) + (IF wish = "deactivate" THEN 1 ELSE 0)
             existing == ToBeEnded(u, wish, password)
             x == [Open("patch", at) EXCEPT
                     !.account = u, !.wish = wish, !.was = account[u],
                     !.sweeps = sweeps, !.existing = existing]
  <2>1. req' = [req EXCEPT ![r] = x] /\ x.existing = existing
    BY <1>6 DEF PatchReads, Open
  <2>2. ToEnd[r] = {}
    BY <1>6, NothingToEnd DEF PatchReads, ByResponder, Under
  <2>3. x \in Request
    <3>1. /\ Open("patch", at) \in Request
          /\ existing \in SUBSET Tokens /\ sweeps \in 0..2 /\ account[u] \in AccountState
      BY DEF Open, Request, ToBeEnded, TokensOf, AccountsInv, TypeOK, AccountState
    <3> DEFINE y == Open("patch", at)
    <3> HIDE DEF sweeps, existing, y
    <3>2. [y EXCEPT !.account = u] \in Request
      BY <3>1, RequestFields DEF y
    <3>3. [y EXCEPT !.account = u, !.wish = wish] \in Request
      BY <3>2, RequestFields
    <3>4. [y EXCEPT !.account = u, !.wish = wish, !.was = account[u]] \in Request
      BY <3>1, <3>3, RequestFields
    <3>5. [y EXCEPT !.account = u, !.wish = wish, !.was = account[u], !.sweeps = sweeps] \in Request
      BY <3>1, <3>4, RequestFields
    <3>6. QED
      BY <3>1, <3>5, RequestFields DEF y
  <2> HIDE DEF x
  <2>4. CASE password \/ wish = "deactivate"
    <3>1. x.existing = TokensOf(u)
      BY <2>1, <2>4 DEF ToBeEnded
    <3>2. Granted!Give(r, u)
      BY <1>2, <2>1, <2>2, <2>3, <3>1, NoneAssumption, RequestGives
    <3>3. QED
      BY <3>2 DEF Granted!Next
  <2>5. CASE ~ (password \/ wish = "deactivate")
    <3>1. x.existing = {}
      BY <2>1, <2>5 DEF ToBeEnded
    <3>2. QED
      BY <1>2, <2>1, <2>2, <3>1, QuietStutters
  <2>6. QED
    BY <2>4, <2>5
<1>7. ASSUME PatchCounts(r)
      PROVE  [Granted!Next]_Granted!vars
  <2> DEFINE others == ActiveTeam \ {req[r].account}
             x == [req[r] EXCEPT !.at = "sweep", !.others = others]
  <2>1. /\ req[r] # None /\ req[r] \in Request /\ ToEnd[r] = req[r].existing
        /\ others \in SUBSET Accounts
    BY <1>7 DEF PatchCounts, Under, AccountsInv, TypeOK, ToEnd, ActiveTeam
  <2>2. CASE Ends(r)
    BY <1>2, <2>2, EndForgets DEF Granted!Next
  <2>3. CASE req' = [req EXCEPT ![r] = x]
    <3>1. x.existing = req[r].existing
      BY <2>1 DEF Request
    <3>2. x \in Request
      <4> HIDE DEF others
      <4>1. [req[r] EXCEPT !.at = "sweep"] \in Request
        BY <2>1, RequestFields
      <4>2. QED
        BY <2>1, <4>1, RequestFields
    <3> HIDE DEF x
    <3>3. QED
      BY <1>2, <2>1, <2>3, <3>1, <3>2, NoneAssumption, QuietStutters
  <2>4. Ends(r) \/ req' = [req EXCEPT ![r] = x]
    BY <1>7, <2>1 DEF PatchCounts, AccountsInv, TypeOK
  <2>5. QED
    BY <2>2, <2>3, <2>4
<1>8. QED
  BY <1>1, <1>3, <1>4, <1>5, <1>6, <1>7 DEF Team

\* Thirty days pass: a token that has expired still carries its session on,
\* until a refresh finds it so.
LEMMA ExpireMaps ==
    ASSUME AccountsInv, NEW t \in Tokens, Expire(t)
    PROVE  UNCHANGED Granted!vars
<1>1. token[t] \in TokenRow /\ token[t] # None /\ token[t].state = "valid"
  BY DEF Expire, AccountsInv, TypeOK
<1>2. /\ token'[t] \in TokenRow /\ token'[t].state = "expired"
      /\ token'[t].owner = token[t].owner /\ token'[t].session = token[t].session
      /\ \A s \in Tokens \ {t} : token'[s] = token[s]
  BY <1>1 DEF Expire, TokenRow, AccountsInv, TypeOK
<1>3. /\ \A s \in Tokens : (token'[s] = None <=> token[s] = None)
      /\ \A s \in Tokens : (Unrevoked(s)' <=> Unrevoked(s))
      /\ \A s \in Tokens : token[s] # None => /\ token'[s].owner = token[s].owner
                                             /\ token'[s].session = token[s].session
  BY <1>1, <1>2, NoneAssumption DEF Unrevoked
<1>4. \A s \in Tokens : (Begins(s)' <=> Begins(s)) /\ LiveTokens(s)' = LiveTokens(s)
  BY <1>3 DEF Begins, LiveTokens, Unrevoked
<1>5. Owner' = Owner /\ Current' = Current /\ Issued' = Issued
  BY <1>3, <1>4 DEF Owner, Current, Issued, Begins
<1>6. ToEnd' = ToEnd
  BY DEF Expire, ToEnd
<1>7. QED
  BY <1>5, <1>6 DEF Granted!vars

\* Rows that are locked, read and written one by one act as sessions that begin,
\* rotate and end at once: the account table implements module Sessions.
THEOREM AccountsImplementSessions == Spec => SessionsSpec
<1>1. Init => Granted!Init
  BY TheOnlyOne DEF Init, Granted!Init, Owner, Current, Issued, ToEnd, Begins, LiveTokens, Unrevoked
<1>2. AccountsInv /\ [Next]_vars => [Granted!Next]_Granted!vars
  <2> SUFFICES ASSUME AccountsInv, [Next]_vars
               PROVE  [Granted!Next]_Granted!vars
    OBVIOUS
  <2>1. CASE UNCHANGED vars
    BY <2>1, TableSame DEF vars, Granted!vars, ToEnd
  <2>2. CASE Next
    BY <2>2, SignsInMaps, SessionMaps, SweepMaps, TeamMaps, ExpireMaps DEF Next
  <2>3. QED
    BY <2>1, <2>2
<1>3. QED
  BY <1>1, <1>2, AccountsInvariance, PTL DEF Spec, SessionsSpec, Granted!Spec
=============================================================================
