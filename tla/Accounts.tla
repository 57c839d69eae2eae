------------------------------- MODULE Accounts -------------------------------
(***************************************************************************)
(* Accounts and their sessions:                                            *)
(*   app/modules/accounts.py   registration, login, refresh, logout,       *)
(*                             password change, the responder team         *)
(*   app/auth.py               who a request is made by                    *)
(*                                                                         *)
(* These handlers are plain functions: each request runs in a thread of    *)
(* its own with its own database transaction, so they interleave at every  *)
(* statement.  PostgreSQL runs them READ COMMITTED: a statement sees what  *)
(* was committed when it began, and an UPDATE or SELECT FOR UPDATE waits   *)
(* for the row's lock and then looks at the row again.  An action is one   *)
(* statement, or several after which nothing can come between.             *)
(*                                                                         *)
(* Passwords, names and the access tokens' clock are left out: whether a   *)
(* password is right decides only whether a request gets past its first    *)
(* read.                                                                   *)
(***************************************************************************)
EXTENDS Naturals, FiniteSets

CONSTANTS
    Accounts,      \* email addresses, one account each
    Provisioned,   \* responders that scripts/create_responder.py made
    Tokens,        \* bound: the refresh tokens there can be
    Aging,         \* bound: those of them whose thirty days may pass
    Bodies,        \* bound: what a PATCH may set: the active flag, and whether a password
    Requests,      \* requests that may be under way at once
    Key,           \* the API key, a responder without an account
    None           \* no token row, no request

ASSUME AccountAssumption ==
    /\ Provisioned \subseteq Accounts
    /\ {Key, None} \intersect Accounts = {}
    /\ Key # None

ASSUME TokenAssumption == Tokens \subseteq Nat /\ None \notin Tokens

ASSUME RequestAssumption == IsFiniteSet(Requests) /\ IsFiniteSet(Tokens)

VARIABLES
    account,    \* account[u]: absent, a driver, an active or an inactive responder
    token,      \* token[t]: the row of refresh_tokens, or None
    req         \* req[r]: the request under way, or None

vars == <<account, token, req>>

AccountState == {"absent", "driver", "active", "inactive"}

\* `session` is the first token of the chain a token was rotated from.
TokenRow == [owner: Accounts, state: {"valid", "expired", "revoked"}, session: Tokens]

\* `existing` and `others` record, for the properties only, the owner's
\* unrevoked tokens at the request's first read, and the target's active
\* colleagues when they were counted.
Request ==
    [op: {"login", "register", "create", "refresh", "logout", "password", "patch", "any"},
     at: {"admitted", "insert", "load", "rotate", "write", "count", "sweep"},
     account: Accounts \union {Key, None},   \* who signed in, then whose row it is about
     token: Tokens \union {None},            \* the token presented
     sweeps: 0..2,                           \* bulk revocations still to be run
     left: SUBSET Tokens,                    \* rows the running one has yet to visit
     swept: SUBSET Tokens,                   \* rows revoked and not yet committed
     wish: {"activate", "deactivate", "leave"},
     was: AccountState,                      \* the copy of the target's row
     existing: SUBSET Tokens,
     others: SUBSET Accounts]

ASSUME NoneAssumption == None \notin TokenRow \union Request

TypeOK ==
    /\ account \in [Accounts -> AccountState]
    /\ token \in [Tokens -> TokenRow \union {None}]
    /\ req \in [Requests -> Request \union {None}]

Init ==
    /\ account = [u \in Accounts |-> IF u \in Provisioned THEN "active" ELSE "absent"]
    /\ token = [t \in Tokens |-> None]
    /\ req = [r \in Requests |-> None]

-----------------------------------------------------------------------------
(* Rows and locks                                                          *)

Open(op, at) ==
    [op |-> op, at |-> at, account |-> None, token |-> None, sweeps |-> 0,
     left |-> {}, swept |-> {}, wish |-> "leave", was |-> "absent",
     existing |-> {}, others |-> {}]

Under(r, op, at) == req[r] # None /\ req[r].op = op /\ req[r].at = at

Ends(r) == req' = [req EXCEPT ![r] = None]

Unrevoked(t) == token[t] # None /\ token[t].state # "revoked"

\* A faulty variant: the bulk revocation's filter on the account is missing.
TokensOfAll(u) == {t \in Tokens : Unrevoked(t)}

TokensOf(u) == {t \in Tokens : Unrevoked(t) /\ token[t].owner = u}

ActiveTeam == {u \in Accounts : account[u] = "active"}

Responder(u) == account[u] \in {"active", "inactive"}

\* No endpoint deactivates a driver.
MaySignIn(u) == account[u] \in {"driver", "active"}

\* refresh locks the row it reads; a bulk revocation locks the rows it writes.
Holds(r, t) ==
    /\ req[r] # None
    /\ t \in req[r].swept \/ (req[r].op = "refresh" /\ req[r].token = t)

\* A faulty variant: the row is read without FOR UPDATE.
NeverLocked(r, t) == FALSE

LockedByAnother(r, t) == \E q \in Requests \ {r} : Holds(q, t)

\* _new_refresh_token and the insert that the commit makes.
NewToken(t, u, session) == [owner |-> u, state |-> "valid", session |-> session]

Unused(t) == token[t] = None /\ \A s \in Tokens : token[s] = None => t <= s

\* Bound: a request that may issue a token begins only if one is left for it.
Issuing == {r \in Requests : req[r] # None /\ \/ req[r].op \in {"login", "register", "password"}
                                              \/ req[r].at \in {"load", "rotate"}}

Room == Cardinality(Issuing) < Cardinality({t \in Tokens : token[t] = None})

-----------------------------------------------------------------------------
(* Registration and login                                                  *)

\* register finds no account with that email.
Register(r, u) ==
    /\ req[r] = None
    /\ Room
    /\ account[u] = "absent"
    /\ req' = [req EXCEPT ![r] = [Open("register", "insert") EXCEPT !.account = u]]
    /\ UNCHANGED <<account, token>>

\* The account and its first token are committed together, unless another
\* request has inserted the email meanwhile: 409.
RegisterInserts(r) ==
    /\ Under(r, "register", "insert")
    /\ LET u == req[r].account IN
         \/ /\ account[u] = "absent"
            /\ account' = [account EXCEPT ![u] = "driver"]
            /\ \E t \in Tokens : Unused(t) /\ token' = [token EXCEPT ![t] = NewToken(t, u, t)]
         \/ /\ account[u] # "absent"
            /\ UNCHANGED <<account, token>>
    /\ Ends(r)

\* login reads the account and verifies the password.
Login(r, u) ==
    /\ req[r] = None
    /\ Room
    /\ MaySignIn(u)
    /\ req' = [req EXCEPT ![r] = [Open("login", "insert") EXCEPT !.account = u]]
    /\ UNCHANGED <<account, token>>

\* _token_out: the account is not looked at again.
LoginInserts(r) ==
    /\ Under(r, "login", "insert")
    /\ \E t \in Tokens :
          /\ Unused(t)
          /\ token' = [token EXCEPT ![t] = NewToken(t, req[r].account, t)]
    /\ Ends(r)
    /\ UNCHANGED account

-----------------------------------------------------------------------------
(* Refresh and logout                                                      *)

\* A faulty variant: a token that was already rotated is taken again.
RefreshAny(r, t) ==
    /\ req[r] = None
    /\ token[t] # None /\ token[t].state # "expired"
    /\ ~ LockedByAnother(r, t)
    /\ Room
    /\ req' = [req EXCEPT ![r] = [Open("refresh", "load") EXCEPT !.account = token[t].owner,
                                                                  !.token = t]]
    /\ UNCHANGED <<account, token>>

\* The row is locked from here to the commit.
RefreshValid(r, t) ==
    /\ req[r] = None
    /\ token[t] # None /\ token[t].state = "valid"
    /\ ~ LockedByAnother(r, t)
    /\ Room
    /\ req' = [req EXCEPT ![r] = [Open("refresh", "load") EXCEPT !.account = token[t].owner,
                                                                  !.token = t]]
    /\ UNCHANGED <<account, token>>

RefreshExpired(r, t) ==
    /\ req[r] = None
    /\ token[t] # None /\ token[t].state = "expired"
    /\ ~ LockedByAnother(r, t)
    /\ token' = [token EXCEPT ![t].state = "revoked"]
    /\ UNCHANGED <<account, req>>

\* A token that was rotated or revoked is presented again: the owner's other
\* tokens are revoked too.
RefreshReused(r, t) ==
    /\ req[r] = None
    /\ token[t] # None /\ token[t].state = "revoked"
    /\ ~ LockedByAnother(r, t)
    /\ req' = [req EXCEPT ![r] = [Open("refresh", "sweep") EXCEPT
                                    !.account = token[t].owner, !.token = t, !.sweeps = 1,
                                    !.existing = TokensOf(token[t].owner)]]
    /\ UNCHANGED <<account, token>>

\* An account that is not active is answered 401, and the lock is released.
RefreshLoads(r) ==
    /\ Under(r, "refresh", "load")
    /\ \/ /\ MaySignIn(req[r].account)
          /\ req' = [req EXCEPT ![r].at = "rotate"]
       \/ /\ ~ MaySignIn(req[r].account)
          /\ Ends(r)
    /\ UNCHANGED <<account, token>>

\* The token is revoked and its replacement inserted in one commit.
Rotate(r) ==
    /\ Under(r, "refresh", "rotate")
    /\ LET old == req[r].token IN
       \E t \in Tokens :
          /\ Unused(t)
          /\ token' = [token EXCEPT
                         ![old].state = "revoked",
                         ![t] = NewToken(t, req[r].account, token[old].session)]
    /\ Ends(r)
    /\ UNCHANGED account

\* logout reads the row without a lock.
Logout(r, t) ==
    /\ req[r] = None
    /\ Unrevoked(t)
    /\ req' = [req EXCEPT ![r] = [Open("logout", "write") EXCEPT !.token = t]]
    /\ UNCHANGED <<account, token>>

LogoutWrites(r) ==
    /\ Under(r, "logout", "write")
    /\ ~ LockedByAnother(r, req[r].token)
    /\ token' = [token EXCEPT ![req[r].token].state = "revoked"]
    /\ Ends(r)
    /\ UNCHANGED account

\* Thirty days pass.
Expire(t) ==
    /\ t \in Aging
    /\ token[t] # None /\ token[t].state = "valid"
    /\ token' = [token EXCEPT ![t].state = "expired"]
    /\ UNCHANGED <<account, req>>

-----------------------------------------------------------------------------
(* UPDATE refresh_tokens SET revoked_at WHERE user_id = .. AND revoked_at  *)
(* IS NULL, run once or twice by three of the handlers                     *)

Sweeping(r) == req[r] # None /\ req[r].at = "sweep"

\* The statement begins; what others insert from now on it does not see.
SweepStarts(r) ==
    /\ Sweeping(r)
    /\ req[r].left = {}
    /\ req[r].sweeps > 0
    /\ req' = [req EXCEPT ![r].sweeps = @ - 1,
                          ![r].left = TokensOf(req[r].account) \ req[r].swept]
    /\ UNCHANGED <<account, token>>

\* A faulty variant: rows that others hold are skipped.
SweepSkips(r, t) ==
    /\ Sweeping(r)
    /\ t \in req[r].left
    /\ req' = [req EXCEPT ![r].left = @ \ {t},
                          ![r].swept = IF Unrevoked(t) /\ ~ LockedByAnother(r, t)
                                       THEN @ \union {t} ELSE @]
    /\ UNCHANGED <<account, token>>

\* It visits the rows in some order, waits for each lock, and writes the row
\* if it is still unrevoked.
SweepTakes(r, t) ==
    /\ Sweeping(r)
    /\ t \in req[r].left
    /\ ~ LockedByAnother(r, t)
    /\ req' = [req EXCEPT ![r].left = @ \ {t},
                          ![r].swept = IF Unrevoked(t) THEN @ \union {t} ELSE @]
    /\ UNCHANGED <<account, token>>

Swept(r) == Sweeping(r) /\ req[r].left = {} /\ req[r].sweeps = 0

WithSweptRevoked(r) ==
    [t \in Tokens |-> IF t \in req[r].swept THEN [token[t] EXCEPT !.state = "revoked"]
                                            ELSE token[t]]

ReuseCommits(r) ==
    /\ Swept(r)
    /\ req[r].op = "refresh"
    /\ token' = WithSweptRevoked(r)
    /\ Ends(r)
    /\ UNCHANGED account

\* Two transactions that wait for each other: the database aborts one, and
\* the answer is a 500.
Awaits(r, q) == Sweeping(r) /\ r # q /\ \E t \in req[r].left : Holds(q, t)

Aborts(r) ==
    /\ \E S \in SUBSET Requests :
          r \in S /\ \A p \in S : \E q \in S : Awaits(p, q)
    /\ Ends(r)
    /\ UNCHANGED <<account, token>>

-----------------------------------------------------------------------------
(* Requests of a signed-in account: auth.py and the rest of accounts.py    *)

\* The principal of the request, read before the handler runs.
Authenticate(r, p) ==
    /\ req[r] = None
    /\ p # Key => MaySignIn(p)
    /\ req' = [req EXCEPT ![r] = [Open("any", "admitted") EXCEPT !.account = p]]
    /\ UNCHANGED <<account, token>>

\* An account keeps its role.
ByResponder(r) == /\ Under(r, "any", "admitted")
                  /\ req[r].account # Key => Responder(req[r].account)

\* Requests that only read, and those that are refused for what they carry.
Answers(r) ==
    /\ Under(r, "any", "admitted")
    /\ Ends(r)
    /\ UNCHANGED <<account, token>>

\* change_password gets the account that its authentication has loaded in the same
\* session: that copy if it has not been dropped (the session keeps only a weak
\* reference), or else the row as it is now, with a 401 if it may not sign in.
ChangePassword(r) ==
    /\ Under(r, "any", "admitted")
    /\ Room
    /\ req[r].account # Key
    /\ LET u == req[r].account IN
         \/ req' = [req EXCEPT ![r] = [Open("password", "sweep") EXCEPT
                                         !.account = u, !.sweeps = 1,
                                         !.existing = TokensOf(u)]]
         \/ /\ ~ MaySignIn(u)
            /\ Ends(r)
    /\ UNCHANGED <<account, token>>

\* The revocations and the caller's new token are committed together.
PasswordCommits(r) ==
    /\ Swept(r)
    /\ req[r].op = "password"
    /\ \E t \in Tokens :
          /\ Unused(t)
          /\ token' = [WithSweptRevoked(r) EXCEPT ![t] = NewToken(t, req[r].account, t)]
    /\ Ends(r)
    /\ UNCHANGED account

CreateResponder(r, u) ==
    /\ ByResponder(r)
    /\ account[u] = "absent"
    /\ req' = [req EXCEPT ![r] = [Open("create", "insert") EXCEPT !.account = u]]
    /\ UNCHANGED <<account, token>>

\* 409 if the email was inserted meanwhile.
CreateInserts(r) ==
    /\ Under(r, "create", "insert")
    /\ account' = [account EXCEPT ![req[r].account] = IF @ = "absent" THEN "active" ELSE @]
    /\ Ends(r)
    /\ UNCHANGED token

ToBeEnded(u, wish, password) ==
    IF password \/ wish = "deactivate" THEN TokensOf(u) ELSE {}

\* update_responder loads the target.  A body can set a new password, the
\* active flag, or both; a password or a deactivation ends the target's
\* sessions.  One that sets neither is among the Answers.
PatchReads(r, u, wish, password) ==
    /\ ByResponder(r)
    /\ <<wish, password>> \in Bodies
    /\ Responder(u)
    /\ wish = "deactivate" => u # req[r].account
    /\ req' = [req EXCEPT ![r] = [Open("patch", IF wish = "deactivate" THEN "count" ELSE "sweep")
                                  EXCEPT !.account = u, !.wish = wish, !.was = account[u],
                                         !.sweeps = (IF password THEN 1 ELSE 0)
                                                    + (IF wish = "deactivate" THEN 1 ELSE 0),
                                         !.existing = ToBeEnded(u, wish, password)]]
    /\ UNCHANGED <<account, token>>

\* A faulty variant: the target is counted among those who remain.
PatchCountsTarget(r) ==
    /\ Under(r, "patch", "count")
    /\ LET others == ActiveTeam \ {req[r].account} IN
         \/ /\ ActiveTeam # {}
            /\ req' = [req EXCEPT ![r].at = "sweep", ![r].others = others]
         \/ /\ ActiveTeam = {}
            /\ Ends(r)
    /\ UNCHANGED <<account, token>>

\* Nobody else is active: 409.
PatchCounts(r) ==
    /\ Under(r, "patch", "count")
    /\ LET others == ActiveTeam \ {req[r].account} IN
         \/ /\ others # {}
            /\ req' = [req EXCEPT ![r].at = "sweep", ![r].others = others]
         \/ /\ others = {}
            /\ Ends(r)
    /\ UNCHANGED <<account, token>>

\* The column `active` is written only if it differs from the copy.
Patched(u, wish, was) ==
    CASE wish = "activate" /\ was # "active" -> "active"
      [] wish = "deactivate" /\ was # "inactive" -> "inactive"
      [] OTHER -> account[u]

PatchCommits(r) ==
    /\ Swept(r)
    /\ req[r].op = "patch"
    /\ account' = [account EXCEPT ![req[r].account] =
                     Patched(req[r].account, req[r].wish, req[r].was)]
    /\ token' = WithSweptRevoked(r)
    /\ Ends(r)

-----------------------------------------------------------------------------

SignsIn(r) == \/ \E u \in Accounts : Register(r, u) \/ Login(r, u)
              \/ RegisterInserts(r) \/ LoginInserts(r)

Session(r) == \/ \E t \in Tokens : \/ RefreshValid(r, t) \/ RefreshExpired(r, t)
                                   \/ RefreshReused(r, t) \/ Logout(r, t)
              \/ RefreshLoads(r) \/ Rotate(r) \/ LogoutWrites(r)

Sweep(r) == \/ SweepStarts(r) \/ \E t \in Tokens : SweepTakes(r, t)
            \/ ReuseCommits(r) \/ PasswordCommits(r) \/ PatchCommits(r) \/ Aborts(r)

Team(r) == \/ \E p \in Accounts \union {Key} : Authenticate(r, p)
           \/ Answers(r) \/ ChangePassword(r)
           \/ \E u \in Accounts : CreateResponder(r, u)
           \/ CreateInserts(r)
           \/ \E u \in Accounts, wish \in {"activate", "deactivate", "leave"},
                 password \in BOOLEAN : PatchReads(r, u, wish, password)
           \/ PatchCounts(r)

Next == \/ \E r \in Requests : SignsIn(r) \/ Session(r) \/ Sweep(r) \/ Team(r)
        \/ \E t \in Tokens : Expire(t)

Spec == Init /\ [][Next]_vars

-----------------------------------------------------------------------------
(* Properties                                                              *)

\* Refresh tokens rotate: however the requests that present a token
\* interleave, of the tokens that descend from one login at most one is
\* unrevoked.
OneLivePerSession ==
    \A s, t \in Tokens :
       Unrevoked(s) /\ Unrevoked(t) /\ token[s].session = token[t].session => s = t

\* What a request under way may rely on.  It alone holds the rows it works
\* on, so a token being rotated and the tokens it has revoked are unrevoked
\* until it commits; each of the tokens it is to end is one of those, still to
\* be visited, or gone, and all of one account; and who deactivates an account
\* has seen another active.
RequestOK(r) ==
    req[r] # None =>
       /\ req[r].op \notin {"logout", "any"} => req[r].account \in Accounts
       /\ req[r].op = "any" => req[r].account \in Accounts \union {Key}
       /\ req[r].op \in {"refresh", "logout"} =>
             req[r].token \in Tokens /\ token[req[r].token] # None
       /\ req[r].op = "refresh" /\ req[r].at \in {"load", "rotate"} =>
             /\ Unrevoked(req[r].token)
             /\ token[req[r].token].owner = req[r].account
       /\ req[r].at \notin {"count", "sweep"} => req[r].existing = {} /\ req[r].swept = {}
       /\ \A t \in req[r].swept : Unrevoked(t)
       /\ \A t \in req[r].swept \union req[r].left :
             token[t] # None /\ token[t].owner = req[r].account
       /\ \A t \in req[r].existing :
             /\ token[t] # None /\ token[t].owner = req[r].account
             /\ Unrevoked(t) => t \in req[r].swept \union req[r].left \/ req[r].sweeps > 0
       /\ req[r].at = "sweep" /\ req[r].wish = "deactivate" => req[r].others # {}
       /\ req[r].at = "count" \/ req[r].wish # "leave" => req[r].op = "patch"

\* No row is locked twice.
LocksExclude ==
    \A q, r \in Requests : \A t \in Tokens : Holds(q, t) /\ Holds(r, t) => q = r

\* A session's first token stays in the table, and the session with its owner.
SessionsAreRooted ==
    \A t \in Tokens : token[t] # None =>
       LET first == token[token[t].session] IN
       /\ first # None
       /\ first.session = token[t].session /\ first.owner = token[t].owner

\* Row locks, revocations in progress and rotation chains fit together: the
\* invariant from which the properties of this module are proved.
AccountsInv ==
    /\ TypeOK
    /\ \A r \in Requests : RequestOK(r)
    /\ LocksExclude
    /\ SessionsAreRooted
    /\ OneLivePerSession

\* The sessions are what module Sessions describes: a table of rows, written one
\* by one under locks, acts as sessions that begin, rotate and end at once.
LiveTokens(s) == {t \in Tokens : Unrevoked(t) /\ token[t].session = s}

Begins(s) == token[s] # None /\ token[s].session = s

TheOnly(S) == IF S = {} THEN None ELSE CHOOSE t \in S : TRUE

Owner == [s \in Tokens |-> IF Begins(s) THEN token[s].owner ELSE None]

Current == [s \in Tokens |-> TheOnly(LiveTokens(s))]

Issued == {t \in Tokens : token[t] # None}

ToEnd == [r \in Requests |-> IF req[r] = None THEN {} ELSE req[r].existing]

Granted == INSTANCE Sessions WITH
               owner <- Owner, current <- Current, issued <- Issued, promise <- ToEnd

SessionsSpec == Granted!Spec

\* The session that began with token t is over.
Ended(t) == /\ token[t] # None
            /\ \A s \in Tokens : Unrevoked(s) => token[s].session # t

\* A session all of whose tokens are revoked, by a logout, a bulk revocation or
\* a late refresh, is not brought back by a refresh that was under way.
EndedStaysEnded == [][\A t \in Tokens : Ended(t) => Ended(t)']_vars

\* Whoever commits a bulk revocation has revoked every token its account had
\* when the request began, also those that others held locked meanwhile:
\* "Every existing refresh token is revoked" (accounts.py:167).
ExistingTokensAreRevoked ==
    [][\A r \in Requests :
          Swept(r) /\ ~ Sweeping(r)' => \A t \in req[r].existing : ~ Unrevoked(t)']_vars

\* A logout ends its session, unless a refresh has rotated the token since the
\* logout read it; the row is not looked at again (accounts.py:154).
LogoutEndsTheSession ==
    [][\A r \in Requests :
          Under(r, "logout", "write") /\ Unrevoked(req[r].token) /\ LogoutWrites(r) =>
             \A s \in Tokens : token[req[r].token].session = s => Ended(s)']_vars

\* A deactivation that meets nobody else never takes the last responder away:
\* when it does, it had counted an active colleague, whom another request
\* deactivated after the count.
TeamIsLostOnlyInARace ==
    [][ActiveTeam # {} /\ ActiveTeam' = {} =>
         \E r \in Requests :
            /\ Under(r, "patch", "sweep")
            /\ req'[r] = None
            /\ req[r].others # {}]_vars
=============================================================================
