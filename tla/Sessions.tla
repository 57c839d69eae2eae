------------------------------- MODULE Sessions -------------------------------
(***************************************************************************)
(* What the accounts promise about sessions, with threads, locks and rows  *)
(* left out: a session begins at one sign-in, is carried on by one refresh *)
(* token at a time, which is never one that was handed out before, and     *)
(* once over stays over.                                                   *)
(*                                                                         *)
(* Ending all sessions of an account (a new password, a deactivation, a    *)
(* refresh token that is presented twice) is promised in one moment and    *)
(* done in a later one, in which the chosen sessions end together.  A      *)
(* promise names the tokens that are good when it is given: a session that *)
(* is refreshed before the promise is kept may survive it.                 *)
(***************************************************************************)

CONSTANTS Accounts, Tokens, Requests, None

VARIABLES owner,     \* owner[s]: the account of the session that began with token s, or None
          current,   \* current[s]: the token that carries it on, or None
          issued,    \* the tokens handed out so far
          promise    \* promise[r]: the tokens that request r is to put an end to

vars == <<owner, current, issued, promise>>

Init == /\ owner = [s \in Tokens |-> None]
        /\ current = [s \in Tokens |-> None]
        /\ issued = {}
        /\ promise = [r \in Requests |-> {}]

\* The sessions of account u that are not over.
LiveOf(u) == {s \in Tokens : owner[s] = u /\ current[s] # None}

WithEnded(S) == [s \in Tokens |-> IF s \in S THEN None ELSE current[s]]

Begin(t, u) ==
    /\ t \notin issued
    /\ owner' = [owner EXCEPT ![t] = u]
    /\ current' = [current EXCEPT ![t] = t]
    /\ issued' = issued \union {t}
    /\ UNCHANGED promise

Rotate(s, t) ==
    /\ current[s] # None
    /\ t \notin issued
    /\ current' = [current EXCEPT ![s] = t]
    /\ issued' = issued \union {t}
    /\ UNCHANGED <<owner, promise>>

End(s) ==
    /\ current[s] # None
    /\ current' = WithEnded({s})
    /\ UNCHANGED <<owner, issued, promise>>

Give(r, u) ==
    /\ promise[r] = {}
    /\ promise' = [promise EXCEPT ![r] = {current[s] : s \in LiveOf(u)}]
    /\ UNCHANGED <<owner, current, issued>>

\* What a promise names is over when it is kept; what else ends is the same
\* account's.
Fulfils(S, r, u) ==
    /\ S \subseteq LiveOf(u)
    /\ \A s \in Tokens : current[s] \in promise[r] => s \in S

Keep(r, u, S) ==
    /\ Fulfils(S, r, u)
    /\ current' = WithEnded(S)
    /\ promise' = [promise EXCEPT ![r] = {}]
    /\ UNCHANGED <<owner, issued>>

\* Whoever sets a new password goes on with a new session, begun in the same
\* moment.
KeepAndBegin(r, u, S, t) ==
    /\ Fulfils(S, r, u)
    /\ t \notin issued
    /\ owner' = [owner EXCEPT ![t] = u]
    /\ current' = [WithEnded(S) EXCEPT ![t] = t]
    /\ issued' = issued \union {t}
    /\ promise' = [promise EXCEPT ![r] = {}]

\* A request may be refused after all, or fail.
Forget(r) ==
    /\ promise' = [promise EXCEPT ![r] = {}]
    /\ UNCHANGED <<owner, current, issued>>

Next == \/ \E r \in Requests : Forget(r)
        \/ \E s \in Tokens : End(s) \/ \E t \in Tokens : Rotate(s, t)
        \/ \E u \in Accounts :
              \/ \E t \in Tokens : Begin(t, u)
              \/ \E r \in Requests :
                    \/ Give(r, u)
                    \/ \E S \in SUBSET LiveOf(u) :
                          Keep(r, u, S) \/ \E t \in Tokens : KeepAndBegin(r, u, S, t)

Spec == Init /\ [][Next]_vars
=============================================================================
