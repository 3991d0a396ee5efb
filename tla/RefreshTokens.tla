---------------------------- MODULE RefreshTokens ----------------------------
(***************************************************************************)
(* iam.RefreshStore and the operations of iam.Service that use it.  A      *)
(* session is a pair of Redis keys, one from the token to its user and one *)
(* from the user to its token.  Each Lua script is one step; the Lookup    *)
(* that finds the user of a token, the SELECT of the user and the UPDATE   *)
(* after RevokeAll are steps of their own, between which every other       *)
(* request may run.  A request may also end between any two of its steps   *)
(* (an error of the next call, a cancelled context, a crash of the API),   *)
(* and the reply to a script may be lost after the script has run.         *)
(***************************************************************************)
EXTENDS Naturals, FiniteSets

CONSTANTS
    Users,           \* users
    Tokens,          \* refresh tokens, each drawn at most once (newRefreshToken)
    Requests,        \* requests in flight
    None,            \* no user, no token
    MaxRevocations,  \* how often RevokeAll may be called for a user (a bound)
    MaxResets        \* how often a password may be reset (a bound)

ASSUME RefreshAssumption ==
    /\ None \notin Users \cup Tokens
    /\ MaxRevocations \in Nat
    /\ MaxResets \in Nat

VARIABLES
    tokenKey,  \* tokenKey(t): the user a live token belongs to
    userKey,   \* userKey(u): the token of the user's session
    active,    \* users.is_active
    password,  \* users.password_hash, as the number of resets so far
    used,      \* the tokens drawn so far
    held,      \* the tokens clients have received
    req,       \* where each request is, and what it has read
    revs,      \* history: the number of RevokeAll scripts run for each user
    epoch,     \* history: the value of revs when the token's session was opened
    parent     \* history: the token that was rotated to this one

keys == <<tokenKey, userKey>>
history == <<revs, epoch, parent>>
vars == <<tokenKey, userKey, active, password, used, held, req, history>>

Points == {"idle", "issue", "user", "rotate", "revoke", "consume", "password", "deactivate"}

Request == [at : Points, user : Users \cup {None}, token : Tokens \cup {None}]

Idle == [at |-> "idle", user |-> None, token |-> None]

TypeOK ==
    /\ tokenKey \in [Tokens -> Users \cup {None}]
    /\ userKey \in [Users -> Tokens \cup {None}]
    /\ active \in [Users -> BOOLEAN]
    /\ password \in [Users -> Nat]
    /\ used \subseteq Tokens
    /\ held \subseteq used
    /\ req \in [Requests -> Request]
    /\ revs \in [Users -> Nat]
    /\ epoch \in [Tokens -> Nat]
    /\ parent \in [Tokens -> Tokens \cup {None}]

Init ==
    /\ tokenKey = [t \in Tokens |-> None]
    /\ userKey = [u \in Users |-> None]
    /\ active = [u \in Users |-> TRUE]
    /\ password = [u \in Users |-> 0]
    /\ used = {}
    /\ held = {}
    /\ req = [r \in Requests |-> Idle]
    /\ revs = [u \in Users |-> 0]
    /\ epoch = [t \in Tokens |-> 0]
    /\ parent = [t \in Tokens |-> None]

(***************************************************************************)
(* The scripts.  Each is one atomic step of Redis.                         *)
(***************************************************************************)

\* Faulty variant: the previous token stays.
Replace_KeepPrevious(u, t) ==
    /\ tokenKey' = [tokenKey EXCEPT ![t] = u]
    /\ userKey' = [userKey EXCEPT ![u] = t]

\* replaceRefreshScript: the previous session of u ends, t opens a new one.
Replace(u, t) ==
    /\ tokenKey' = [x \in Tokens |-> IF x = t THEN u
                                     ELSE IF x = userKey[u] THEN None ELSE tokenKey[x]]
    /\ userKey' = [userKey EXCEPT ![u] = t]

\* Faulty variant: the script trusts the Lookup that preceded it.
MayRotate_Unchecked(u, old) == TRUE

\* The checks of rotateRefreshScript.
MayRotate(u, old) == tokenKey[old] = u /\ userKey[u] = old

\* rotateRefreshScript, past its checks.
Rotate(u, old, t) ==
    /\ tokenKey' = [tokenKey EXCEPT ![old] = None, ![t] = u]
    /\ userKey' = [userKey EXCEPT ![u] = t]

\* Faulty variant: the script deletes what Lookup found without looking again.
Revoke_Stale(u, t) ==
    /\ tokenKey' = [tokenKey EXCEPT ![t] = None]
    /\ userKey' = [userKey EXCEPT ![u] = None]

\* revokeRefreshScript.  u is the user Lookup found.
Revoke(u, t) ==
    \/ tokenKey[t] = None /\ UNCHANGED keys
    \/ /\ tokenKey[t] # None
       /\ tokenKey' = [tokenKey EXCEPT ![t] = None]
       /\ userKey' = [userKey EXCEPT ![u] = IF @ = t THEN None ELSE @]

\* consumeRefreshScript.
Consume(u, t) ==
    \/ (tokenKey[t] = None \/ userKey[u] # t) /\ UNCHANGED keys
    \/ /\ tokenKey[t] # None /\ userKey[u] = t
       /\ tokenKey' = [tokenKey EXCEPT ![t] = None]
       /\ userKey' = [userKey EXCEPT ![u] = None]

\* Faulty variant: only the user's key is deleted.
RevokeAll_IndexOnly(u) ==
    /\ userKey' = [userKey EXCEPT ![u] = None]
    /\ revs' = [revs EXCEPT ![u] = @ + 1]
    /\ UNCHANGED tokenKey

\* revokeAllRefreshScript: the session of u ends, if there is one.
RevokeAll(u) ==
    /\ tokenKey' = [t \in Tokens |-> IF t = userKey[u] THEN None ELSE tokenKey[t]]
    /\ userKey' = [userKey EXCEPT ![u] = None]
    /\ revs' = [revs EXCEPT ![u] = @ + 1]

(***************************************************************************)
(* Requests                                                                *)
(***************************************************************************)
Goto(r, at, u, t) == req' = [req EXCEPT ![r] = [at |-> at, user |-> u, token |-> t]]

Done(r) == req' = [req EXCEPT ![r] = Idle]

\* The reply to the script that stored t arrives, or is lost.
Reply(t) == held' \in {held, held \cup {t}}

\* Login: the user and the password are checked, by SELECT and Verify.
LoginRead(r, u) ==
    /\ req[r].at = "idle"
    /\ active[u]
    /\ Goto(r, "issue", u, None)
    /\ UNCHANGED <<tokenKey, userKey, active, password, used, held, history>>

\* Login: issuePair and RefreshStore.Issue.
LoginIssue(r, t) ==
    LET u == req[r].user IN
    /\ req[r].at = "issue"
    /\ t \notin used
    /\ Replace(u, t)
    /\ used' = used \cup {t}
    /\ Reply(t)
    /\ epoch' = [epoch EXCEPT ![t] = revs[u]]
    /\ Done(r)
    /\ UNCHANGED <<active, password, revs, parent>>

\* Refresh, Logout and Consume begin with Lookup.  A token that is not stored
\* ends the request there.
Lookup(r, t, next) ==
    /\ req[r].at = "idle"
    /\ t \in held
    /\ tokenKey[t] # None
    /\ Goto(r, next, tokenKey[t], t)
    /\ UNCHANGED <<tokenKey, userKey, active, password, used, held, history>>

\* Refresh: the user must be active (otherwise the request ends).
RefreshUser(r) ==
    /\ req[r].at = "user"
    /\ active[req[r].user]
    /\ Goto(r, "rotate", req[r].user, req[r].token)
    /\ UNCHANGED <<tokenKey, userKey, active, password, used, held, history>>

\* Refresh: RefreshStore.Rotate.
RefreshRotate(r, t) ==
    LET u == req[r].user  old == req[r].token IN
    /\ req[r].at = "rotate"
    /\ t \notin used
    /\ MayRotate(u, old)
    /\ Rotate(u, old, t)
    /\ used' = used \cup {t}
    /\ Reply(t)
    /\ epoch' = [epoch EXCEPT ![t] = epoch[old]]
    /\ parent' = [parent EXCEPT ![t] = old]
    /\ Done(r)
    /\ UNCHANGED <<active, password, revs>>

\* Logout: RefreshStore.Revoke after its Lookup.
LogoutRevoke(r) ==
    /\ req[r].at = "revoke"
    /\ Revoke(req[r].user, req[r].token)
    /\ Done(r)
    /\ UNCHANGED <<active, password, used, held, history>>

\* RefreshStore.Consume after its Lookup.
ConsumeToken(r) ==
    /\ req[r].at = "consume"
    /\ Consume(req[r].user, req[r].token)
    /\ Done(r)
    /\ UNCHANGED <<active, password, used, held, history>>

\* RevokeAll: the first step of ResetUserPassword and of SetUserActive(false),
\* and the last of AuthenticationService.Disable.  When its reply is lost the
\* caller gives up.
Revocation(r, u, next) ==
    /\ req[r].at = "idle"
    /\ revs[u] < MaxRevocations
    /\ RevokeAll(u)
    /\ \/ next = "idle" /\ UNCHANGED req
       \/ next # "idle" /\ Goto(r, next, u, None)
    /\ UNCHANGED <<active, password, used, held, epoch, parent>>

\* ResetUserPassword: UpdateUserPassword after RevokeAll.
ResetWrite(r) ==
    /\ req[r].at = "password"
    /\ password[req[r].user] < MaxResets
    /\ password' = [password EXCEPT ![req[r].user] = @ + 1]
    /\ Done(r)
    /\ UNCHANGED <<tokenKey, userKey, active, used, held, history>>

\* SetUserActive(false): the UPDATE after RevokeAll.
DeactivateWrite(r) ==
    /\ req[r].at = "deactivate"
    /\ active' = [active EXCEPT ![req[r].user] = FALSE]
    /\ Done(r)
    /\ UNCHANGED <<tokenKey, userKey, password, used, held, history>>

\* SetUserActive(true): no session is touched.
Activate(u) ==
    /\ ~active[u]
    /\ active' = [active EXCEPT ![u] = TRUE]
    /\ UNCHANGED <<tokenKey, userKey, password, used, held, req, history>>

\* A request ends before its next step: a refusal, an error or a crash.
Abandon(r) ==
    /\ req[r].at # "idle"
    /\ Done(r)
    /\ UNCHANGED <<tokenKey, userKey, active, password, used, held, history>>

\* Redis: both keys of a session are written with the same PX by the same
\* script, so they expire together.
Expire(u) ==
    /\ userKey[u] # None
    /\ tokenKey' = [tokenKey EXCEPT ![userKey[u]] = None]
    /\ userKey' = [userKey EXCEPT ![u] = None]
    /\ UNCHANGED <<active, password, used, held, req, history>>

Next ==
    \/ \E r \in Requests :
         \/ \E u \in Users : LoginRead(r, u)
         \/ \E u \in Users, next \in {"idle", "password", "deactivate"} : Revocation(r, u, next)
         \/ \E t \in Tokens : LoginIssue(r, t) \/ RefreshRotate(r, t)
         \/ \E t \in Tokens, next \in {"user", "revoke", "consume"} : Lookup(r, t, next)
         \/ RefreshUser(r) \/ LogoutRevoke(r) \/ ConsumeToken(r)
         \/ ResetWrite(r) \/ DeactivateWrite(r) \/ Abandon(r)
    \/ \E u \in Users : Activate(u) \/ Expire(u)

Spec == Init /\ [][Next]_vars

(***************************************************************************)
(* Properties                                                              *)
(***************************************************************************)
\* The two keys of a session point at each other and exist together, so a user
\* has one session at most: no token outlives the index entry through which
\* RevokeAll would find it.
IndexConsistent ==
    \A u \in Users, t \in Tokens : userKey[u] = t <=> tokenKey[t] = u

\* RevokeAll ends every session opened before it, for good: a refresh that was
\* between its Lookup and its Rotate cannot carry the session over it.
RevocationHolds ==
    \A t \in Tokens, u \in Users : tokenKey[t] = u => epoch[t] = revs[u]

\* A token is rotated once: of several refreshes that looked the same token up
\* one gets a successor, and a token with a successor is dead.
RotatedOnce ==
    \A s, t \in Tokens :
        parent[t] # None =>
            /\ parent[s] = parent[t] => s = t
            /\ tokenKey[parent[t]] = None

\* A request that ends a session by its token (Logout, Consume, Refresh) ends
\* that session only: a session opened since its Lookup is left alone.
OthersUntouched ==
    [][\A r \in Requests, u \in Users :
         /\ req[r].at \in {"rotate", "revoke", "consume"} /\ req'[r].at = "idle"
         /\ userKey[u] # None /\ userKey'[u] # userKey[u]
         => userKey[u] = req[r].token]_vars
=============================================================================
