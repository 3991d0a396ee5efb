------------------------- MODULE RefreshTokensProofs -------------------------
(***************************************************************************)
(* Proofs about RefreshTokens, for any numbers of users, tokens and        *)
(* requests.                                                               *)
(***************************************************************************)
EXTENDS RefreshTokens, TLAPS

(***************************************************************************)
(* Between its steps a request remembers a user and, after Lookup, a token *)
(* of that user: the token has been drawn, and if it is still stored it is *)
(* stored for the user the request remembers.  This is what makes scripts  *)
(* that get the user from an earlier Lookup work on the right pair of keys.*)
(***************************************************************************)
LookedUp == {"user", "rotate", "revoke", "consume"}

RequestOK(r) ==
    /\ req[r].at # "idle" => req[r].user \in Users
    /\ req[r].at \in LookedUp =>
         /\ req[r].token \in used
         /\ tokenKey[req[r].token] \in {None, req[r].user}

RequestsOK == \A r \in Requests : RequestOK(r)

\* A token that has not been drawn yet is not stored and has no history.
UndrawnDead == \A t \in Tokens \ used : tokenKey[t] = None /\ parent[t] = None

\* The predecessor of a token has been drawn and is gone.
ParentDead ==
    \A t \in Tokens : parent[t] # None => parent[t] \in used /\ tokenKey[parent[t]] = None

RefreshInv ==
    /\ TypeOK
    /\ RequestsOK
    /\ IndexConsistent
    /\ UndrawnDead
    /\ ParentDead
    /\ RevocationHolds
    /\ RotatedOnce

(***************************************************************************)
(* What a step may do to the keys                                          *)
(***************************************************************************)
\* The session of u ends.
Closed(u) ==
    /\ tokenKey' = [t \in Tokens |-> IF t = userKey[u] THEN None ELSE tokenKey[t]]
    /\ userKey' = [userKey EXCEPT ![u] = None]

\* revokeRefreshScript and consumeRefreshScript, given the user that Lookup
\* found, do nothing or end exactly the session of that user.
LEMMA RevokeCloses ==
  ASSUME TypeOK, IndexConsistent, NEW u \in Users, NEW t \in Tokens,
         tokenKey[t] \in {None, u}, Revoke(u, t) \/ Consume(u, t)
  PROVE  UNCHANGED keys \/ (Closed(u) /\ userKey[u] = t)
<1>1. CASE tokenKey[t] = None \/ userKey[u] # t
  BY <1>1 DEF Revoke, Consume, IndexConsistent, keys
<1>2. CASE tokenKey[t] = u /\ userKey[u] = t
  <2>1. tokenKey' = [tokenKey EXCEPT ![t] = None]
    BY <1>2, RefreshAssumption DEF Revoke, Consume
  <2>2. userKey' = [userKey EXCEPT ![u] = None]
    BY <1>2, RefreshAssumption DEF Revoke, Consume
  <2>3. tokenKey' = [x \in Tokens |-> IF x = userKey[u] THEN None ELSE tokenKey[x]]
    BY <1>2, <2>1 DEF TypeOK
  <2> QED
    BY <1>2, <2>2, <2>3 DEF Closed
<1> QED
  BY <1>1, <1>2, RefreshAssumption DEF IndexConsistent

\* rotateRefreshScript, past its checks, replaces the session of u.
LEMMA RotateReplaces ==
  ASSUME TypeOK, NEW u \in Users, NEW old \in Tokens, NEW t \in Tokens,
         t # old, MayRotate(u, old), Rotate(u, old, t)
  PROVE  Replace(u, t)
<1>1. tokenKey' = [x \in Tokens |-> IF x = t THEN u
                                    ELSE IF x = userKey[u] THEN None ELSE tokenKey[x]]
  BY DEF TypeOK, MayRotate, Rotate
<1> QED
  BY <1>1 DEF Rotate, Replace

\* Ending a session keeps the two keys consistent.
LEMMA ClosedKeys ==
  ASSUME TypeOK, IndexConsistent, NEW u \in Users, Closed(u)
  PROVE  /\ tokenKey' \in [Tokens -> Users \cup {None}]
         /\ userKey' \in [Users -> Tokens \cup {None}]
         /\ IndexConsistent'
         /\ \A t \in Tokens : tokenKey'[t] \in {None, tokenKey[t]}
         /\ \A t \in Tokens : tokenKey'[t] # u
         /\ \A v \in Users \ {u} : userKey'[v] = userKey[v]
BY RefreshAssumption DEF TypeOK, IndexConsistent, Closed

\* Opening a session with a new token keeps the two keys consistent and leaves
\* the sessions of the other users alone.
LEMMA ReplaceKeys ==
  ASSUME TypeOK, IndexConsistent, UndrawnDead,
         NEW u \in Users, NEW t \in Tokens \ used, Replace(u, t)
  PROVE  /\ tokenKey' \in [Tokens -> Users \cup {None}]
         /\ userKey' \in [Users -> Tokens \cup {None}]
         /\ IndexConsistent'
         /\ tokenKey'[t] = u
         /\ \A x \in Tokens \ {t} : tokenKey'[x] \in {None, tokenKey[x]}
         /\ \A x \in Tokens \ {t} : tokenKey'[x] # u
         /\ \A v \in Users \ {u} : userKey'[v] = userKey[v]
BY RefreshAssumption DEF TypeOK, IndexConsistent, UndrawnDead, Replace

(***************************************************************************)
(* Every step leaves the sessions alone, ends one or opens one.            *)
(***************************************************************************)
StayStep == UNCHANGED <<tokenKey, userKey, used, revs, epoch, parent>>

CloseStep(u) ==
    /\ Closed(u)
    /\ UNCHANGED <<used, epoch, parent>>
    /\ revs' = revs \/ revs' = [revs EXCEPT ![u] = @ + 1]

OpenStep(u, t) ==
    /\ Replace(u, t)
    /\ used' = used \cup {t}
    /\ UNCHANGED revs
    /\ \/ epoch' = [epoch EXCEPT ![t] = revs[u]] /\ UNCHANGED parent
       \/ \E old \in used :
            /\ tokenKey[old] = u /\ userKey[u] = old
            /\ epoch' = [epoch EXCEPT ![t] = epoch[old]]
            /\ parent' = [parent EXCEPT ![t] = old]

\* The classification of steps: scripts that are given a stale user or token
\* do not exist, because a request remembers a matching pair.
LEMMA Classify ==
  ASSUME TypeOK, RequestsOK, IndexConsistent, [Next]_vars
  PROVE  \/ StayStep
         \/ \E u \in Users : CloseStep(u)
         \/ \E u \in Users : \E t \in Tokens \ used : OpenStep(u, t)
<1> USE DEF history
<1>1. CASE UNCHANGED vars
  BY <1>1 DEF vars, StayStep
<1>2. ASSUME NEW r \in Requests, NEW u \in Users, LoginRead(r, u) PROVE StayStep
  BY <1>2 DEF LoginRead, StayStep
<1>3. ASSUME NEW r \in Requests, NEW u \in Users, NEW next, Revocation(r, u, next)
      PROVE  CloseStep(u)
  BY <1>3 DEF Revocation, RevokeAll, CloseStep, Closed
<1>4. ASSUME NEW r \in Requests, NEW t \in Tokens, LoginIssue(r, t)
      PROVE  t \notin used /\ req[r].user \in Users /\ OpenStep(req[r].user, t)
  <2>1. req[r].user \in Users
    BY <1>4 DEF LoginIssue, RequestsOK, RequestOK
  <2> QED
    BY <1>4, <2>1 DEF LoginIssue, OpenStep
<1>5. ASSUME NEW r \in Requests, NEW t \in Tokens, RefreshRotate(r, t)
      PROVE  t \notin used /\ req[r].user \in Users /\ OpenStep(req[r].user, t)
  <2>1. req[r].user \in Users /\ req[r].token \in used /\ t \notin used
    BY <1>5 DEF RefreshRotate, RequestsOK, RequestOK, LookedUp
  <2>2. MayRotate(req[r].user, req[r].token) /\ Rotate(req[r].user, req[r].token, t)
    BY <1>5 DEF RefreshRotate
  <2>3. Replace(req[r].user, t)
    BY <2>1, <2>2, RotateReplaces DEF TypeOK
  <2> QED
    BY <1>5, <2>1, <2>2, <2>3 DEF RefreshRotate, OpenStep, MayRotate
<1>6. ASSUME NEW r \in Requests, NEW t \in Tokens, NEW next, Lookup(r, t, next) PROVE StayStep
  BY <1>6 DEF Lookup, StayStep
<1>7. ASSUME NEW r \in Requests, RefreshUser(r) PROVE StayStep
  BY <1>7 DEF RefreshUser, StayStep
<1>8. ASSUME NEW r \in Requests, LogoutRevoke(r) \/ ConsumeToken(r)
      PROVE  StayStep \/ \E u \in Users : CloseStep(u)
  <2>1. /\ req[r].user \in Users /\ req[r].token \in Tokens
        /\ tokenKey[req[r].token] \in {None, req[r].user}
    BY <1>8 DEF LogoutRevoke, ConsumeToken, RequestsOK, RequestOK, LookedUp, TypeOK
  <2>2. UNCHANGED keys \/ Closed(req[r].user)
    BY <1>8, <2>1, RevokeCloses DEF LogoutRevoke, ConsumeToken
  <2>3. UNCHANGED <<used, revs, epoch, parent>>
    BY <1>8 DEF LogoutRevoke, ConsumeToken
  <2> QED
    BY <2>1, <2>2, <2>3 DEF StayStep, CloseStep, keys
<1>9. ASSUME NEW r \in Requests, ResetWrite(r) \/ DeactivateWrite(r) \/ Abandon(r)
      PROVE  StayStep
  BY <1>9 DEF ResetWrite, DeactivateWrite, Abandon, StayStep
<1>10. ASSUME NEW u \in Users, Activate(u) PROVE StayStep
  BY <1>10 DEF Activate, StayStep
<1>11. ASSUME NEW u \in Users, Expire(u) PROVE CloseStep(u)
  <2>1. tokenKey' = [t \in Tokens |-> IF t = userKey[u] THEN None ELSE tokenKey[t]]
    BY <1>11 DEF Expire, TypeOK
  <2> QED
    BY <1>11, <2>1 DEF Expire, CloseStep, Closed
<1> QED
  BY <1>1, <1>2, <1>3, <1>4, <1>5, <1>6, <1>7, <1>8, <1>9, <1>10, <1>11 DEF Next

\* The statements about sessions are kept by each kind of step.
LEMMA SessionStep ==
  RefreshInv /\ [Next]_vars =>
    /\ tokenKey' \in [Tokens -> Users \cup {None}]
    /\ userKey' \in [Users -> Tokens \cup {None}]
    /\ used \subseteq used' /\ used' \subseteq Tokens
    /\ revs' \in [Users -> Nat]
    /\ epoch' \in [Tokens -> Nat]
    /\ parent' \in [Tokens -> Tokens \cup {None}]
    /\ \A t \in used : tokenKey'[t] \in {None, tokenKey[t]}
    /\ IndexConsistent' /\ UndrawnDead' /\ ParentDead' /\ RevocationHolds' /\ RotatedOnce'
<1> SUFFICES ASSUME RefreshInv, [Next]_vars
             PROVE  /\ tokenKey' \in [Tokens -> Users \cup {None}]
                    /\ userKey' \in [Users -> Tokens \cup {None}]
                    /\ used \subseteq used' /\ used' \subseteq Tokens
                    /\ revs' \in [Users -> Nat]
                    /\ epoch' \in [Tokens -> Nat]
                    /\ parent' \in [Tokens -> Tokens \cup {None}]
                    /\ \A t \in used : tokenKey'[t] \in {None, tokenKey[t]}
                    /\ IndexConsistent' /\ UndrawnDead' /\ ParentDead'
                    /\ RevocationHolds' /\ RotatedOnce'
  OBVIOUS
<1> USE RefreshAssumption DEF RefreshInv
<1>1. CASE StayStep
  BY <1>1 DEF StayStep, TypeOK, IndexConsistent, UndrawnDead, ParentDead,
              RevocationHolds, RotatedOnce
<1>2. ASSUME NEW u \in Users, CloseStep(u)
      PROVE  /\ tokenKey' \in [Tokens -> Users \cup {None}]
             /\ userKey' \in [Users -> Tokens \cup {None}]
             /\ revs' \in [Users -> Nat]
             /\ UNCHANGED <<used, epoch, parent>>
             /\ \A t \in used : tokenKey'[t] \in {None, tokenKey[t]}
             /\ IndexConsistent' /\ UndrawnDead' /\ ParentDead'
             /\ RevocationHolds' /\ RotatedOnce'
  <2>1. /\ tokenKey' \in [Tokens -> Users \cup {None}]
        /\ userKey' \in [Users -> Tokens \cup {None}]
        /\ IndexConsistent'
        /\ \A t \in Tokens : tokenKey'[t] \in {None, tokenKey[t]}
        /\ \A t \in Tokens : tokenKey'[t] # u
    BY <1>2, ClosedKeys DEF CloseStep
  <2>2. revs' \in [Users -> Nat] /\ \A v \in Users \ {u} : revs'[v] = revs[v]
    BY <1>2 DEF CloseStep, TypeOK
  <2>3. UNCHANGED <<used, epoch, parent>>
    BY <1>2 DEF CloseStep
  <2>4. RevocationHolds'
    BY <2>1, <2>2, <2>3 DEF RevocationHolds, TypeOK
  <2>5. UndrawnDead' /\ ParentDead' /\ RotatedOnce'
    BY <2>1, <2>3 DEF UndrawnDead, ParentDead, RotatedOnce, TypeOK
  <2> QED
    BY <2>1, <2>2, <2>3, <2>4, <2>5 DEF TypeOK
<1>3. ASSUME NEW u \in Users, NEW t \in Tokens \ used, OpenStep(u, t)
      PROVE  /\ tokenKey' \in [Tokens -> Users \cup {None}]
             /\ userKey' \in [Users -> Tokens \cup {None}]
             /\ used' = used \cup {t}
             /\ UNCHANGED revs
             /\ epoch' \in [Tokens -> Nat]
             /\ parent' \in [Tokens -> Tokens \cup {None}]
             /\ \A x \in used : tokenKey'[x] \in {None, tokenKey[x]}
             /\ IndexConsistent' /\ UndrawnDead' /\ ParentDead'
             /\ RevocationHolds' /\ RotatedOnce'
  <2>1. /\ tokenKey' \in [Tokens -> Users \cup {None}]
        /\ userKey' \in [Users -> Tokens \cup {None}]
        /\ IndexConsistent'
        /\ tokenKey'[t] = u
        /\ \A x \in Tokens \ {t} : tokenKey'[x] \in {None, tokenKey[x]}
        /\ \A x \in Tokens \ {t} : tokenKey'[x] # u
    BY <1>3, ReplaceKeys DEF OpenStep
  <2>2. used' = used \cup {t} /\ UNCHANGED revs
    BY <1>3 DEF OpenStep
  <2>3. /\ epoch' \in [Tokens -> Nat] /\ epoch'[t] = revs[u]
        /\ \A x \in Tokens \ {t} : epoch'[x] = epoch[x]
    BY <1>3 DEF OpenStep, TypeOK, RevocationHolds
  <2>4. RevocationHolds'
    BY <2>1, <2>2, <2>3 DEF RevocationHolds, TypeOK
  <2>5. /\ parent' \in [Tokens -> Tokens \cup {None}]
        /\ \A x \in Tokens \ {t} : parent'[x] = parent[x]
        /\ parent'[t] = None \/ (parent'[t] \in used /\ tokenKey[parent'[t]] = u)
    BY <1>3 DEF OpenStep, TypeOK, UndrawnDead
  <2>6. UndrawnDead'
    BY <2>1, <2>2, <2>5 DEF UndrawnDead, TypeOK
  <2>7. parent'[t] # None => parent'[t] # t /\ tokenKey'[parent'[t]] = None
    BY <2>1, <2>5 DEF TypeOK
  <2>8. ParentDead'
    <3> SUFFICES ASSUME NEW x \in Tokens, parent'[x] # None
                 PROVE  parent'[x] \in used' /\ tokenKey'[parent'[x]] = None
      BY DEF ParentDead
    <3>1. CASE x = t
      BY <2>2, <2>5, <2>7, <3>1
    <3>2. CASE x # t
      BY <2>1, <2>2, <2>5, <3>2 DEF ParentDead, TypeOK
    <3> QED
      BY <3>1, <3>2
  <2>9. RotatedOnce'
    <3> SUFFICES ASSUME NEW x \in Tokens, NEW y \in Tokens, parent'[y] # None
                 PROVE  /\ parent'[x] = parent'[y] => x = y
                        /\ tokenKey'[parent'[y]] = None
      BY DEF RotatedOnce
    <3>1. tokenKey'[parent'[y]] = None
      BY <2>8 DEF ParentDead
    <3>2. ASSUME parent'[x] = parent'[y] PROVE x = y
      <4>1. CASE x # t /\ y # t
        BY <2>5, <3>2, <4>1 DEF RotatedOnce
      <4>2. CASE x = t /\ y # t
        BY <2>5, <3>2, <4>2 DEF ParentDead
      <4>3. CASE x # t /\ y = t
        BY <2>5, <3>2, <4>3 DEF ParentDead
      <4> QED
        BY <4>1, <4>2, <4>3
    <3> QED
      BY <3>1, <3>2
  <2>10. \A x \in used : tokenKey'[x] \in {None, tokenKey[x]}
    BY <2>1 DEF TypeOK
  <2> QED
    BY <2>1, <2>2, <2>3, <2>4, <2>5, <2>6, <2>8, <2>9, <2>10
<1> QED
  BY <1>1, <1>2, <1>3, Classify DEF TypeOK

\* A request that changes remembers the user, and the token, that it has just
\* looked up; another one is not affected, because a token that was drawn is
\* never stored again for somebody else.
LEMMA RequestStep == RefreshInv /\ [Next]_vars => req' \in [Requests -> Request] /\ RequestsOK'
<1> SUFFICES ASSUME RefreshInv, [Next]_vars
             PROVE  req' \in [Requests -> Request] /\ RequestsOK'
  OBVIOUS
<1> USE DEF RefreshInv
<1>1. \A t \in used : t \in used' /\ tokenKey'[t] \in {None, tokenKey[t]}
  BY SessionStep
<1>2. req \in [Requests -> Request]
  BY DEF TypeOK
<1>3. Idle \in Request /\ Idle.at = "idle"
  BY DEF Idle, Request, Points
<1>4. ASSUME UNCHANGED req PROVE req' \in [Requests -> Request] /\ RequestsOK'
  BY <1>1, <1>2, <1>4 DEF RequestsOK, RequestOK
<1>5. ASSUME NEW r \in Requests, NEW x \in Request, req' = [req EXCEPT ![r] = x],
             x.at # "idle" => x.user \in Users,
             x.at \in LookedUp => x.token \in used /\ tokenKey'[x.token] \in {None, x.user}
      PROVE  req' \in [Requests -> Request] /\ RequestsOK'
  <2>1. req' \in [Requests -> Request]
    BY <1>2, <1>5
  <2>2. req'[r] = x /\ \A q \in Requests \ {r} : req'[q] = req[q]
    BY <1>2, <1>5
  <2>3. ASSUME NEW q \in Requests PROVE RequestOK(q)'
    <3>1. CASE q = r
      BY <1>1, <1>5, <2>2, <3>1 DEF RequestOK
    <3>2. CASE q # r
      BY <1>1, <2>2, <3>2 DEF RequestsOK, RequestOK
    <3> QED
      BY <3>1, <3>2
  <2> QED
    BY <2>1, <2>3 DEF RequestsOK
<1>6. ASSUME NEW r \in Requests, Done(r) PROVE req' \in [Requests -> Request] /\ RequestsOK'
  BY <1>3, <1>5, <1>6 DEF Done, LookedUp
<1>7. ASSUME NEW r \in Requests, NEW u \in Users, LoginRead(r, u)
      PROVE  req' \in [Requests -> Request] /\ RequestsOK'
  <2> DEFINE x == [at |-> "issue", user |-> u, token |-> None]
  <2>1. x \in Request /\ x.at = "issue" /\ x.user = u
    BY DEF Request, Points, TypeOK
  <2>2. req' = [req EXCEPT ![r] = x]
    BY <1>7 DEF LoginRead, Goto
  <2> HIDE DEF x
  <2> QED
    BY <1>5, <2>1, <2>2 DEF LookedUp
<1>8. ASSUME NEW r \in Requests, NEW u \in Users, NEW next \in {"password", "deactivate"},
             Goto(r, next, u, None)
      PROVE  req' \in [Requests -> Request] /\ RequestsOK'
  <2> DEFINE x == [at |-> next, user |-> u, token |-> None]
  <2>1. x \in Request /\ x.at = next /\ x.user = u
    BY DEF Request, Points
  <2>2. req' = [req EXCEPT ![r] = x]
    BY <1>8 DEF Goto
  <2> HIDE DEF x
  <2> QED
    BY <1>5, <2>1, <2>2 DEF LookedUp
<1>9. ASSUME NEW r \in Requests, NEW u \in Users, NEW t \in used, NEW next \in LookedUp,
             tokenKey[t] \in {None, u}, Goto(r, next, u, t)
      PROVE  req' \in [Requests -> Request] /\ RequestsOK'
  <2> DEFINE x == [at |-> next, user |-> u, token |-> t]
  <2>1. x \in Request /\ x.at = next /\ x.user = u /\ x.token = t
    BY DEF Request, Points, LookedUp, TypeOK
  <2>2. req' = [req EXCEPT ![r] = x]
    BY <1>9 DEF Goto
  <2>3. tokenKey'[t] \in {None, u}
    BY <1>1, <1>9
  <2> HIDE DEF x
  <2> QED
    BY <1>5, <2>1, <2>2, <2>3
<1>10. ASSUME NEW r \in Requests, NEW t \in Tokens, NEW next \in {"user", "revoke", "consume"},
              Lookup(r, t, next)
       PROVE  req' \in [Requests -> Request] /\ RequestsOK'
  <2>1. t \in used /\ tokenKey[t] \in Users /\ Goto(r, next, tokenKey[t], t)
    BY <1>10 DEF Lookup, TypeOK
  <2> QED
    BY <1>9, <2>1 DEF LookedUp
<1>11. ASSUME NEW r \in Requests, RefreshUser(r)
       PROVE  req' \in [Requests -> Request] /\ RequestsOK'
  <2>1. /\ req[r].user \in Users /\ req[r].token \in used
        /\ tokenKey[req[r].token] \in {None, req[r].user}
    BY <1>11 DEF RefreshUser, RequestsOK, RequestOK, LookedUp
  <2>2. Goto(r, "rotate", req[r].user, req[r].token)
    BY <1>11 DEF RefreshUser
  <2> QED
    BY <1>9, <2>1, <2>2 DEF LookedUp
<1>12. ASSUME NEW r \in Requests, NEW u \in Users,
              NEW next \in {"idle", "password", "deactivate"}, Revocation(r, u, next)
       PROVE  req' \in [Requests -> Request] /\ RequestsOK'
  BY <1>4, <1>8, <1>12 DEF Revocation
<1>13. ASSUME NEW r \in Requests, NEW t \in Tokens, LoginIssue(r, t) \/ RefreshRotate(r, t)
       PROVE  req' \in [Requests -> Request] /\ RequestsOK'
  BY <1>6, <1>13 DEF LoginIssue, RefreshRotate
<1>14. ASSUME NEW r \in Requests,
              \/ LogoutRevoke(r) \/ ConsumeToken(r) \/ ResetWrite(r)
              \/ DeactivateWrite(r) \/ Abandon(r)
       PROVE  req' \in [Requests -> Request] /\ RequestsOK'
  BY <1>6, <1>14 DEF LogoutRevoke, ConsumeToken, ResetWrite, DeactivateWrite, Abandon
<1>15. ASSUME NEW u \in Users, Activate(u) \/ Expire(u)
       PROVE  req' \in [Requests -> Request] /\ RequestsOK'
  BY <1>4, <1>15 DEF Activate, Expire
<1>16. CASE UNCHANGED vars
  BY <1>4, <1>16 DEF vars
<1> QED
  BY <1>7, <1>10, <1>11, <1>12, <1>13, <1>14, <1>15, <1>16 DEF Next

\* The rows of users and the sets of tokens keep their types.
LEMMA RowStep ==
  RefreshInv /\ [Next]_vars =>
    /\ active' \in [Users -> BOOLEAN] /\ password' \in [Users -> Nat]
    /\ held' \subseteq used'
<1> SUFFICES ASSUME RefreshInv, [Next]_vars
             PROVE  /\ active' \in [Users -> BOOLEAN] /\ password' \in [Users -> Nat]
                    /\ held' \subseteq used'
  OBVIOUS
<1> USE DEF RefreshInv, history
<1>1. active' \in [Users -> BOOLEAN]
  <2>1. UNCHANGED active \/ \E u \in Users, b \in BOOLEAN : active' = [active EXCEPT ![u] = b]
    <3>1. ASSUME NEW r \in Requests, DeactivateWrite(r)
          PROVE  req[r].user \in Users /\ active' = [active EXCEPT ![req[r].user] = FALSE]
      BY <3>1 DEF DeactivateWrite, RequestsOK, RequestOK
    <3>2. ASSUME NEW u \in Users, Activate(u) PROVE active' = [active EXCEPT ![u] = TRUE]
      BY <3>2 DEF Activate
    <3> QED
      BY <3>1, <3>2 DEF Next, vars, LoginRead, Revocation, LoginIssue, RefreshRotate, Lookup,
           RefreshUser, LogoutRevoke, ConsumeToken, ResetWrite, Abandon, Expire
  <2> QED
    BY <2>1, Zenon DEF TypeOK
<1>2. password' \in [Users -> Nat]
  <2>1. ASSUME NEW r \in Requests, ResetWrite(r) PROVE password' \in [Users -> Nat]
    <3>1. req[r].user \in Users
      BY <2>1 DEF ResetWrite, RequestsOK, RequestOK
    <3>2. password \in [Users -> Nat]
      BY DEF TypeOK
    <3>3. password' = [password EXCEPT ![req[r].user] = password[req[r].user] + 1]
      BY <2>1 DEF ResetWrite
    <3> QED
      BY <3>1, <3>2, <3>3
  <2> QED
    BY <2>1 DEF Next, vars, TypeOK, LoginRead, Revocation, LoginIssue, RefreshRotate, Lookup,
         RefreshUser, LogoutRevoke, ConsumeToken, DeactivateWrite, Abandon, Activate, Expire
<1>3. held' \subseteq used'
  <2>1. ASSUME NEW r \in Requests, NEW t \in Tokens, LoginIssue(r, t)
        PROVE  held' \subseteq used'
    BY <2>1 DEF LoginIssue, Reply, TypeOK
  <2>2. ASSUME NEW r \in Requests, NEW t \in Tokens, RefreshRotate(r, t)
        PROVE  held' \subseteq used'
    <3>1. req[r].token \in Tokens
      BY <2>2 DEF RefreshRotate, RequestsOK, RequestOK, LookedUp, TypeOK
    <3> QED
      BY <2>2, <3>1 DEF RefreshRotate, Reply, TypeOK
  <2>3. CASE UNCHANGED <<held, used>>
    BY <2>3 DEF TypeOK
  <2> QED
    BY <2>1, <2>2, <2>3 DEF Next, vars, LoginRead, Revocation, Lookup, RefreshUser, LogoutRevoke,
         ConsumeToken, ResetWrite, DeactivateWrite, Abandon, Activate, Expire
<1> QED
  BY <1>1, <1>2, <1>3

\* The inductive invariant holds in every reachable state.
THEOREM RefreshInvariant == Spec => []RefreshInv
<1>1. Init => RefreshInv
  <2> SUFFICES ASSUME Init PROVE RefreshInv
    OBVIOUS
  <2> USE RefreshAssumption DEF Init
  <2>1. Idle \in Request /\ Idle.at = "idle"
    BY DEF Idle, Request, Points
  <2>2. active \in [Users -> BOOLEAN]
    BY Zenon
  <2>3. TypeOK
    BY <2>1, <2>2 DEF TypeOK
  <2>4. RequestsOK
    BY <2>1 DEF RequestsOK, RequestOK, LookedUp
  <2>5. IndexConsistent /\ UndrawnDead /\ ParentDead /\ RevocationHolds /\ RotatedOnce
    BY DEF IndexConsistent, UndrawnDead, ParentDead, RevocationHolds, RotatedOnce
  <2> QED
    BY <2>3, <2>4, <2>5 DEF RefreshInv
<1>2. RefreshInv /\ [Next]_vars => RefreshInv'
  <2> SUFFICES ASSUME RefreshInv, [Next]_vars PROVE RefreshInv'
    OBVIOUS
  <2>1. TypeOK'
    BY SessionStep, RequestStep, RowStep, Zenon DEF TypeOK
  <2> QED
    BY <2>1, SessionStep, RequestStep, Zenon DEF RefreshInv
<1> QED
  BY <1>1, <1>2, PTL DEF Spec

\* Every variable keeps its type.
THEOREM TypeCorrect == Spec => []TypeOK
<1>1. RefreshInv => TypeOK
  BY DEF RefreshInv
<1> QED
  BY <1>1, RefreshInvariant, PTL

\* The scripts keep the token keys and the user index consistent.
THEOREM IndexStaysConsistent == Spec => []IndexConsistent
<1>1. RefreshInv => IndexConsistent
  BY DEF RefreshInv
<1> QED
  BY <1>1, RefreshInvariant, PTL

\* No rotation carries a session over a RevokeAll.
THEOREM RevocationsHold == Spec => []RevocationHolds
<1>1. RefreshInv => RevocationHolds
  BY DEF RefreshInv
<1> QED
  BY <1>1, RefreshInvariant, PTL

\* A refresh token is exchanged for one successor at most.
THEOREM TokensRotateOnce == Spec => []RotatedOnce
<1>1. RefreshInv => RotatedOnce
  BY DEF RefreshInv
<1> QED
  BY <1>1, RefreshInvariant, PTL

\* Logout, Consume and Refresh end the session of the token they were given
\* and no other, however late after their Lookup their script runs.
THEOREM OthersStayUntouched == Spec => OthersUntouched
<1> DEFINE Own ==
      \A r \in Requests, u \in Users :
         /\ req[r].at \in {"rotate", "revoke", "consume"} /\ req'[r].at = "idle"
         /\ userKey[u] # None /\ userKey'[u] # userKey[u]
         => userKey[u] = req[r].token
<1>1. RefreshInv /\ [Next]_vars => [Own]_vars
  <2> SUFFICES ASSUME RefreshInv, Next,
                      NEW r \in Requests, NEW u \in Users,
                      req[r].at \in {"rotate", "revoke", "consume"}, req'[r].at = "idle",
                      userKey[u] # None, userKey'[u] # userKey[u]
               PROVE  userKey[u] = req[r].token
    OBVIOUS
  <2> USE DEF RefreshInv
  <2>1. /\ req[r].user \in Users /\ req[r].token \in used /\ req[r].token \in Tokens
        /\ tokenKey[req[r].token] \in {None, req[r].user}
    BY DEF RequestsOK, RequestOK, LookedUp, TypeOK
  <2>2. req'[r] # req[r]
    OBVIOUS
  <2>3. ASSUME NEW q \in Requests, NEW x, req' = [req EXCEPT ![q] = x] PROVE q = r
    BY <2>2, <2>3 DEF TypeOK
  <2>4. ASSUME NEW q \in Requests, LogoutRevoke(q) \/ ConsumeToken(q)
        PROVE  userKey[u] = req[r].token
    <3>1. q = r
      BY <2>3, <2>4 DEF LogoutRevoke, ConsumeToken, Done
    <3>2. \/ UNCHANGED keys
          \/ Closed(req[r].user) /\ userKey[req[r].user] = req[r].token
      BY <2>1, <2>4, <3>1, RevokeCloses DEF LogoutRevoke, ConsumeToken
    <3> QED
      BY <2>1, <3>2, ClosedKeys DEF keys
  <2>5. ASSUME NEW q \in Requests, NEW t \in Tokens, RefreshRotate(q, t)
        PROVE  userKey[u] = req[r].token
    <3>1. q = r
      BY <2>3, <2>5 DEF RefreshRotate, Done
    <3>2. userKey[req[r].user] = req[r].token /\ userKey' = [userKey EXCEPT ![req[r].user] = t]
      BY <2>5, <3>1 DEF RefreshRotate, MayRotate, Rotate
    <3> QED
      BY <2>1, <3>2 DEF TypeOK
  <2>6. ASSUME NEW q \in Requests, NEW t \in Tokens, LoginIssue(q, t) PROVE FALSE
    <3>1. q = r
      BY <2>3, <2>6 DEF LoginIssue, Done
    <3> QED
      BY <2>6, <3>1 DEF LoginIssue
  <2>7. ASSUME NEW q \in Requests, NEW v \in Users, NEW next, Revocation(q, v, next) PROVE FALSE
    <3>1. q = r
      BY <2>2, <2>3, <2>7 DEF Revocation, Goto
    <3> QED
      BY <2>7, <3>1 DEF Revocation
  <2>8. ASSUME NEW v \in Users, Expire(v) PROVE FALSE
    BY <2>2, <2>8 DEF Expire
  <2> QED
    BY <2>4, <2>5, <2>6, <2>7, <2>8 DEF Next, LoginRead, Lookup, RefreshUser, ResetWrite,
         DeactivateWrite, Abandon, Activate
<1> QED
  BY <1>1, RefreshInvariant, PTL DEF Spec, OthersUntouched
=============================================================================
