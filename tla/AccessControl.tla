---------------------------- MODULE AccessControl ----------------------------
(***************************************************************************)
(* The requests that change roles and their permissions, from the access   *)
(* token to the audit event: Authenticate and RequirePermission of         *)
(* iamhttp, Service.Authorize, the operation of iamstore.Store and         *)
(* auditedIAM.record.  Every statement is a step of its own (READ          *)
(* COMMITTED), with the row locks that make it wait for another request.   *)
(* User management goes on meanwhile; its transactions are those of        *)
(* AdminGuard and are one step here.                                       *)
(*                                                                         *)
(* Names and descriptions of roles are left out, and with them UpdateRole; *)
(* of the audit events those of the operations are kept, not those of the  *)
(* checks before them.                                                     *)
(***************************************************************************)
EXTENDS Integers

CONSTANTS
    Users,        \* accounts
    Roles,        \* roles that may exist
    Admin,        \* the system role
    Permissions,  \* rows of permissions
    Wildcard,     \* the permission that implies all others
    Required,     \* the permission that the routes require: roles:write
    Requests,     \* requests, each made once
    MaxChanges    \* bound: steps of user management

ASSUME RolesAssumption == Admin \in Roles
ASSUME PermissionsAssumption == {Wildcard, Required} \subseteq Permissions
ASSUME ChangesAssumption == MaxChanges \in Nat

VARIABLES
    active,     \* users.is_active
    userRoles,  \* user_roles
    roles,      \* roles that exist
    dropped,    \* roles that were deleted: an id is never used again
    granted,    \* role_permissions
    req,        \* where each request is
    trail,      \* audit events: request and result
    changes,    \* steps of user management so far
    entitled,   \* history: requests whose user held the permission meanwhile
    effective   \* history: requests whose change was committed

vars == <<active, userRoles, roles, dropped, granted, req, trail, changes, entitled, effective>>

data == <<active, userRoles, roles, dropped, granted>>

Operations == {"grant", "replace", "create", "delete"}

New == [at |-> "new"]
Done == [at |-> "done"]

Request ==
    [at : {"active", "permit", "run", "delete", "insert", "cascade", "record"},
     actor : Users, op : Operations, role : Roles,
     asked : SUBSET Permissions,    \* the permissions of the request
     rows : SUBSET Permissions,     \* rows the DELETE has seen, later rows to insert
     gone : SUBSET Permissions,     \* rows deleted, and locked until the commit
     came : SUBSET Permissions,     \* rows inserted, and locked until the commit
     result : {"success", "failure"},
     met : SUBSET Permissions]      \* history: what overlapping requests asked for

TypeOK ==
    /\ active \subseteq Users
    /\ userRoles \in [Users -> SUBSET Roles]
    /\ roles \subseteq Roles /\ dropped \subseteq Roles
    /\ granted \in [Roles -> SUBSET Permissions]
    /\ req \in [Requests -> Request \cup {New, Done}]
    /\ trail \subseteq Requests \X {"success", "failure"}
    /\ changes \in 0..MaxChanges
    /\ entitled \subseteq Requests /\ effective \subseteq Requests

\* The admin role has the wildcard; one user has that role, the others have
\* any of the custom roles.
Init ==
    /\ active = Users
    /\ roles \in SUBSET Roles /\ Admin \in roles
    /\ dropped = {}
    /\ userRoles \in [Users -> SUBSET roles]
    /\ \E admin \in Users : \A u \in Users : Admin \in userRoles[u] <=> u = admin
    /\ granted \in [Roles -> SUBSET Permissions]
    /\ granted[Admin] = {Wildcard} /\ \A x \in Roles \ roles : granted[x] = {}
    /\ req = [r \in Requests |-> New]
    /\ trail = {}
    /\ changes = 0
    /\ entitled = {} /\ effective = {}

(***************************************************************************)
(* Authorization                                                           *)
(***************************************************************************)
\* Faulty variant: the join does not look at users.is_active.
UserPermissions_AnyUser(u) == UNION {granted[x] : x \in userRoles[u]}

\* ListUserPermissions.
UserPermissions(u) == IF u \in active THEN UNION {granted[x] : x \in userRoles[u]} ELSE {}

HasPermission(P, required) == required \in P \/ Wildcard \in P

\* A request that has begun and whose operation is not over.
Pending(r) == req[r].at \notin {"new", "record", "done"}

\* Its user is active and holds the permission, now.
Justified(r) ==
    /\ Pending(r)
    /\ req[r].actor \in active
    /\ HasPermission(UNION {granted[x] : x \in userRoles[req[r].actor]}, Required)

Become(r, q) == req' = [req EXCEPT ![r] = q]

\* Overlapping requests for the permissions of a role meet each other.
Meets(r, q) == Pending(r) /\ req[r].role = q.role

\* The permissions a request may name: one in the path, a list without
\* duplicates in the body, or none.
Asked(op) ==
    CASE op = "grant" -> {{p} : p \in Permissions}
      [] op = "replace" -> SUBSET Permissions
      [] OTHER -> {{}}

\* The handler is called with the subject of the access token, which may be
\* older than any change of the user.
Begin(r, u, op, x, P) ==
    LET q == [at |-> "active", actor |-> u, op |-> op, role |-> x, asked |-> P,
              rows |-> {}, gone |-> {}, came |-> {}, result |-> "failure",
              met |-> {}]
    IN /\ req[r] = New
       /\ req' = [s \in Requests |->
                    IF s = r
                      THEN [q EXCEPT !.met = UNION {req[o].asked : o \in {o \in Requests : Meets(o, q)}}]
                    ELSE IF Meets(s, q) THEN [req[s] EXCEPT !.met = @ \cup P]
                    ELSE req[s]]
       /\ UNCHANGED <<data, trail, changes, effective>>

\* The request fails; RunInTx rolls back, which releases its locks.
Fail(r) ==
    /\ Become(r, [req[r] EXCEPT !.at = "record", !.result = "failure",
                                !.rows = {}, !.gone = {}, !.came = {}])
    /\ UNCHANGED <<data, trail, changes, effective>>

\* The handler answers with the error of Authorize; the operation is not called.
Deny(r) == Become(r, Done) /\ UNCHANGED <<data, trail, changes, effective>>

\* requireActiveUser, in an installation that is initialized.
RequireActiveUser(r) ==
    /\ req[r].at = "active"
    /\ IF req[r].actor \in active
         THEN /\ Become(r, [req[r] EXCEPT !.at = "permit"])
              /\ UNCHANGED <<data, trail, changes, effective>>
         ELSE Deny(r)

\* PermissionsForUser and HasPermission.
Authorize(r) ==
    /\ req[r].at = "permit"
    /\ IF HasPermission(UserPermissions(req[r].actor), Required)
         THEN /\ Become(r, [req[r] EXCEPT !.at = "run"])
              /\ UNCHANGED <<data, trail, changes, effective>>
         ELSE Deny(r)

(***************************************************************************)
(* Locks.  A DELETE of a role locks its row; an insert into                *)
(* role_permissions shares that row with other inserts until its commit,   *)
(* and inserted and deleted rows are locked as well.                       *)
(***************************************************************************)
Others(r) == {q \in Requests \ {r} : Pending(q) /\ req[q].role = req[r].role}

\* Whom the next statement of r waits for.
WaitsFor(r) ==
    {q \in Others(r) :
       CASE req[r].at = "run" /\ req[r].op = "grant" ->
              req[q].at = "cascade" \/ req[r].asked \cap (req[q].gone \cup req[q].came) # {}
         [] req[r].at = "run" /\ req[r].op = "delete" -> req[q].at = "cascade" \/ req[q].came # {}
         [] req[r].at = "cascade" -> req[q].gone # {}
         [] req[r].at = "delete" -> req[q].gone \cap req[r].rows # {}
         [] OTHER -> FALSE}

\* The insert of permission p waits for the deletion of the role and for a
\* transaction that has deleted or inserted the same row.
InsertWaitsFor(r, p) ==
    {q \in Others(r) : req[q].at = "cascade" \/ p \in req[q].gone \cup req[q].came}

\* A protected or missing role.
Refused(r) == req[r].role = Admin \/ req[r].role \notin roles

(***************************************************************************)
(* Operations of iamstore.Store                                            *)
(***************************************************************************)
\* The change is committed; the reply to the commit may be lost.  A DELETE
\* that waited for rows that are gone now passes over them.
Committed(r, reply) ==
    /\ req' = [q \in Requests |->
                 IF q = r
                   THEN [req[r] EXCEPT !.at = "record", !.rows = {}, !.gone = {}, !.came = {},
                                       !.result = IF reply THEN "success" ELSE "failure"]
                 ELSE IF q \in Others(r) /\ req[q].at = "delete"
                   THEN [req[q] EXCEPT !.rows = @ \ req[r].gone]
                 ELSE req[q]]
    /\ effective' = effective \cup {r}
    /\ UNCHANGED <<trail, changes>>

\* The first statements: GetRoleByID finds a role that is missing or
\* protected.  CreateRole may find its name taken.
Refuse(r) ==
    /\ req[r].at = "run"
    /\ req[r].op = "create" \/ Refused(r)
    /\ Fail(r)

CreateRole(r, reply) ==
    /\ req[r].at = "run" /\ req[r].op = "create"
    /\ req[r].role \notin roles \cup dropped
    /\ roles' = roles \cup {req[r].role}
    /\ UNCHANGED <<active, userRoles, dropped, granted>>
    /\ Committed(r, reply)

\* GrantPermission: the insert, which finds the row or not.
GrantPermission(r, reply) ==
    /\ req[r].at = "run" /\ req[r].op = "grant"
    /\ ~Refused(r)
    /\ WaitsFor(r) = {}
    /\ granted' = [granted EXCEPT ![req[r].role] = @ \cup req[r].asked]
    /\ UNCHANGED <<active, userRoles, roles, dropped>>
    /\ Committed(r, reply)

\* DeleteRole locks the row of the role ...
DeleteRole(r) ==
    /\ req[r].at = "run" /\ req[r].op = "delete"
    /\ ~Refused(r)
    /\ WaitsFor(r) = {}
    /\ Become(r, [req[r] EXCEPT !.at = "cascade"])
    /\ UNCHANGED <<data, trail, changes, effective>>

\* ... and the statement ends when what refers to the role is deleted, too.
Cascade(r, reply) ==
    /\ req[r].at = "cascade"
    /\ WaitsFor(r) = {}
    /\ roles' = roles \ {req[r].role}
    /\ dropped' = dropped \cup {req[r].role}
    /\ granted' = [granted EXCEPT ![req[r].role] = {}]
    /\ userRoles' = [u \in Users |-> userRoles[u] \ {req[r].role}]
    /\ UNCHANGED active
    /\ Committed(r, reply)

\* Faulty variant: the permissions are added to those the role has.
Superseded_None(r) == {}

\* The rows DeleteRolePermissions finds when it starts.
Superseded(r) == granted[req[r].role]

\* ReplaceRolePermissions, its transaction: the DELETE starts ...
ReplaceBegin(r) ==
    /\ req[r].at = "run" /\ req[r].op = "replace"
    /\ ~Refused(r)
    /\ Become(r, [req[r] EXCEPT !.at = "delete", !.rows = Superseded(r)])
    /\ UNCHANGED <<data, trail, changes, effective>>

\* ... waits for rows that others have deleted, and deletes what is left ...
ReplaceDelete(r) ==
    /\ req[r].at = "delete"
    /\ WaitsFor(r) = {}
    /\ Become(r, [req[r] EXCEPT !.at = "insert", !.gone = req[r].rows \cap granted[req[r].role],
                                !.rows = req[r].asked])
    /\ UNCHANGED <<data, trail, changes, effective>>

\* ... the permissions are inserted in the order of the request; a role that
\* is gone by now violates the foreign key.
ReplaceInsert(r, p) ==
    /\ req[r].at = "insert"
    /\ p \in req[r].rows
    /\ InsertWaitsFor(r, p) = {}
    /\ IF req[r].role \notin roles THEN Fail(r)
       ELSE /\ Become(r, [req[r] EXCEPT !.rows = @ \ {p},
                            !.came = IF p \in granted[req[r].role] \ req[r].gone THEN @ ELSE @ \cup {p}])
            /\ UNCHANGED <<data, trail, changes, effective>>

ReplaceCommit(r, reply) ==
    /\ req[r].at = "insert"
    /\ req[r].rows = {}
    /\ granted' = [granted EXCEPT ![req[r].role] = (@ \ req[r].gone) \cup req[r].came]
    /\ UNCHANGED <<active, userRoles, roles, dropped>>
    /\ Committed(r, reply)

\* External: requests that wait for each other; PostgreSQL fails one of them.
Waits(r) ==
    IF req[r].at = "insert"
      THEN IF \E p \in req[r].rows : InsertWaitsFor(r, p) = {} THEN {}
           ELSE UNION {InsertWaitsFor(r, p) : p \in req[r].rows}
      ELSE WaitsFor(r)

DetectDeadlock(r) ==
    /\ Pending(r)
    /\ \E C \in SUBSET Requests :
         r \in C /\ \A q \in C : Pending(q) /\ Waits(q) \cap C # {}
    /\ Fail(r)

\* Faulty variant: the event does not look at the error.
Result_Blind(r) == "success"

\* auditedIAM.record: the result of the operation, as its caller sees it.
Result(r) == req[r].result

\* BestEffortRecorder.Preserve: the event may be lost, the result stays.
Record(r) ==
    /\ req[r].at = "record"
    /\ \/ trail' = trail \cup {<<r, Result(r)>>}
       \/ UNCHANGED trail
    /\ Become(r, Done)
    /\ UNCHANGED <<data, changes, effective>>

(***************************************************************************)
(* User management meanwhile                                               *)
(***************************************************************************)
Administrators(A, R) == {u \in A : Admin \in R[u]}

Manage(A, R) ==
    /\ changes < MaxChanges
    /\ changes' = changes + 1
    /\ Administrators(A, R) # {}
    /\ active' = A
    /\ userRoles' = R
    /\ UNCHANGED <<roles, dropped, granted, req, trail, effective>>

\* SetUserActive, both ways.
SetUserActive(u) ==
    Manage(IF u \in active THEN active \ {u} ELSE active \cup {u}, userRoles)

\* ReplaceUserRoles and AssignRole.
ReplaceUserRoles(u, R) ==
    /\ R \subseteq roles
    /\ R # userRoles[u]
    /\ Manage(active, [userRoles EXCEPT ![u] = R])

Proceed(r) ==
    \/ RequireActiveUser(r) \/ Authorize(r) \/ Refuse(r)
    \/ DeleteRole(r) \/ ReplaceBegin(r) \/ ReplaceDelete(r)
    \/ \E p \in Permissions : ReplaceInsert(r, p)
    \/ \E reply \in BOOLEAN :
         \/ CreateRole(r, reply) \/ GrantPermission(r, reply)
         \/ Cascade(r, reply) \/ ReplaceCommit(r, reply)
    \/ DetectDeadlock(r) \/ Record(r)

Step ==
    \/ \E r \in Requests : Proceed(r)
    \/ \E r \in Requests, u \in Users, op \in Operations, x \in Roles :
         \E P \in Asked(op) : Begin(r, u, op, x, P)
    \/ \E u \in Users : SetUserActive(u) \/ \E R \in SUBSET Roles : ReplaceUserRoles(u, R)
    \/ (\A r \in Requests : req[r] = Done) /\ UNCHANGED <<data, req, trail, changes, effective>>

\* The history of who was entitled while the request was pending.
Next ==
    /\ Step
    /\ entitled' = {r \in Requests : Pending(r)' /\ (r \in entitled \/ Justified(r)')}

Spec == Init /\ [][Next]_vars

(***************************************************************************)
(* Properties                                                              *)
(***************************************************************************)
\* A request gets past Authorize only if, at one moment since it began, its
\* user was active and held the permission, although both are read in
\* statements of their own and may change in between: neither an old token nor
\* an account switched off meanwhile is enough.
EffectsAuthorized ==
    \A r \in Requests :
        req[r].at \in {"run", "delete", "insert", "cascade"} => r \in entitled

\* What a role holds when a replacement commits is what the replacement asked
\* for, up to what requests that overlapped with it asked for: nothing of a
\* request that was over before it began is left.
SupersededGone ==
    [][\A r \in Requests : r \in effective' \ effective /\ req[r].op = "replace" =>
         granted'[req[r].role] \subseteq req[r].asked \cup req[r].met]_vars

\* An audit event says success only of a change that was committed.
TrailTruthful == \A r \in Requests : <<r, "success">> \in trail => r \in effective
=============================================================================
