----------------------------- MODULE AdminGuard -----------------------------
(***************************************************************************)
(* The bootstrap of the first administrator, and the transactions of user  *)
(* and role management: iamstore.Store, AuthenticationStore and            *)
(* SeedBootstrapAdmin with the locks they take, under READ COMMITTED.  A   *)
(* statement sees what is committed when it starts, so every lock is a     *)
(* step of its own and what a transaction has read may be outdated when it *)
(* writes.                                                                 *)
(*                                                                         *)
(* Locks: the row of the settings, of each role, and for each user the row *)
(* of users and the row of user_security_settings.  A row of user_roles    *)
(* that a transaction has inserted or deleted is locked until it ends.  A  *)
(* transaction may be rolled back before any statement.                    *)
(***************************************************************************)
EXTENDS Integers, FiniteSets

CONSTANTS
    Users,       \* accounts
    Requests,    \* requests in flight
    Roles,       \* roles, the system role admin among them
    Admin,       \* the system role
    Bootstrap    \* accounts that seed-admin may be run for

ASSUME AdminAssumption == Admin \in Roles /\ Bootstrap \subseteq Users

VARIABLES
    users,        \* accounts that exist
    active,       \* users.is_active
    roles,        \* roles that exist
    userRoles,    \* user_roles, as committed
    bound,        \* authentication_settings.bootstrap_admin_user_id
    initialized,  \* authentication_settings.initialized_at is set
    held,         \* who holds which lock FOR UPDATE, or by an UPDATE
    shared,       \* who holds which lock FOR KEY SHARE
    tx            \* where each request is, and what it has read and written

vars == <<users, active, roles, userRoles, bound, initialized, held, shared, tx>>

tables == <<users, active, roles, userRoles, bound, initialized>>

Settings == <<"settings">>

Locks == {Settings} \cup ({"role"} \X Roles) \cup ({"row", "security"} \X Users)

Idle == [at |-> "idle", op |-> "none", user |-> {}, roles |-> {}, admins |-> {},
         rows |-> {}, role |-> {}, rest |-> {}, deleted |-> {}, inserted |-> {}]

Transaction ==
    [at : {"idle", "login", "role", "admins", "rows", "write", "user", "share",
           "first", "second"},
     op : {"none", "login", "seed", "assign", "deactivate", "roles", "delete",
           "profile", "verify"},
     user : SUBSET Users,      \* the user it is about
     roles : SUBSET Roles,     \* roles it has still to insert
     admins : SUBSET Users,    \* administrators it has locked
     rows : SUBSET Users,      \* administrators it has still to lock
     role : SUBSET Roles,      \* the role it deletes, or has just inserted
     rest : SUBSET (Users \X Roles),       \* rows it has still to delete
     deleted : SUBSET (Users \X Roles),
     inserted : SUBSET (Users \X Roles)]

TypeOK ==
    /\ users \subseteq Users
    /\ active \subseteq users
    /\ roles \subseteq Roles
    /\ userRoles \subseteq Users \X Roles
    /\ bound \subseteq users
    /\ initialized \in BOOLEAN
    /\ held \in [Locks -> SUBSET Requests]
    /\ shared \in [Locks -> SUBSET Requests]
    /\ tx \in [Requests -> Transaction]

\* A new installation, or one with accounts from before the migration, which
\* binds nobody.
Init ==
    /\ users \in SUBSET Users
    /\ active \in SUBSET users
    /\ roles = Roles
    /\ userRoles \in SUBSET (users \X Roles)
    /\ bound = {}
    /\ initialized = FALSE
    /\ held = [l \in Locks |-> {}]
    /\ shared = [l \in Locks |-> {}]
    /\ tx = [r \in Requests |-> Idle]

Become(r, t) == tx' = [tx EXCEPT ![r] = t]

\* An UPDATE that changes no key waits for FOR UPDATE only.
Writable(l, r) == held[l] \subseteq {r}

\* FOR UPDATE, DELETE and an UPDATE of a key also wait for FOR KEY SHARE.
Take(l, r) ==
    /\ Writable(l, r)
    /\ shared[l] \subseteq {r}
    /\ held' = [held EXCEPT ![l] = {r}]
    /\ UNCHANGED shared

\* FOR KEY SHARE, which the check of a foreign key takes.
Share(l, r) ==
    /\ Writable(l, r)
    /\ shared' = [shared EXCEPT ![l] = @ \cup {r}]
    /\ UNCHANGED held

\* Commit and rollback release the locks of the request.
End(r) ==
    /\ held' = [l \in Locks |-> held[l] \ {r}]
    /\ shared' = [l \in Locks |-> shared[l] \ {r}]
    /\ Become(r, Idle)

Unlocked(l) == held[l] = {}

(***************************************************************************)
(* Bootstrap                                                               *)
(***************************************************************************)
\* Nobody is bound, or this account is.
Bindable(u) == bound \subseteq {u}

\* SeedBootstrapAdmin locks the settings; it creates the account unless it
\* exists, gives it the role, and binds it (Commit).
Seed(r, u) ==
    /\ tx[r].at = "idle"
    /\ u \in Bootstrap
    /\ Bindable(u)
    /\ Take(Settings, r)
    /\ Become(r, [Idle EXCEPT !.at = "write", !.op = "seed", !.user = {u},
                              !.roles = {Admin}])
    /\ UNCHANGED tables

\* Login before the initialization: the bound administrator, who is active.
FirstLogin(r, u) ==
    /\ tx[r].at = "idle"
    /\ ~initialized
    /\ bound = {u}
    /\ u \in active
    /\ Become(r, [Idle EXCEPT !.at = "login", !.op = "login", !.user = {u}])
    /\ UNCHANGED <<tables, held, shared>>

\* Initialize, once the session exists: one UPDATE of the settings.
Initialize(r) ==
    /\ tx[r].at = "login"
    /\ Unlocked(Settings)
    /\ bound = tx[r].user
    /\ initialized' = TRUE
    /\ Become(r, Idle)
    /\ UNCHANGED <<users, active, roles, userRoles, bound, held, shared>>

(***************************************************************************)
(* Management: Authorize refuses every call before the initialization.     *)
(* (That nobody may deactivate oneself depends on who calls, and is left   *)
(* out.)                                                                   *)
(***************************************************************************)
\* Store.Create and Register: without a role, or with the role user.  Nobody
\* else can see the rows, so they are one step; the address is unique.
Create(u) ==
    /\ initialized
    /\ u \notin users
    /\ \A r \in Requests : tx[r].op = "seed" => u \notin tx[r].user
    /\ users' = users \cup {u}
    /\ active' = active \cup {u}
    /\ \E R \in SUBSET (roles \ {Admin}) :
         /\ \A x \in R : Unlocked(<<"role", x>>)
         /\ userRoles' = userRoles \cup ({u} \X R)
    /\ UNCHANGED <<roles, bound, initialized, held, shared, tx>>

\* SetUserActive(true): one UPDATE, without a transaction.
Activate(u) ==
    /\ initialized
    /\ u \in users
    /\ Unlocked(<<"row", u>>)
    /\ active' = active \cup {u}
    /\ UNCHANGED <<users, roles, userRoles, bound, initialized, held, shared, tx>>

\* DeleteRole, of a role that is not a system role: the DELETE locks the row,
\* and cascades to the rows of user_roles that are committed by then.
DeleteRole(r, x) ==
    /\ initialized
    /\ tx[r].at = "idle"
    /\ x \in roles \ {Admin}
    /\ Take(<<"role", x>>, r)
    /\ Become(r, [Idle EXCEPT !.at = "write", !.op = "delete", !.role = {x},
                              !.rest = userRoles \cap (Users \X {x})])
    /\ UNCHANGED tables

\* SetUserActive(false) and ReplaceUserRoles begin, and find the user.
Begin(r, u, op, R) ==
    /\ initialized
    /\ tx[r].at = "idle"
    /\ u \in users
    /\ Become(r, [Idle EXCEPT !.at = "role", !.op = op, !.user = {u}, !.roles = R])
    /\ UNCHANGED <<tables, held, shared>>

\* Faulty variant: the admin role is read without FOR UPDATE.
LockSystemAdminRole_Unlocked(r) ==
    /\ tx[r].at = "role"
    /\ Become(r, [tx[r] EXCEPT !.at = "admins"])
    /\ UNCHANGED <<tables, held, shared>>

\* LockSystemAdminRole.
LockSystemAdminRole(r) ==
    /\ tx[r].at = "role"
    /\ Take(<<"role", Admin>>, r)
    /\ Become(r, [tx[r] EXCEPT !.at = "admins"])
    /\ UNCHANGED tables

Administrators == {u \in active : <<u, Admin>> \in userRoles}

\* LockActiveSystemAdministratorIDs: the snapshot of the statement, whose rows
\* are locked one by one, in any order.
ListAdministrators(r) ==
    /\ tx[r].at = "admins"
    /\ Become(r, [tx[r] EXCEPT !.at = "rows", !.rows = Administrators])
    /\ UNCHANGED <<tables, held, shared>>

\* A row that was changed meanwhile is evaluated again once it is locked.
LockAdministrator(r, u) ==
    /\ tx[r].at = "rows"
    /\ Take(<<"row", u>>, r)
    /\ Become(r, [tx[r] EXCEPT !.rows = @ \ {u},
                               !.admins = IF u \in active THEN @ \cup {u} ELSE @])
    /\ UNCHANGED tables

\* The user is the only active administrator there is.
LastAdministrator(r) ==
    tx[r].user \subseteq tx[r].admins /\ Cardinality(tx[r].admins) = 1

\* Every lock is taken, and the request does not remove the last administrator.
MayRemove(r) ==
    /\ tx[r].at = "rows" /\ tx[r].rows = {}
    /\ LastAdministrator(r) => Admin \in tx[r].roles

\* SetUserActive(false) writes and commits.
Deactivate(r, u) ==
    /\ MayRemove(r)
    /\ tx[r].op = "deactivate"
    /\ Writable(<<"row", u>>, r)
    /\ active' = active \ {u}
    /\ End(r)
    /\ UNCHANGED <<users, roles, userRoles, bound, initialized>>

\* ReplaceUserRoles finds the roles, and its DELETE the rows of the user.
ReplaceUserRoles(r, u) ==
    /\ MayRemove(r)
    /\ tx[r].op = "roles"
    /\ tx[r].roles \subseteq roles
    /\ Become(r, [tx[r] EXCEPT !.at = "write", !.rest = userRoles \cap ({u} \X Roles)])
    /\ UNCHANGED <<tables, held, shared>>

(***************************************************************************)
(* Rows of user_roles                                                      *)
(***************************************************************************)
\* A DELETE waits for those who have deleted the row.
DeleteRow(r, p) ==
    /\ tx[r].at = "write"
    /\ \A s \in Requests \ {r} : p \notin tx[s].deleted
    /\ Become(r, [tx[r] EXCEPT !.rest = @ \ {p}, !.deleted = @ \cup ({p} \cap userRoles)])
    /\ UNCHANGED <<tables, held, shared>>

\* What the transaction itself sees.
Visible(r) == (userRoles \ tx[r].deleted) \cup tx[r].inserted

\* AssignUserRole: the INSERT waits for those who have inserted or deleted the
\* row, and does nothing if it is there (ON CONFLICT).  The foreign keys are
\* checked at the end of the statement, with the new row in place.
Insertable(r, p) == \A s \in Requests \ {r} : p \notin tx[s].inserted \cup tx[s].deleted

Inserted(t, u, x) ==
    [t EXCEPT !.at = "user", !.roles = @ \ {x}, !.role = {x}, !.inserted = @ \cup {<<u, x>>}]

\* The INSERT of a transaction.
AssignUserRole(r, u, x) ==
    /\ tx[r].at = "write" /\ tx[r].rest = {}
    /\ Insertable(r, <<u, x>>)
    /\ Become(r, IF <<u, x>> \in Visible(r)
                 THEN [tx[r] EXCEPT !.roles = @ \ {x}]
                 ELSE Inserted(tx[r], u, x))
    /\ UNCHANGED <<tables, held, shared>>

\* AssignRole: one INSERT, without a transaction around it.
AssignRole(r, u, x) ==
    /\ initialized
    /\ tx[r].at = "idle"
    /\ u \in users
    /\ <<u, x>> \notin userRoles
    /\ Insertable(r, <<u, x>>)
    /\ Become(r, Inserted([Idle EXCEPT !.op = "assign", !.user = {u}], u, x))
    /\ UNCHANGED <<tables, held, shared>>

\* The check of user_id.
ReferenceUser(r, u) ==
    /\ tx[r].at = "user"
    /\ Share(<<"row", u>>, r)
    /\ Become(r, [tx[r] EXCEPT !.at = "share"])
    /\ UNCHANGED tables

\* The check of role_id.
ReferenceRole(r, x) ==
    /\ tx[r].at = "share"
    /\ x \in roles
    /\ Share(<<"role", x>>, r)
    /\ Become(r, [tx[r] EXCEPT !.at = "write", !.role = {}])
    /\ UNCHANGED tables

\* BootstrapAdmin creates the account unless it exists, BindBootstrapAdmin binds it.
Seeded(r) == IF tx[r].op = "seed" THEN tx[r].user ELSE {}

\* The commit of what has written user_roles.
CommitRoles(r) ==
    /\ tx[r].at = "write" /\ tx[r].rest = {} /\ tx[r].roles = {}
    /\ users' = users \cup Seeded(r)
    /\ active' = active \cup (Seeded(r) \ users)
    /\ bound' = bound \cup Seeded(r)
    /\ roles' = IF tx[r].op = "delete" THEN roles \ tx[r].role ELSE roles
    /\ userRoles' = Visible(r)
    /\ End(r)
    /\ UNCHANGED initialized

(***************************************************************************)
(* Transactions that lock a user's security settings and row               *)
(***************************************************************************)
\* Faulty variant: VerifyEmail locks the row of the user first.
LockOrder_Mixed(op) == IF op = "verify" THEN <<"row", "security">> ELSE <<"security", "row">>

\* "profile" are UpdateUser and UpdateUserPassword, "verify" is VerifyEmail.
LockOrder(op) == <<"security", "row">>

LockFirst(r, u, op) ==
    /\ initialized
    /\ tx[r].at = "idle"
    /\ u \in users
    /\ Take(<<LockOrder(op)[1], u>>, r)
    /\ Become(r, [Idle EXCEPT !.at = "first", !.op = op, !.user = {u}])
    /\ UNCHANGED tables

LockSecond(r, u) ==
    /\ tx[r].at = "first"
    /\ Take(<<LockOrder(tx[r].op)[2], u>>, r)
    /\ Become(r, [tx[r] EXCEPT !.at = "second"])
    /\ UNCHANGED tables

\* The write of the profile, which changes nothing that matters here.
Commit(r) ==
    /\ tx[r].at = "second"
    /\ End(r)
    /\ UNCHANGED tables

(***************************************************************************)
(* Waiting                                                                 *)
(***************************************************************************)
\* A refusal, an error, a cancelled context, a deadlock.
Rollback(r) ==
    /\ tx[r].at # "idle"
    /\ End(r)
    /\ UNCHANGED tables

\* A refusal as such: the last administrator, or a role that is gone.
Refuse(r) ==
    /\ \/ tx[r].at = "rows" /\ tx[r].rows = {} /\ ~MayRemove(r)
       \/ tx[r].at = "rows" /\ tx[r].rows = {} /\ ~(tx[r].roles \subseteq roles)
       \/ tx[r].at = "share" /\ ~(tx[r].role \subseteq roles)
    /\ Rollback(r)

\* The locks that the next statement of a request takes, by mode.
Wanted(r) ==
    CASE tx[r].at = "role"  -> {<<"role", Admin>>}
      [] tx[r].at = "rows"  -> {"row"} \X tx[r].rows
      [] tx[r].at = "first" -> {LockOrder(tx[r].op)[2]} \X tx[r].user
      [] OTHER -> {}

WantedWrite(r) ==
    CASE tx[r].at = "login" -> {Settings}
      [] tx[r].at = "rows" /\ tx[r].op = "deactivate" -> {"row"} \X tx[r].user
      [] tx[r].at = "user"  -> {"row"} \X tx[r].user
      [] tx[r].at = "share" -> {"role"} \X tx[r].role
      [] OTHER -> {}

\* r waits, or may have to wait, for s.
WaitsForLock(r, s) ==
    \/ \E l \in Wanted(r) : s \in held[l] \cup shared[l]
    \/ \E l \in WantedWrite(r) : s \in held[l]

WaitsForRow(r, s) ==
    /\ tx[r].at = "write"
    /\ \/ tx[r].rest \cap tx[s].deleted # {}
       \/ /\ tx[r].rest = {}
          /\ (tx[r].user \X tx[r].roles) \cap (tx[s].inserted \cup tx[s].deleted) # {}

WaitsFor(r, s) == r # s /\ (WaitsForLock(r, s) \/ WaitsForRow(r, s))

\* ReplaceUserRoles is past its checks.
Replacing(r) == tx[r].op = "roles" /\ tx[r].at \in {"write", "user", "share"}

\* Everybody in S waits for another one in it.
Circle(S) == S # {} /\ \A s \in S : \E t \in S : WaitsFor(s, t)

InCircle(r) == \E S \in SUBSET Requests : r \in S /\ Circle(S)

\* The next statement of a transaction, or its refusal.
Proceed(r) ==
    \/ Initialize(r) \/ LockSystemAdminRole(r) \/ ListAdministrators(r)
    \/ CommitRoles(r) \/ Commit(r) \/ Refuse(r)
    \/ \E u \in tx[r].rows : LockAdministrator(r, u)
    \/ \E p \in tx[r].rest : DeleteRow(r, p)
    \/ \E x \in tx[r].role : ReferenceRole(r, x)
    \/ \E u \in tx[r].user :
         \/ Deactivate(r, u) \/ ReplaceUserRoles(r, u)
         \/ \E x \in tx[r].roles : AssignUserRole(r, u, x)
         \/ ReferenceUser(r, u) \/ LockSecond(r, u)

Next ==
    \/ \E u \in Users : Create(u) \/ Activate(u)
    \/ \E r \in Requests :
         \/ \E x \in Roles : DeleteRole(r, x)
         \/ \E u \in Users :
              \/ Seed(r, u) \/ FirstLogin(r, u)
              \/ \E x \in Roles : AssignRole(r, u, x)
              \/ Begin(r, u, "deactivate", {})
              \/ \E R \in SUBSET Roles : Begin(r, u, "roles", R)
              \/ \E op \in {"profile", "verify"} : LockFirst(r, u, op)
         \/ Proceed(r)
         \/ Rollback(r)

\* PostgreSQL's deadlock detector.
DetectDeadlock(r) == Replacing(r) /\ InCircle(r) /\ Rollback(r)

\* A transaction goes on when the lock it waits for is free (PostgreSQL queues
\* those who wait).  The detector is assumed for circles of which a replacement
\* of roles is part, and for no other: nothing else that waits in a circle is
\* rolled back.
Fairness == \A r \in Requests : SF_vars(Proceed(r)) /\ WF_vars(DetectDeadlock(r))

Spec == Init /\ [][Next]_vars /\ Fairness

(***************************************************************************)
(* Properties                                                              *)
(***************************************************************************)
\* From the first login on there is an active administrator, although two of
\* them may deactivate or demote each other at the same time.
AdministratorRemains == initialized => Administrators # {}

\* The bootstrap administrator is bound once: no later seed replaces it.
BindingStable == [][bound # {} => bound' = bound]_vars

\* Every transaction ends, if the deadlock detector takes care of the circles
\* that go through ReplaceUserRoles: an INSERT into user_roles waits for foreign
\* keys with its row in place, a replacement or a deletion of a role for that
\* row.  All other locks are taken in orders that cannot close a circle.
TransactionsEnd == \A r \in Requests : tx[r].at # "idle" ~> tx[r].at = "idle"
=============================================================================
