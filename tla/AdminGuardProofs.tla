-------------------------- MODULE AdminGuardProofs --------------------------
(***************************************************************************)
(* Proofs about AdminGuard, for any accounts, requests and roles.          *)
(***************************************************************************)
EXTENDS AdminGuard, Sequences, FiniteSetTheorems, TLAPS

(***************************************************************************)
(* AdministratorRemains is not inductive: a transaction decides from the   *)
(* rows it has locked, and its writes are statements later.  What makes    *)
(* the decision right is that whoever has listed administrators holds the  *)
(* lock of the role, that those listed are administrators until that lock  *)
(* is released, and that a replacement of roles has yet to insert what it  *)
(* deletes of the last one.                                                *)
(***************************************************************************)
Writing(t) == t.at \in {"write", "user", "share"}

\* What a transaction has in hand, by what it does and how far it is.
Shape(t) ==
    /\ t.at = "idle" => t = Idle
    /\ t.at # "idle" /\ t.op # "delete" => \E u \in Users : t.user = {u}
    /\ t.at = "login" => t.op = "login"
    /\ t.at \in {"first", "second"} => t.op \in {"profile", "verify"}
    /\ t.at \in {"role", "admins", "rows"} => t.op \in {"deactivate", "roles"}
    /\ t.at \in {"role", "admins"} => t.admins = {}
    /\ Writing(t) => t.op \in {"seed", "assign", "roles", "delete"}
    /\ ~Writing(t) => t.rest = {} /\ t.deleted = {} /\ t.inserted = {}
    /\ t.at \in {"user", "share"} =>
         /\ t.rest = {}
         /\ \E x \in Roles : t.role = {x}
         /\ t.user \X t.role \subseteq t.inserted
    /\ t.inserted \subseteq t.user \X Roles
    /\ t.op \in {"seed", "assign"} => t.rest = {} /\ t.deleted = {}
    /\ t.op = "seed" => t.roles = {} \/ (t.at = "write" /\ t.roles = {Admin})
    /\ t.op \in {"assign", "deactivate"} => t.roles = {}
    /\ t.op = "roles" => t.rest \cup t.deleted \subseteq t.user \X Roles
    /\ t.op = "delete" =>
         /\ t.at = "write" /\ t.user = {} /\ t.roles = {}
         /\ \E x \in Roles \ {Admin} : t.role = {x}
         /\ t.rest \cup t.deleted \subseteq Users \X t.role

\* Past LockSystemAdminRole.
Guarding(r) == tx[r].at \in {"admins", "rows"} \/ Replacing(r)

Deleting(r, x) == tx[r].op = "delete" /\ tx[r].role = {x}

\* Past the foreign keys of its only INSERT.
Referenced(r) == tx[r].op \in {"assign", "seed"} /\ tx[r].at = "write" /\ tx[r].roles = {}

\* The locks a request holds: those of the settings and of roles exactly, those
\* of users at most.
LocksOK(r) ==
    /\ r \in held[Settings] <=> tx[r].op = "seed"
    /\ r \in held[<<"role", Admin>>] <=> Guarding(r)
    /\ \A x \in Roles \ {Admin} : r \in held[<<"role", x>>] <=> Deleting(r, x)
    /\ \A u \in Users :
         /\ r \in held[<<"row", u>>] => tx[r].at \in {"rows", "second"} \/ Replacing(r)
         /\ r \in shared[<<"row", u>>] =>
              \/ Replacing(r) \/ Referenced(r)
              \/ tx[r].op \in {"assign", "seed"} /\ tx[r].at = "share" /\ u \in tx[r].user
    /\ \A x \in Roles : r \in shared[<<"role", x>>] => Replacing(r) \/ Referenced(r)

Exclusive == \A l \in Locks : \A r, s \in held[l] : r = s

\* All but the bootstrap comes after the first login, for users that exist.
Started(r) ==
    /\ tx[r].at \notin {"idle", "login"} /\ tx[r].op # "seed" => initialized
    /\ tx[r].op \in {"assign", "roles"} => tx[r].user \subseteq users

\* The administrators a request has listed are administrators still.
Listed(r) == tx[r].rows \cup tx[r].admins

ListHolds(r) ==
    tx[r].at = "rows" \/ Replacing(r) => Listed(r) # {} /\ Listed(r) \subseteq Administrators

\* A replacement leaves an administrator: another one, or the user, who is given
\* the role or has it already.
Leaves(r, v) ==
    \/ v \notin tx[r].user
    \/ Admin \in tx[r].roles
    \/ tx[r].rest = {} /\ <<v, Admin>> \in Visible(r)

LeavesOne(r) == Replacing(r) => \E v \in tx[r].admins : Leaves(r, v)

\* Nobody is bound but the account of a seed, which gets the role.
SeedOK(r) ==
    tx[r].op = "seed" =>
        /\ bound \subseteq tx[r].user
        /\ initialized \/ tx[r].roles = {Admin} \/ tx[r].user \X {Admin} \subseteq Visible(r)

\* Whoever is about to complete the first login is an administrator.
LoginOK(r) == tx[r].at = "login" => initialized \/ tx[r].user \subseteq Administrators

\* What a single INSERT has inserted is not committed.
FreshRows(r) == tx[r].op \in {"seed", "assign"} => tx[r].inserted \cap userRoles = {}

RequestOK(r) ==
    /\ Started(r)
    /\ ListHolds(r)
    /\ LeavesOne(r)
    /\ SeedOK(r)
    /\ LoginOK(r)
    /\ FreshRows(r)

\* No two transactions have inserted the same row.
DisjointRows == \A r, s \in Requests : r # s => tx[r].inserted \cap tx[s].inserted = {}

BoundAdministrators == initialized \/ bound \X {Admin} \subseteq userRoles

GuardInv ==
    /\ TypeOK
    /\ Exclusive
    /\ \A r \in Requests : Shape(tx[r]) /\ LocksOK(r) /\ RequestOK(r)
    /\ DisjointRows
    /\ BoundAdministrators
    /\ AdministratorRemains

(***************************************************************************)
(* Steps of one request                                                    *)
(***************************************************************************)
LEMMA IdleOK == Idle \in Transaction /\ Shape(Idle)
BY DEF Idle, Transaction, Shape, Writing

LEMMA LockNames ==
  /\ Settings \in Locks
  /\ \A x \in Roles : <<"role", x>> \in Locks
  /\ \A u \in Users : <<"row", u>> \in Locks /\ <<"security", u>> \in Locks
  /\ \A x, y : /\ <<"role", x>> # Settings /\ <<"row", x>> # Settings /\ <<"security", x>> # Settings
               /\ <<"role", x>> # <<"row", y>> /\ <<"role", x>> # <<"security", y>>
               /\ <<"row", x>> # <<"security", y>>
               /\ <<"role", x>> = <<"role", y>> => x = y
               /\ <<"row", x>> = <<"row", y>> => x = y
<1>1. Len(Settings) = 1 /\ \A x, y : Len(<<x, y>>) = 2
  BY DEF Settings
<1>2. \A x : <<"role", x>> # Settings /\ <<"row", x>> # Settings /\ <<"security", x>> # Settings
  BY <1>1
<1>3. \A x, y, z, w : <<x, y>> = <<z, w>> => x = z /\ y = w
  OBVIOUS
<1>4. "role" # "row" /\ "role" # "security" /\ "row" # "security"
  OBVIOUS
<1> QED
  BY <1>2, <1>3, <1>4 DEF Locks

\* Nobody but r takes or releases a lock.
OthersKeep(r) ==
    /\ held' \in [Locks -> SUBSET Requests] /\ shared' \in [Locks -> SUBSET Requests]
    /\ Exclusive'
    /\ \A s \in Requests \ {r}, l \in Locks :
         (s \in held'[l] <=> s \in held[l]) /\ (s \in shared'[l] <=> s \in shared[l])

LEMMA Locking ==
  ASSUME TypeOK, Exclusive, NEW r \in Requests
  PROVE  /\ UNCHANGED <<held, shared>> => OthersKeep(r)
         /\ \A l \in Locks : Take(l, r) =>
              /\ OthersKeep(r) /\ shared' = shared
              /\ \A k \in Locks : r \in held'[k] <=> r \in held[k] \/ k = l
         /\ \A l \in Locks : Share(l, r) =>
              /\ OthersKeep(r) /\ held' = held
              /\ \A k \in Locks : r \in shared'[k] <=> r \in shared[k] \/ k = l
         /\ End(r) => OthersKeep(r) /\ \A k \in Locks : r \notin held'[k] /\ r \notin shared'[k]
<1>1. UNCHANGED <<held, shared>> => OthersKeep(r)
  BY DEF TypeOK, Exclusive, OthersKeep
<1>2. ASSUME NEW l \in Locks, Take(l, r)
      PROVE  /\ OthersKeep(r) /\ shared' = shared
             /\ \A k \in Locks : r \in held'[k] <=> r \in held[k] \/ k = l
  <2>1. shared' = shared /\ held[l] \subseteq {r} /\ held' \in [Locks -> SUBSET Requests]
    BY <1>2 DEF TypeOK, Take, Writable
  <2>2. held'[l] = {r} /\ \A k \in Locks \ {l} : held'[k] = held[k]
    BY <1>2 DEF TypeOK, Take
  <2>3. Exclusive'
    BY <2>2 DEF Exclusive
  <2> QED
    BY <2>1, <2>2, <2>3 DEF OthersKeep, TypeOK
<1>3. ASSUME NEW l \in Locks, Share(l, r)
      PROVE  /\ OthersKeep(r) /\ held' = held
             /\ \A k \in Locks : r \in shared'[k] <=> r \in shared[k] \/ k = l
  <2>1. held' = held /\ shared' \in [Locks -> SUBSET Requests]
    BY <1>3 DEF TypeOK, Share
  <2>2. shared'[l] = shared[l] \cup {r} /\ \A k \in Locks \ {l} : shared'[k] = shared[k]
    BY <1>3 DEF TypeOK, Share
  <2>3. Exclusive'
    BY <2>1 DEF Exclusive
  <2> QED
    BY <2>1, <2>2, <2>3 DEF OthersKeep, TypeOK
<1>4. ASSUME End(r)
      PROVE  OthersKeep(r) /\ \A k \in Locks : r \notin held'[k] /\ r \notin shared'[k]
  <2>1. \A k \in Locks : held'[k] = held[k] \ {r} /\ shared'[k] = shared[k] \ {r}
    BY <1>4 DEF End
  <2>2. held' \in [Locks -> SUBSET Requests] /\ shared' \in [Locks -> SUBSET Requests]
    BY <1>4 DEF TypeOK, End
  <2>3. Exclusive'
    BY <2>1 DEF Exclusive
  <2> QED
    BY <2>1, <2>2, <2>3 DEF OthersKeep
<1> QED
  BY <1>1, <1>2, <1>3, <1>4

\* A request keeps its part of the locks unless it takes a step.
LEMMA LocksKept ==
  ASSUME NEW s \in Requests, LocksOK(s), tx'[s] = tx[s],
         \A l \in Locks : (s \in held'[l] <=> s \in held[l]) /\ (s \in shared'[l] <=> s \in shared[l])
  PROVE  LocksOK(s)'
<1>1. /\ s \in held'[Settings] <=> s \in held[Settings]
      /\ \A x \in Roles : /\ s \in held'[<<"role", x>>] <=> s \in held[<<"role", x>>]
                          /\ s \in shared'[<<"role", x>>] <=> s \in shared[<<"role", x>>]
      /\ \A u \in Users : /\ s \in held'[<<"row", u>>] <=> s \in held[<<"row", u>>]
                          /\ s \in shared'[<<"row", u>>] <=> s \in shared[<<"row", u>>]
  BY LockNames
<1> QED
  BY <1>1, AdminAssumption DEF LocksOK, Guarding, Replacing, Deleting, Referenced

\* A step of r that writes no table keeps the invariant if r keeps its part.
LEMMA QuietStep ==
  ASSUME GuardInv, NEW r \in Requests, NEW t \in Transaction, Become(r, t),
         UNCHANGED tables, OthersKeep(r), Shape(t), LocksOK(r)', RequestOK(r)',
         \A s \in Requests \ {r} : t.inserted \cap tx[s].inserted = {}
  PROVE  GuardInv'
<1>1. /\ tx' \in [Requests -> Transaction] /\ tx'[r] = t
      /\ \A s \in Requests \ {r} : tx'[s] = tx[s]
  BY DEF GuardInv, TypeOK, Become
<1>2. TypeOK'
  BY <1>1 DEF GuardInv, TypeOK, tables, OthersKeep
<1>3. Administrators' = Administrators
  BY DEF Administrators, tables
<1>4. ASSUME NEW s \in Requests \ {r} PROVE Shape(tx'[s]) /\ LocksOK(s)' /\ RequestOK(s)'
  <2>1. Shape(tx[s]) /\ LocksOK(s) /\ RequestOK(s) /\ tx'[s] = tx[s]
    BY <1>1, <1>4 DEF GuardInv
  <2>2. LocksOK(s)'
    BY <2>1, LocksKept DEF OthersKeep
  <2>3. Visible(s)' = Visible(s) /\ UNCHANGED <<users, bound, initialized, userRoles>>
    BY <2>1 DEF Visible, tables
  <2>4. RequestOK(s)'
    BY <1>3, <2>1, <2>3 DEF RequestOK, Started, ListHolds, Listed, LeavesOne, Leaves, SeedOK,
                            LoginOK, FreshRows, Replacing
  <2> QED
    BY <2>1, <2>2, <2>4
<1>5. DisjointRows'
  BY <1>1 DEF GuardInv, DisjointRows
<1>6. BoundAdministrators' /\ AdministratorRemains'
  BY <1>3 DEF GuardInv, BoundAdministrators, AdministratorRemains, tables
<1> QED
  BY <1>1, <1>2, <1>4, <1>5, <1>6 DEF GuardInv, OthersKeep

\* What is known of the request that takes the step.
LEMMA Local ==
  ASSUME GuardInv, NEW r \in Requests
  PROVE  /\ TypeOK /\ Exclusive /\ tx[r] \in Transaction
         /\ Shape(tx[r]) /\ LocksOK(r) /\ RequestOK(r)
         /\ \A s \in Requests \ {r} : tx[r].inserted \cap tx[s].inserted = {}
         /\ \A t : Become(r, t) => tx'[r] = t
BY DEF GuardInv, TypeOK, DisjointRows, Become

LEMMA IdleHoldsNothing ==
  ASSUME GuardInv, NEW r \in Requests, tx[r] = Idle
  PROVE  /\ r \notin held[Settings]
         /\ \A x \in Roles : r \notin held[<<"role", x>>] /\ r \notin shared[<<"role", x>>]
         /\ \A u \in Users : r \notin held[<<"row", u>>] /\ r \notin shared[<<"row", u>>]
<1>1. tx[r].at = "idle" /\ tx[r].op = "none"
  BY DEF Idle
<1> QED
  BY <1>1, Local DEF LocksOK, Guarding, Replacing, Deleting, Referenced

LEMMA Ending ==
  ASSUME GuardInv, NEW r \in Requests, End(r)
  PROVE  /\ tx'[r] = Idle /\ Become(r, Idle) /\ OthersKeep(r) /\ LocksOK(r)' /\ RequestOK(r)'
         /\ tx' \in [Requests -> Transaction]
         /\ \A s \in Requests \ {r} : tx'[s] = tx[s]
         /\ DisjointRows'
<1>1. /\ tx'[r] = Idle /\ Become(r, Idle) /\ OthersKeep(r)
      /\ tx' \in [Requests -> Transaction] /\ \A s \in Requests \ {r} : tx'[s] = tx[s]
  <2>1. Become(r, Idle) /\ OthersKeep(r)
    BY Local, Locking DEF End
  <2> QED
    BY <2>1, Local, IdleOK DEF Become, TypeOK
<1>2. \A l \in Locks : r \notin held'[l] /\ r \notin shared'[l]
  BY Local, Locking
<1>3. /\ Idle.at = "idle" /\ Idle.op = "none" /\ Idle.inserted = {}
  BY DEF Idle
<1>4. LocksOK(r)'
  BY <1>1, <1>2, <1>3, LockNames, AdminAssumption
     DEF LocksOK, Guarding, Replacing, Deleting, Referenced
<1>5. RequestOK(r)'
  BY <1>1, <1>3 DEF RequestOK, Started, ListHolds, LeavesOne, SeedOK, LoginOK, FreshRows, Replacing
<1>6. DisjointRows'
  BY <1>1, <1>3 DEF GuardInv, DisjointRows
<1> QED
  BY <1>1, <1>4, <1>5, <1>6

\* A transaction that ends without a write.
LEMMA EndStep ==
  ASSUME GuardInv, NEW r \in Requests, End(r), UNCHANGED tables
  PROVE  GuardInv'
<1>1. Idle.inserted = {}
  BY DEF Idle
<1> QED
  BY <1>1, Ending, IdleOK, QuietStep

\* Transactions begin.
LEMMA SeedStep ==
  ASSUME GuardInv, NEW r \in Requests, NEW u \in Users, Seed(r, u)
  PROVE  GuardInv'
<1> DEFINE t == [Idle EXCEPT !.at = "write", !.op = "seed", !.user = {u}, !.roles = {Admin}]
<1>1. /\ t \in Transaction /\ t.at = "write" /\ t.op = "seed" /\ t.user = {u}
      /\ t.roles = {Admin} /\ t.rest = {} /\ t.deleted = {} /\ t.inserted = {}
  BY AdminAssumption DEF Idle, Transaction
<1>2. Become(r, t) /\ Take(Settings, r) /\ UNCHANGED tables /\ bound \subseteq {u} /\ tx[r] = Idle
  BY Local DEF Seed, Bindable, Shape
<1> HIDE DEF t
<1>3. tx'[r] = t
  BY <1>2, Local
<1>4. Shape(t)
  BY <1>1 DEF Shape, Writing
<1>5. LocksOK(r)'
  <2>1. /\ shared' = shared
        /\ \A k \in Locks : r \in held'[k] <=> r \in held[k] \/ k = Settings
    BY <1>2, Local, Locking, LockNames
  <2>2. /\ r \in held'[Settings]
        /\ \A y \in Roles : r \notin held'[<<"role", y>>]
        /\ \A v \in Users : r \notin held'[<<"row", v>>]
    BY <1>2, <2>1, IdleHoldsNothing, LockNames
  <2> QED
    BY <1>1, <1>2, <1>3, <2>1, <2>2, IdleHoldsNothing, AdminAssumption
       DEF LocksOK, Guarding, Replacing, Deleting, Referenced
<1>6. RequestOK(r)'
  BY <1>1, <1>2, <1>3 DEF RequestOK, Started, ListHolds, LeavesOne, SeedOK, LoginOK, FreshRows,
                          Replacing, tables
<1> QED
  BY <1>1, <1>2, <1>4, <1>5, <1>6, Local, Locking, LockNames, QuietStep

LEMMA BeginStep ==
  ASSUME GuardInv, NEW r \in Requests, NEW u \in Users, NEW op \in {"deactivate", "roles"},
         NEW R \in SUBSET Roles, op = "deactivate" => R = {}, Begin(r, u, op, R)
  PROVE  GuardInv'
<1> DEFINE t == [Idle EXCEPT !.at = "role", !.op = op, !.user = {u}, !.roles = R]
<1>1. /\ t \in Transaction /\ t.at = "role" /\ t.op = op /\ t.user = {u}
      /\ t.rest = {} /\ t.deleted = {} /\ t.inserted = {} /\ t.admins = {} /\ t.roles = R
  BY DEF Idle, Transaction
<1>2. /\ Become(r, t) /\ UNCHANGED <<held, shared>> /\ UNCHANGED tables /\ tx[r] = Idle
      /\ initialized /\ u \in users
  BY Local DEF Begin, Shape
<1> HIDE DEF t
<1>3. tx'[r] = t /\ OthersKeep(r)
  BY <1>2, Local, Locking
<1>4. Shape(t)
  BY <1>1 DEF Shape, Writing
<1>5. LocksOK(r)'
  <2>1. Idle.at = "idle" /\ Idle.op = "none"
    BY DEF Idle
  <2> QED
    BY <1>1, <1>2, <1>3, <2>1, Local
       DEF LocksOK, Guarding, Replacing, Deleting, Referenced
<1>6. RequestOK(r)'
  BY <1>1, <1>2, <1>3 DEF RequestOK, Started, ListHolds, LeavesOne, SeedOK, LoginOK, FreshRows,
                          Replacing, tables
<1> QED
  BY <1>1, <1>2, <1>3, <1>4, <1>5, <1>6, QuietStep

LEMMA FirstLoginStep ==
  ASSUME GuardInv, NEW r \in Requests, NEW u \in Users, FirstLogin(r, u)
  PROVE  GuardInv'
<1> DEFINE t == [Idle EXCEPT !.at = "login", !.op = "login", !.user = {u}]
<1>1. /\ t \in Transaction /\ t.at = "login" /\ t.op = "login" /\ t.user = {u}
      /\ t.rest = {} /\ t.deleted = {} /\ t.inserted = {}
  BY DEF Idle, Transaction
<1>2. /\ Become(r, t) /\ UNCHANGED <<held, shared>> /\ UNCHANGED tables /\ tx[r] = Idle
      /\ ~initialized /\ bound = {u} /\ u \in active
  BY Local DEF FirstLogin, Shape
<1> HIDE DEF t
<1>3. tx'[r] = t /\ OthersKeep(r)
  BY <1>2, Local, Locking
<1>4. Shape(t)
  BY <1>1 DEF Shape, Writing
<1>5. LocksOK(r)'
  <2>1. Idle.at = "idle" /\ Idle.op = "none"
    BY DEF Idle
  <2> QED
    BY <1>1, <1>2, <1>3, <2>1, Local
       DEF LocksOK, Guarding, Replacing, Deleting, Referenced
<1>6. u \in Administrators'
  BY <1>2 DEF GuardInv, BoundAdministrators, Administrators, tables
<1>7. RequestOK(r)'
  BY <1>1, <1>2, <1>3, <1>6 DEF RequestOK, Started, ListHolds, LeavesOne, SeedOK, LoginOK,
                                FreshRows, Replacing, tables
<1> QED
  BY <1>1, <1>2, <1>3, <1>4, <1>5, <1>7, QuietStep

LEMMA DeleteRoleStep ==
  ASSUME GuardInv, NEW r \in Requests, NEW x \in Roles, DeleteRole(r, x)
  PROVE  GuardInv'
<1> DEFINE t == [Idle EXCEPT !.at = "write", !.op = "delete", !.role = {x},
                             !.rest = userRoles \cap (Users \X {x})]
<1>1. /\ t \in Transaction /\ t.at = "write" /\ t.op = "delete" /\ t.role = {x} /\ t.user = {}
      /\ t.roles = {} /\ t.rest \subseteq Users \X {x} /\ t.deleted = {} /\ t.inserted = {}
  BY Local DEF Idle, Transaction, TypeOK
<1>2. /\ Become(r, t) /\ Take(<<"role", x>>, r) /\ UNCHANGED tables /\ tx[r] = Idle
      /\ initialized /\ x # Admin
  BY Local DEF DeleteRole, Shape
<1> HIDE DEF t
<1>3. tx'[r] = t
  BY <1>2, Local
<1>4. Shape(t)
  BY <1>1, <1>2 DEF Shape, Writing
<1>5. LocksOK(r)'
  <2>1. /\ shared' = shared
        /\ \A k \in Locks : r \in held'[k] <=> r \in held[k] \/ k = <<"role", x>>
    BY <1>2, Local, Locking, LockNames
  <2>2. /\ r \notin held'[Settings]
        /\ \A y \in Roles : r \in held'[<<"role", y>>] <=> y = x
        /\ \A v \in Users : r \notin held'[<<"row", v>>]
    BY <1>2, <2>1, IdleHoldsNothing, LockNames
  <2> QED
    BY <1>1, <1>2, <1>3, <2>1, <2>2, IdleHoldsNothing, AdminAssumption
       DEF LocksOK, Guarding, Replacing, Deleting, Referenced
<1>6. RequestOK(r)'
  BY <1>1, <1>2, <1>3 DEF RequestOK, Started, ListHolds, LeavesOne, SeedOK, LoginOK, FreshRows,
                          Replacing, tables
<1> QED
  BY <1>1, <1>2, <1>4, <1>5, <1>6, Local, Locking, LockNames, QuietStep

LEMMA LockFirstStep ==
  ASSUME GuardInv, NEW r \in Requests, NEW u \in Users, NEW op \in {"profile", "verify"},
         LockFirst(r, u, op)
  PROVE  GuardInv'
<1> DEFINE t == [Idle EXCEPT !.at = "first", !.op = op, !.user = {u}]
<1>1. /\ t \in Transaction /\ t.at = "first" /\ t.op = op /\ t.user = {u}
      /\ t.rest = {} /\ t.deleted = {} /\ t.inserted = {}
  BY DEF Idle, Transaction
<1>2. /\ Become(r, t) /\ Take(<<"security", u>>, r) /\ UNCHANGED tables /\ tx[r] = Idle
      /\ initialized
  BY Local DEF LockFirst, LockOrder, Shape
<1> HIDE DEF t
<1>3. tx'[r] = t
  BY <1>2, Local
<1>4. Shape(t)
  BY <1>1 DEF Shape, Writing
<1>5. LocksOK(r)'
  <2>1. /\ shared' = shared
        /\ \A k \in Locks : r \in held'[k] <=> r \in held[k] \/ k = <<"security", u>>
    BY <1>2, Local, Locking, LockNames
  <2>2. /\ r \notin held'[Settings]
        /\ \A y \in Roles : r \notin held'[<<"role", y>>]
        /\ \A v \in Users : r \notin held'[<<"row", v>>]
    BY <1>2, <2>1, IdleHoldsNothing, LockNames
  <2> QED
    BY <1>1, <1>2, <1>3, <2>1, <2>2, IdleHoldsNothing, AdminAssumption
       DEF LocksOK, Guarding, Replacing, Deleting, Referenced
<1>6. RequestOK(r)'
  BY <1>1, <1>2, <1>3 DEF RequestOK, Started, ListHolds, LeavesOne, SeedOK, LoginOK, FreshRows,
                          Replacing, tables
<1> QED
  BY <1>1, <1>2, <1>4, <1>5, <1>6, Local, Locking, LockNames, QuietStep

\* Locks on the way to a removal.
LEMMA LockRoleStep ==
  ASSUME GuardInv, NEW r \in Requests, LockSystemAdminRole(r)
  PROVE  GuardInv'
<1> DEFINE t == [tx[r] EXCEPT !.at = "admins"]
<1>1. /\ t \in Transaction /\ t.at = "admins" /\ t.op = tx[r].op /\ t.user = tx[r].user
      /\ t.roles = tx[r].roles
      /\ t.admins = tx[r].admins /\ t.rest = tx[r].rest /\ t.deleted = tx[r].deleted
      /\ t.inserted = tx[r].inserted
  BY Local DEF Transaction
<1>2. /\ Become(r, t) /\ Take(<<"role", Admin>>, r) /\ UNCHANGED tables /\ tx[r].at = "role"
  BY DEF LockSystemAdminRole
<1> HIDE DEF t
<1>3. tx'[r] = t /\ tx[r].op \in {"deactivate", "roles"}
  BY <1>2, Local DEF Shape
<1>4. Shape(t)
  BY <1>1, <1>2, Local DEF Shape, Writing
<1>5. LocksOK(r)'
  <2>1. /\ shared' = shared
        /\ \A k \in Locks : r \in held'[k] <=> r \in held[k] \/ k = <<"role", Admin>>
    BY <1>2, Local, Locking, LockNames, AdminAssumption
  <2>2. /\ r \notin held[Settings]
        /\ \A x \in Roles : r \notin held[<<"role", x>>] /\ r \notin shared[<<"role", x>>]
        /\ \A u \in Users : r \notin held[<<"row", u>>] /\ r \notin shared[<<"row", u>>]
    BY <1>2, <1>3, Local DEF LocksOK, Guarding, Replacing, Deleting, Referenced
  <2>3. /\ r \notin held'[Settings]
        /\ \A y \in Roles : r \in held'[<<"role", y>>] <=> y = Admin
        /\ \A v \in Users : r \notin held'[<<"row", v>>]
    BY <2>1, <2>2, LockNames
  <2> QED
    BY <1>1, <1>2, <1>3, <2>1, <2>2, <2>3, AdminAssumption
       DEF LocksOK, Guarding, Replacing, Deleting, Referenced
<1>6. RequestOK(r)'
  BY <1>1, <1>2, <1>3, Local DEF RequestOK, Started, ListHolds, LeavesOne, SeedOK, LoginOK,
                                 FreshRows, Replacing, tables
<1> QED
  BY <1>1, <1>2, <1>4, <1>5, <1>6, Local, Locking, LockNames, AdminAssumption, QuietStep

LEMMA ListStep ==
  ASSUME GuardInv, NEW r \in Requests, ListAdministrators(r)
  PROVE  GuardInv'
<1> DEFINE t == [tx[r] EXCEPT !.at = "rows", !.rows = Administrators]
<1>0. Administrators \subseteq Users
  BY Local DEF Administrators, TypeOK
<1>1. /\ t \in Transaction /\ t.at = "rows" /\ t.op = tx[r].op /\ t.user = tx[r].user
      /\ t.roles = tx[r].roles
      /\ t.admins = tx[r].admins /\ t.rest = tx[r].rest /\ t.deleted = tx[r].deleted
      /\ t.inserted = tx[r].inserted /\ t.rows = Administrators
  BY <1>0, Local DEF Transaction
<1>2. /\ Become(r, t) /\ UNCHANGED <<held, shared>> /\ UNCHANGED tables /\ tx[r].at = "admins"
  BY DEF ListAdministrators
<1> HIDE DEF t
<1>3. tx'[r] = t /\ tx[r].op \in {"deactivate", "roles"} /\ tx[r].admins = {} /\ OthersKeep(r)
  BY <1>2, Local, Locking DEF Shape
<1>4. Shape(t)
  BY <1>1, <1>2, Local DEF Shape, Writing
<1>5. LocksOK(r)'
  BY <1>1, <1>2, <1>3, Local DEF LocksOK, Guarding, Replacing, Deleting, Referenced
<1>6. Administrators # {} /\ Administrators' = Administrators
  BY <1>2, <1>3, Local
     DEF GuardInv, AdministratorRemains, RequestOK, Started, Administrators, tables
<1>7. RequestOK(r)'
  BY <1>1, <1>2, <1>3, <1>6, Local DEF RequestOK, Started, ListHolds, Listed, LeavesOne, SeedOK,
                                       LoginOK, FreshRows, Replacing, tables
<1> QED
  BY <1>1, <1>2, <1>3, <1>4, <1>5, <1>7, Local, QuietStep

\* Nobody who is listed was deactivated meanwhile.
LEMMA LockAdministratorStep ==
  ASSUME GuardInv, NEW r \in Requests, NEW u \in tx[r].rows, LockAdministrator(r, u)
  PROVE  GuardInv'
<1> DEFINE t == [tx[r] EXCEPT !.rows = @ \ {u},
                              !.admins = IF u \in active THEN @ \cup {u} ELSE @]
<1>0. u \in Administrators /\ u \in active /\ u \in Users /\ tx[r].at = "rows"
  BY Local DEF LockAdministrator, RequestOK, ListHolds, Listed, Administrators, TypeOK
<1>1. /\ t \in Transaction /\ t.at = "rows" /\ t.op = tx[r].op /\ t.user = tx[r].user
      /\ t.roles = tx[r].roles
      /\ t.admins = tx[r].admins \cup {u} /\ t.rest = tx[r].rest /\ t.deleted = tx[r].deleted
      /\ t.inserted = tx[r].inserted /\ t.rows = tx[r].rows \ {u}
  BY <1>0, Local DEF Transaction
<1>2. Become(r, t) /\ Take(<<"row", u>>, r) /\ UNCHANGED tables
  BY DEF LockAdministrator
<1> HIDE DEF t
<1>3. tx'[r] = t /\ tx[r].op \in {"deactivate", "roles"}
  BY <1>0, <1>2, Local DEF Shape
<1>4. Shape(t)
  BY <1>0, <1>1, Local DEF Shape, Writing
<1>5. LocksOK(r)'
  <2>1. /\ shared' = shared
        /\ \A k \in Locks : r \in held'[k] <=> r \in held[k] \/ k = <<"row", u>>
    BY <1>0, <1>2, Local, Locking, LockNames
  <2>2. /\ r \in held'[Settings] <=> r \in held[Settings]
        /\ \A y \in Roles : r \in held'[<<"role", y>>] <=> r \in held[<<"role", y>>]
    BY <2>1, LockNames
  <2> QED
    BY <1>0, <1>1, <1>3, <2>1, <2>2, AdminAssumption, Local
       DEF LocksOK, Guarding, Replacing, Deleting, Referenced
<1>6. Administrators' = Administrators
  BY <1>2 DEF Administrators, tables
<1>7. RequestOK(r)'
  BY <1>0, <1>1, <1>2, <1>3, <1>6, Local
     DEF RequestOK, Started, ListHolds, Listed, LeavesOne, SeedOK, LoginOK, FreshRows, Replacing,
         tables
<1> QED
  BY <1>0, <1>1, <1>2, <1>4, <1>5, <1>7, Local, Locking, LockNames, QuietStep

LEMMA LockSecondStep ==
  ASSUME GuardInv, NEW r \in Requests, NEW u \in tx[r].user, LockSecond(r, u)
  PROVE  GuardInv'
<1> DEFINE t == [tx[r] EXCEPT !.at = "second"]
<1>0. u \in Users /\ tx[r].at = "first"
  BY Local DEF LockSecond, Transaction
<1>1. /\ t \in Transaction /\ t.at = "second" /\ t.op = tx[r].op /\ t.user = tx[r].user
      /\ t.rest = tx[r].rest /\ t.deleted = tx[r].deleted /\ t.inserted = tx[r].inserted
  BY Local DEF Transaction
<1>2. Become(r, t) /\ Take(<<"row", u>>, r) /\ UNCHANGED tables
  BY DEF LockSecond, LockOrder
<1> HIDE DEF t
<1>3. tx'[r] = t /\ tx[r].op \in {"profile", "verify"}
  BY <1>0, <1>2, Local DEF Shape
<1>4. Shape(t)
  BY <1>0, <1>1, <1>3, Local DEF Shape, Writing
<1>5. LocksOK(r)'
  <2>1. /\ shared' = shared
        /\ \A k \in Locks : r \in held'[k] <=> r \in held[k] \/ k = <<"row", u>>
    BY <1>0, <1>2, Local, Locking, LockNames
  <2>2. /\ r \in held'[Settings] <=> r \in held[Settings]
        /\ \A y \in Roles : r \in held'[<<"role", y>>] <=> r \in held[<<"role", y>>]
    BY <2>1, LockNames
  <2> QED
    BY <1>0, <1>1, <1>3, <2>1, <2>2, AdminAssumption, Local
       DEF LocksOK, Guarding, Replacing, Deleting, Referenced
<1>6. RequestOK(r)'
  BY <1>0, <1>1, <1>2, <1>3, Local
     DEF RequestOK, Started, ListHolds, LeavesOne, SeedOK, LoginOK, FreshRows, Replacing, tables
<1> QED
  BY <1>0, <1>1, <1>2, <1>4, <1>5, <1>6, Local, Locking, LockNames, QuietStep

\* When all rows are locked, somebody else is an administrator, or the user is and
\* keeps the role.
LEMMA AnotherRemains ==
  ASSUME GuardInv, NEW r \in Requests, MayRemove(r)
  PROVE  \E v \in tx[r].admins : v \notin tx[r].user \/ Admin \in tx[r].roles
<1>1. tx[r].admins # {}
  BY Local DEF MayRemove, RequestOK, ListHolds, Listed
<1>2. CASE LastAdministrator(r)
  BY <1>1, <1>2 DEF MayRemove
<1>3. CASE ~LastAdministrator(r)
  <2>1. PICK u \in Users : tx[r].user = {u}
    BY Local DEF MayRemove, Shape
  <2>2. tx[r].admins # {u}
    BY <1>3, <2>1, FS_Singleton DEF LastAdministrator
  <2> QED
    BY <1>1, <2>1, <2>2
<1> QED
  BY <1>2, <1>3

LEMMA ReplaceStep ==
  ASSUME GuardInv, NEW r \in Requests, NEW u \in tx[r].user, ReplaceUserRoles(r, u)
  PROVE  GuardInv'
<1> DEFINE t == [tx[r] EXCEPT !.at = "write", !.rest = userRoles \cap ({u} \X Roles)]
<1>0. tx[r].user = {u} /\ u \in Users /\ tx[r].at = "rows" /\ tx[r].op = "roles" /\ MayRemove(r)
  BY Local DEF ReplaceUserRoles, MayRemove, Shape
<1>1. /\ t \in Transaction /\ t.at = "write" /\ t.op = tx[r].op /\ t.user = tx[r].user
      /\ t.rest \subseteq {u} \X Roles /\ t.deleted = tx[r].deleted /\ t.inserted = tx[r].inserted
      /\ t.admins = tx[r].admins /\ t.rows = tx[r].rows /\ t.roles = tx[r].roles
  <2>1. userRoles \cap ({u} \X Roles) \in SUBSET (Users \X Roles)
    BY Local DEF TypeOK
  <2> QED
    BY <1>0, <2>1, Local DEF Transaction
<1>2. Become(r, t) /\ UNCHANGED <<held, shared>> /\ UNCHANGED tables
  BY DEF ReplaceUserRoles
<1> HIDE DEF t
<1>3. tx'[r] = t /\ OthersKeep(r)
  BY <1>2, Local, Locking
<1>4. Shape(t)
  BY <1>0, <1>1, Local DEF Shape, Writing
<1>5. LocksOK(r)'
  BY <1>0, <1>1, <1>2, <1>3, Local DEF LocksOK, Guarding, Replacing, Deleting, Referenced
<1>6. Administrators' = Administrators
  BY <1>2 DEF Administrators, tables
<1>7. LeavesOne(r)'
  BY <1>0, <1>1, <1>3, AnotherRemains DEF LeavesOne, Leaves
<1>8. RequestOK(r)'
  BY <1>0, <1>1, <1>2, <1>3, <1>6, <1>7, Local
     DEF RequestOK, Started, ListHolds, Listed, SeedOK, LoginOK, FreshRows, Replacing, tables
<1> QED
  BY <1>1, <1>2, <1>3, <1>4, <1>5, <1>8, Local, QuietStep

LEMMA DeleteRowStep ==
  ASSUME GuardInv, NEW r \in Requests, NEW p \in tx[r].rest, DeleteRow(r, p)
  PROVE  GuardInv'
<1> DEFINE t == [tx[r] EXCEPT !.rest = @ \ {p}, !.deleted = @ \cup ({p} \cap userRoles)]
<1>0. p \in Users \X Roles /\ tx[r].at = "write" /\ tx[r].op \in {"roles", "delete"}
  BY Local DEF DeleteRow, Shape, Writing, Transaction
<1>1. /\ t \in Transaction /\ t.at = tx[r].at /\ t.op = tx[r].op /\ t.user = tx[r].user
      /\ t.rest = tx[r].rest \ {p} /\ t.deleted = tx[r].deleted \cup ({p} \cap userRoles)
      /\ t.inserted = tx[r].inserted /\ t.role = tx[r].role
      /\ t.admins = tx[r].admins /\ t.rows = tx[r].rows /\ t.roles = tx[r].roles
  BY <1>0, Local DEF Transaction
<1>2. Become(r, t) /\ UNCHANGED <<held, shared>> /\ UNCHANGED tables
  BY DEF DeleteRow
<1> HIDE DEF t
<1>3. tx'[r] = t /\ OthersKeep(r)
  BY <1>2, Local, Locking
<1>4. Shape(t)
  BY <1>0, <1>1, Local DEF Shape, Writing
<1>5. LocksOK(r)'
  BY <1>0, <1>1, <1>2, <1>3, Local DEF LocksOK, Guarding, Replacing, Deleting, Referenced
<1>6. Administrators' = Administrators
  BY <1>2 DEF Administrators, tables
<1>7. LeavesOne(r)'
  BY <1>1, <1>3, Local DEF RequestOK, LeavesOne, Leaves, Replacing
<1>8. RequestOK(r)'
  BY <1>0, <1>1, <1>2, <1>3, <1>6, <1>7, Local
     DEF RequestOK, Started, ListHolds, Listed, SeedOK, LoginOK, FreshRows, Replacing, tables
<1> QED
  BY <1>1, <1>2, <1>3, <1>4, <1>5, <1>8, Local, QuietStep

\* The INSERT of a transaction, with and without effect.
LEMMA AssignUserRoleStep ==
  ASSUME GuardInv, NEW r \in Requests, NEW u \in tx[r].user, NEW x \in tx[r].roles,
         AssignUserRole(r, u, x)
  PROVE  GuardInv'
<1>0. /\ tx[r].user = {u} /\ u \in Users /\ x \in Roles /\ tx[r].at = "write" /\ tx[r].rest = {}
      /\ tx[r].op \in {"roles", "seed"} /\ UNCHANGED <<held, shared>> /\ UNCHANGED tables
      /\ Insertable(r, <<u, x>>)
  BY Local DEF AssignUserRole, Shape, Writing, Transaction
<1>1. OthersKeep(r) /\ Administrators' = Administrators
  BY <1>0, Local, Locking DEF Administrators, tables
<1>2. CASE <<u, x>> \in Visible(r)
  <2> DEFINE t == [tx[r] EXCEPT !.roles = @ \ {x}]
  <2>1. /\ t \in Transaction /\ t.at = tx[r].at /\ t.op = tx[r].op /\ t.user = tx[r].user
        /\ t.rest = tx[r].rest /\ t.deleted = tx[r].deleted /\ t.inserted = tx[r].inserted
        /\ t.admins = tx[r].admins /\ t.rows = tx[r].rows /\ t.roles = tx[r].roles \ {x}
        /\ t.role = tx[r].role
    BY <1>0, Local DEF Transaction
  <2>2. Become(r, t)
    BY <1>2 DEF AssignUserRole
  <2> HIDE DEF t
  <2>3. tx'[r] = t
    BY <2>2, Local
  <2>4. Shape(t)
    BY <1>0, <2>1, Local DEF Shape, Writing
  <2>5. LocksOK(r)'
    BY <1>0, <2>1, <2>3, Local DEF LocksOK, Guarding, Replacing, Deleting, Referenced
  <2>6. Visible(r)' = Visible(r)
    BY <1>0, <2>1, <2>3 DEF Visible, tables
  <2>7. LeavesOne(r)'
    <3> SUFFICES ASSUME Replacing(r)' PROVE \E v \in tx'[r].admins : Leaves(r, v)'
      BY DEF LeavesOne
    <3>1. PICK v \in tx[r].admins : Leaves(r, v)
      BY <1>0, <2>1, <2>3, Local DEF RequestOK, LeavesOne, Replacing
    <3>2. v = u /\ x = Admin => <<v, Admin>> \in Visible(r)
      BY <1>2
    <3>3. Leaves(r, v)'
      BY <1>0, <2>1, <2>3, <2>6, <3>1, <3>2 DEF Leaves
    <3> QED
      BY <2>1, <2>3, <3>1, <3>3
  <2>8. SeedOK(r)'
    <3> SUFFICES ASSUME tx[r].op = "seed"
                 PROVE  bound' \subseteq tx'[r].user /\ tx'[r].user \X {Admin} \subseteq Visible(r)'
      BY <2>1, <2>3 DEF SeedOK
    <3>1. x = Admin /\ bound \subseteq tx[r].user
      BY Local DEF RequestOK, SeedOK, Shape
    <3> QED
      BY <1>0, <1>2, <2>1, <2>3, <2>6, <3>1 DEF tables
  <2>9. RequestOK(r)'
    BY <1>0, <1>1, <2>1, <2>3, <2>7, <2>8, Local
       DEF RequestOK, Started, ListHolds, Listed, LoginOK, FreshRows, Replacing, tables
  <2> QED
    BY <1>0, <1>1, <2>1, <2>2, <2>4, <2>5, <2>9, Local, QuietStep
<1>3. CASE <<u, x>> \notin Visible(r)
  <2> DEFINE t == Inserted(tx[r], u, x)
  <2>1. /\ t \in Transaction /\ t.at = "user" /\ t.op = tx[r].op /\ t.user = tx[r].user
        /\ t.rest = tx[r].rest /\ t.deleted = tx[r].deleted /\ t.role = {x}
        /\ t.inserted = tx[r].inserted \cup {<<u, x>>}
        /\ t.admins = tx[r].admins /\ t.rows = tx[r].rows /\ t.roles = tx[r].roles \ {x}
    <3>1. tx[r].inserted \cup {<<u, x>>} \in SUBSET (Users \X Roles)
      BY <1>0, Local DEF Transaction
    <3> QED
      BY <1>0, <3>1, Local DEF Transaction, Inserted
  <2>2. Become(r, t)
    BY <1>3 DEF AssignUserRole
  <2> HIDE DEF t
  <2>3. tx'[r] = t
    BY <2>2, Local
  <2>4. Shape(t)
    BY <1>0, <2>1, Local DEF Shape, Writing
  <2>5. LocksOK(r)'
    BY <1>0, <2>1, <2>3, Local DEF LocksOK, Guarding, Replacing, Deleting, Referenced
  <2>6. Visible(r)' = Visible(r) \cup {<<u, x>>}
    BY <1>0, <2>1, <2>3 DEF Visible, tables
  <2>7. LeavesOne(r)'
    BY <1>0, <2>1, <2>3, <2>6, Local DEF RequestOK, LeavesOne, Leaves, Replacing
  <2>8. SeedOK(r)'
    <3> SUFFICES ASSUME tx[r].op = "seed"
                 PROVE  bound' \subseteq tx'[r].user /\ tx'[r].user \X {Admin} \subseteq Visible(r)'
      BY <2>1, <2>3 DEF SeedOK
    <3>1. x = Admin /\ bound \subseteq tx[r].user
      BY Local DEF RequestOK, SeedOK, Shape
    <3> QED
      BY <1>0, <2>1, <2>3, <2>6, <3>1 DEF tables
  <2>9. FreshRows(r)'
    <3>1. tx[r].op = "seed" => <<u, x>> \notin userRoles
      BY <1>3, Local DEF Visible, Shape
    <3> QED
      BY <1>0, <2>1, <2>3, <3>1, Local DEF RequestOK, FreshRows, tables
  <2>10. RequestOK(r)'
    BY <1>0, <1>1, <2>1, <2>3, <2>7, <2>8, <2>9, Local
       DEF RequestOK, Started, ListHolds, Listed, LoginOK, Replacing, tables
  <2>11. \A s \in Requests \ {r} : t.inserted \cap tx[s].inserted = {}
    BY <1>0, <2>1, Local DEF Insertable
  <2> QED
    BY <1>0, <1>1, <2>1, <2>2, <2>4, <2>5, <2>10, <2>11, QuietStep
<1> QED
  BY <1>2, <1>3

LEMMA AssignRoleStep ==
  ASSUME GuardInv, NEW r \in Requests, NEW u \in Users, NEW x \in Roles, AssignRole(r, u, x)
  PROVE  GuardInv'
<1> DEFINE t == Inserted([Idle EXCEPT !.op = "assign", !.user = {u}], u, x)
<1>1. /\ t \in Transaction /\ t.at = "user" /\ t.op = "assign" /\ t.user = {u} /\ t.roles = {}
      /\ t.role = {x} /\ t.rest = {} /\ t.deleted = {} /\ t.inserted = {<<u, x>>}
  <2>1. {<<u, x>>} \in SUBSET (Users \X Roles)
    OBVIOUS
  <2> QED
    BY <2>1 DEF Idle, Transaction, Inserted
<1>2. /\ Become(r, t) /\ UNCHANGED <<held, shared>> /\ UNCHANGED tables /\ tx[r] = Idle
      /\ initialized /\ u \in users /\ <<u, x>> \notin userRoles /\ Insertable(r, <<u, x>>)
  BY Local DEF AssignRole, Shape
<1> HIDE DEF t
<1>3. tx'[r] = t /\ OthersKeep(r)
  BY <1>2, Local, Locking
<1>4. Shape(t)
  BY <1>1 DEF Shape, Writing
<1>5. LocksOK(r)'
  BY <1>1, <1>2, <1>3, IdleHoldsNothing, AdminAssumption
     DEF LocksOK, Guarding, Replacing, Deleting, Referenced
<1>6. RequestOK(r)'
  BY <1>1, <1>2, <1>3 DEF RequestOK, Started, ListHolds, LeavesOne, SeedOK, LoginOK, FreshRows,
                          Replacing, tables
<1>7. \A s \in Requests \ {r} : t.inserted \cap tx[s].inserted = {}
  BY <1>1, <1>2 DEF Insertable
<1> QED
  BY <1>1, <1>2, <1>3, <1>4, <1>5, <1>6, <1>7, QuietStep

\* The foreign keys of a new row.
LEMMA ReferenceStep ==
  ASSUME GuardInv, NEW r \in Requests,
         \/ \E u \in tx[r].user : ReferenceUser(r, u)
         \/ \E x \in tx[r].role : ReferenceRole(r, x)
  PROVE  GuardInv'
<1>1. ASSUME NEW u \in tx[r].user, ReferenceUser(r, u) PROVE GuardInv'
  <2> DEFINE t == [tx[r] EXCEPT !.at = "share"]
  <2>0. u \in Users /\ tx[r].at = "user" /\ tx[r].op \in {"seed", "assign", "roles"}
    BY <1>1, Local DEF ReferenceUser, Shape, Writing, Transaction
  <2>1. /\ t \in Transaction /\ t.at = "share" /\ t.op = tx[r].op /\ t.user = tx[r].user
        /\ t.rest = tx[r].rest /\ t.deleted = tx[r].deleted /\ t.role = tx[r].role
        /\ t.inserted = tx[r].inserted
        /\ t.admins = tx[r].admins /\ t.rows = tx[r].rows /\ t.roles = tx[r].roles
    BY Local DEF Transaction
  <2>2. Become(r, t) /\ Share(<<"row", u>>, r) /\ UNCHANGED tables
    BY <1>1 DEF ReferenceUser
  <2> HIDE DEF t
  <2>3. tx'[r] = t
    BY <2>2, Local
  <2>4. Shape(t)
    BY <2>0, <2>1, Local DEF Shape, Writing
  <2>5. LocksOK(r)'
    <3>1. /\ held' = held
          /\ \A k \in Locks : r \in shared'[k] <=> r \in shared[k] \/ k = <<"row", u>>
      BY <2>0, <2>2, Local, Locking, LockNames
    <3>2. /\ \A y \in Roles : r \in shared'[<<"role", y>>] <=> r \in shared[<<"role", y>>]
          /\ \A v \in Users : r \in shared'[<<"row", v>>] <=> r \in shared[<<"row", v>>] \/ v = u
      BY <3>1, LockNames
    <3> QED
      BY <2>0, <2>1, <2>3, <3>1, <3>2, Local
         DEF LocksOK, Guarding, Replacing, Deleting, Referenced
  <2>6. Administrators' = Administrators /\ Visible(r)' = Visible(r)
    BY <2>1, <2>2, <2>3 DEF Administrators, Visible, tables
  <2>7. LeavesOne(r)' /\ SeedOK(r)'
    <3>1. LeavesOne(r)'
      BY <2>0, <2>1, <2>3, <2>6, Local DEF RequestOK, LeavesOne, Leaves, Replacing
    <3>2. SeedOK(r)'
      <4>1. SeedOK(r) /\ bound' = bound /\ (initialized => initialized')
        BY <2>2, Local DEF RequestOK, tables
      <4>2. tx'[r].op = tx[r].op /\ tx'[r].user = tx[r].user /\ tx'[r].roles = tx[r].roles
        BY <2>1, <2>3
      <4> QED
        BY <2>6, <4>1, <4>2 DEF SeedOK
    <3> QED
      BY <3>1, <3>2
  <2>8. RequestOK(r)'
    BY <2>0, <2>1, <2>2, <2>3, <2>6, <2>7, Local
       DEF RequestOK, Started, ListHolds, Listed, LoginOK, FreshRows, Replacing, tables
  <2> QED
    BY <2>0, <2>1, <2>2, <2>4, <2>5, <2>8, Local, Locking, LockNames, QuietStep
<1>2. ASSUME NEW x \in tx[r].role, ReferenceRole(r, x) PROVE GuardInv'
  <2> DEFINE t == [tx[r] EXCEPT !.at = "write", !.role = {}]
  <2>0. x \in Roles /\ tx[r].at = "share" /\ tx[r].op \in {"seed", "assign", "roles"}
    BY <1>2, Local DEF ReferenceRole, Shape, Writing, Transaction
  <2>1. /\ t \in Transaction /\ t.at = "write" /\ t.op = tx[r].op /\ t.user = tx[r].user
        /\ t.rest = tx[r].rest /\ t.deleted = tx[r].deleted
        /\ t.inserted = tx[r].inserted
        /\ t.admins = tx[r].admins /\ t.rows = tx[r].rows /\ t.roles = tx[r].roles
    BY Local DEF Transaction
  <2>2. Become(r, t) /\ Share(<<"role", x>>, r) /\ UNCHANGED tables
    BY <1>2 DEF ReferenceRole
  <2> HIDE DEF t
  <2>3. tx'[r] = t /\ (tx[r].op \in {"seed", "assign"} => tx[r].roles = {})
    BY <2>0, <2>2, Local DEF Shape
  <2>4. Shape(t)
    BY <2>0, <2>1, Local DEF Shape, Writing
  <2>5. LocksOK(r)'
    <3>1. /\ held' = held
          /\ \A k \in Locks : r \in shared'[k] <=> r \in shared[k] \/ k = <<"role", x>>
      BY <2>0, <2>2, Local, Locking, LockNames
    <3>2. /\ \A v \in Users : r \in shared'[<<"row", v>>] <=> r \in shared[<<"row", v>>]
      BY <3>1, LockNames
    <3> QED
      BY <2>0, <2>1, <2>3, <3>1, <3>2, Local
         DEF LocksOK, Guarding, Replacing, Deleting, Referenced
  <2>6. Administrators' = Administrators /\ Visible(r)' = Visible(r)
    BY <2>1, <2>2, <2>3 DEF Administrators, Visible, tables
  <2>7. LeavesOne(r)' /\ SeedOK(r)'
    <3>1. LeavesOne(r)'
      BY <2>0, <2>1, <2>3, <2>6, Local DEF RequestOK, LeavesOne, Leaves, Replacing
    <3>2. SeedOK(r)'
      <4>1. SeedOK(r) /\ bound' = bound /\ (initialized => initialized')
        BY <2>2, Local DEF RequestOK, tables
      <4>2. tx'[r].op = tx[r].op /\ tx'[r].user = tx[r].user /\ tx'[r].roles = tx[r].roles
        BY <2>1, <2>3
      <4> QED
        BY <2>6, <4>1, <4>2 DEF SeedOK
    <3> QED
      BY <3>1, <3>2
  <2>8. RequestOK(r)'
    BY <2>0, <2>1, <2>2, <2>3, <2>6, <2>7, Local
       DEF RequestOK, Started, ListHolds, Listed, LoginOK, FreshRows, Replacing, tables
  <2> QED
    BY <2>0, <2>1, <2>2, <2>4, <2>5, <2>8, Local, Locking, LockNames, QuietStep
<1> QED
  BY <1>1, <1>2

(***************************************************************************)
(* Steps that write                                                        *)
(***************************************************************************)
\* What the others rely on survives a write that removes no administrator, binds
\* nobody else and takes nobody's row.
LEMMA OthersOK ==
  ASSUME GuardInv, NEW s \in Requests, tx'[s] = tx[s],
         \A l \in Locks : (s \in held'[l] <=> s \in held[l]) /\ (s \in shared'[l] <=> s \in shared[l]),
         users \subseteq users', initialized => initialized',
         Guarding(s) => Administrators \subseteq Administrators',
         Guarding(s) => \A v \in Users : <<v, Admin>> \in userRoles => <<v, Admin>> \in userRoles',
         ~initialized => Administrators \subseteq Administrators' /\ userRoles \subseteq userRoles',
         tx[s].op = "seed" => bound' = bound,
         tx[s].op \in {"seed", "assign"} => tx[s].inserted \cap userRoles' = {}
  PROVE  Shape(tx'[s]) /\ LocksOK(s)' /\ RequestOK(s)'
<1>1. LocksOK(s)'
  BY Local, LocksKept
<1>2. Started(s)' /\ ListHolds(s)' /\ LoginOK(s)' /\ FreshRows(s)'
  BY Local DEF RequestOK, Started, ListHolds, Listed, LoginOK, FreshRows, Replacing, Guarding
<1>3. LeavesOne(s)'
  <2> SUFFICES ASSUME Replacing(s) PROVE \E v \in tx'[s].admins : Leaves(s, v)'
    BY DEF LeavesOne, Replacing
  <2>1. PICK v \in tx[s].admins : Leaves(s, v)
    BY Local DEF RequestOK, LeavesOne
  <2>2. v \in Users /\ Guarding(s)
    BY Local DEF Transaction, Guarding
  <2>3. <<v, Admin>> \in Visible(s) => <<v, Admin>> \in Visible(s)'
    BY <2>2 DEF Visible
  <2> QED
    BY <2>1, <2>3 DEF Leaves
<1>4. SeedOK(s)'
  <2>1. ~initialized => Visible(s) \subseteq Visible(s)'
    BY DEF Visible
  <2> QED
    BY <2>1, Local DEF RequestOK, SeedOK
<1> QED
  BY <1>1, <1>2, <1>3, <1>4, Local DEF RequestOK

\* Statements that are no transaction: nobody else knows a new account.
LEMMA SingleStep ==
  ASSUME GuardInv, NEW u \in Users, Create(u) \/ Activate(u)
  PROVE  GuardInv'
<1>1. /\ initialized /\ initialized' = initialized /\ bound' = bound /\ roles' = roles
      /\ held' = held /\ shared' = shared /\ tx' = tx /\ users \subseteq users'
      /\ active \subseteq active' /\ userRoles \subseteq userRoles'
  BY DEF Create, Activate
<1>2. TypeOK'
  <2>1. userRoles' \subseteq Users \X Roles
    BY DEF GuardInv, TypeOK, Create, Activate
  <2>2. users' \subseteq Users /\ active' \subseteq users' /\ bound' \subseteq users'
    BY DEF GuardInv, TypeOK, Create, Activate
  <2> QED
    BY <1>1, <2>1, <2>2 DEF GuardInv, TypeOK
<1>3. Administrators \subseteq Administrators'
  BY <1>1 DEF Administrators
<1>4. ASSUME NEW s \in Requests, tx[s].op \in {"seed", "assign"}
      PROVE  tx[s].inserted \cap userRoles' = {}
  <2>1. tx[s].inserted \cap userRoles = {} /\ tx[s].inserted \subseteq tx[s].user \X Roles
    BY <1>4, Local DEF RequestOK, FreshRows, Shape
  <2>2. CASE Create(u)
    <3>1. u \notin tx[s].user
      BY <1>4, <2>2, Local DEF Create, RequestOK, Started
    <3>2. userRoles' \subseteq userRoles \cup ({u} \X Roles)
      BY <2>2, Local DEF Create, TypeOK
    <3> QED
      BY <2>1, <3>1, <3>2
  <2>3. CASE Activate(u)
    BY <2>1, <2>3 DEF Activate
  <2> QED
    BY <2>2, <2>3
<1>5. \A s \in Requests : Shape(tx'[s]) /\ LocksOK(s)' /\ RequestOK(s)'
  BY <1>1, <1>3, <1>4, OthersOK
<1> QED
  BY <1>1, <1>2, <1>3, <1>5
     DEF GuardInv, Exclusive, DisjointRows, BoundAdministrators, AdministratorRemains

\* The first login is that of an administrator.
LEMMA InitializeStep ==
  ASSUME GuardInv, NEW r \in Requests, Initialize(r)
  PROVE  GuardInv'
<1>1. /\ tx[r].at = "login" /\ Become(r, Idle) /\ initialized' /\ UNCHANGED <<held, shared>>
      /\ UNCHANGED <<users, active, roles, userRoles, bound>>
  BY DEF Initialize
<1>2. Administrators' = Administrators
  BY <1>1 DEF Administrators
<1>3. Administrators' # {}
  <2>1. tx[r].user # {} /\ tx[r].user \in SUBSET Users
    BY <1>1, Local DEF Shape, Transaction
  <2> QED
    BY <1>1, <1>2, <2>1, Local DEF GuardInv, RequestOK, LoginOK, AdministratorRemains
<1>4. /\ tx'[r] = Idle /\ \A s \in Requests \ {r} : tx'[s] = tx[s]
      /\ tx' \in [Requests -> Transaction]
  BY <1>1, IdleOK, Local DEF TypeOK, Become
<1>5. TypeOK'
  BY <1>1, <1>4, Local DEF TypeOK
<1>6. ASSUME NEW s \in Requests \ {r} PROVE Shape(tx'[s]) /\ LocksOK(s)' /\ RequestOK(s)'
  <2>1. tx[s].op \in {"seed", "assign"} => tx[s].inserted \cap userRoles' = {}
    BY <1>1, <1>6, Local DEF RequestOK, FreshRows
  <2> QED
    BY <1>1, <1>2, <1>4, <1>6, <2>1, OthersOK
<1>7. Shape(tx'[r]) /\ LocksOK(r)' /\ RequestOK(r)'
  <2>1. Idle.at = "idle" /\ Idle.op = "none"
    BY DEF Idle
  <2>2. LocksOK(r)'
    <3>1. tx[r].op = "login"
      BY <1>1, Local DEF Shape
    <3> QED
      BY <1>1, <1>4, <2>1, <3>1, Local DEF LocksOK, Guarding, Replacing, Deleting, Referenced
  <2>3. RequestOK(r)'
    BY <1>4, <2>1 DEF RequestOK, Started, ListHolds, LeavesOne, SeedOK, LoginOK, FreshRows, Replacing
  <2> QED
    BY <1>4, <2>2, <2>3, IdleOK
<1>8. DisjointRows'
  <2>1. Idle.inserted = {}
    BY DEF Idle
  <2> QED
    BY <1>4, <2>1 DEF GuardInv, DisjointRows
<1> QED
  BY <1>1, <1>3, <1>5, <1>6, <1>7, <1>8
     DEF GuardInv, Exclusive, BoundAdministrators, AdministratorRemains

\* Only one request is past LockSystemAdminRole, and only one is a seed.
LEMMA Alone ==
  ASSUME GuardInv, NEW r \in Requests, NEW s \in Requests, r # s
  PROVE  ~(Guarding(r) /\ Guarding(s)) /\ ~(tx[r].op = "seed" /\ tx[s].op = "seed")
<1>1. LocksOK(r) /\ LocksOK(s) /\ Exclusive
  BY DEF GuardInv
<1>2. <<"role", Admin>> \in Locks /\ Settings \in Locks
  BY LockNames, AdminAssumption
<1> QED
  BY <1>1, <1>2 DEF LocksOK, Exclusive

\* SetUserActive(false): another administrator is left.
LEMMA DeactivateStep ==
  ASSUME GuardInv, NEW r \in Requests, NEW u \in tx[r].user, Deactivate(r, u)
  PROVE  GuardInv'
<1>1. /\ MayRemove(r) /\ tx[r].op = "deactivate" /\ tx[r].at = "rows" /\ active' = active \ {u}
      /\ End(r) /\ UNCHANGED <<users, roles, userRoles, bound, initialized>>
  BY DEF Deactivate, MayRemove
<1>2. tx[r].user = {u} /\ tx[r].roles = {} /\ initialized
  BY <1>1, Local DEF Shape, RequestOK, Started
<1>3. Administrators' # {}
  <2>1. PICK v \in tx[r].admins : v # u
    BY <1>1, <1>2, AnotherRemains
  <2>2. v \in Administrators
    BY <1>1, Local DEF RequestOK, ListHolds, Listed
  <2> QED
    BY <1>1, <2>1, <2>2 DEF Administrators
<1>4. TypeOK'
  BY <1>1, Ending, Local DEF TypeOK, OthersKeep
<1>5. ASSUME NEW s \in Requests \ {r} PROVE Shape(tx'[s]) /\ LocksOK(s)' /\ RequestOK(s)'
  <2>1. ~Guarding(s)
    BY <1>1, <1>5, Alone DEF Guarding
  <2>2. tx[s].op \in {"seed", "assign"} => tx[s].inserted \cap userRoles' = {}
    BY <1>1, <1>5, Local DEF RequestOK, FreshRows
  <2>3. /\ tx'[s] = tx[s]
        /\ \A l \in Locks : (s \in held'[l] <=> s \in held[l]) /\ (s \in shared'[l] <=> s \in shared[l])
    BY <1>1, <1>5, Ending DEF OthersKeep
  <2> QED
    BY <1>1, <1>2, <1>5, <2>1, <2>2, <2>3, OthersOK
<1> QED
  BY <1>1, <1>2, <1>3, <1>4, <1>5, Ending, IdleOK
     DEF GuardInv, OthersKeep, BoundAdministrators, AdministratorRemains

\* Only a replacement takes the role from anybody, and it leaves an administrator.
LEMMA CommitRolesKeeps ==
  ASSUME GuardInv, NEW r \in Requests, CommitRoles(r)
  PROVE  /\ active \subseteq active' /\ userRoles' \subseteq userRoles \cup tx[r].inserted
         /\ tx[r].op # "roles" => /\ \A v \in Users : <<v, Admin>> \in userRoles => <<v, Admin>> \in userRoles'
                                  /\ Administrators \subseteq Administrators'
         /\ tx[r].op = "roles" => Administrators' # {}
         /\ tx[r].op = "seed" => userRoles \subseteq userRoles'
<1>1. /\ tx[r].at = "write" /\ tx[r].rest = {} /\ tx[r].roles = {} /\ userRoles' = Visible(r)
      /\ active \subseteq active'
  BY DEF CommitRoles, Seeded
<1>2. userRoles' \subseteq userRoles \cup tx[r].inserted
  BY <1>1 DEF Visible
<1>3. tx[r].op = "seed" => userRoles \subseteq userRoles'
  BY <1>1, Local DEF Visible, Shape
<1>4. ASSUME tx[r].op # "roles"
      PROVE  \A v \in Users : <<v, Admin>> \in userRoles => <<v, Admin>> \in userRoles'
  <2>1. tx[r].op \in {"seed", "assign", "delete"}
    BY <1>1, <1>4, Local DEF Shape, Writing
  <2>2. \A v \in Users : <<v, Admin>> \notin tx[r].deleted
    <3>1. CASE tx[r].op = "delete"
      <4>1. PICK x \in Roles \ {Admin} : tx[r].role = {x}
        BY <3>1, Local DEF Shape
      <4>2. tx[r].deleted \subseteq Users \X {x}
        BY <3>1, <4>1, Local DEF Shape
      <4> QED
        BY <4>2
    <3>2. CASE tx[r].op # "delete"
      BY <2>1, <3>2, Local DEF Shape
    <3> QED
      BY <3>1, <3>2
  <2> QED
    BY <1>1, <2>2 DEF Visible
<1>5. tx[r].op # "roles" => Administrators \subseteq Administrators'
  <2>1. Administrators \subseteq Users
    BY Local DEF Administrators, TypeOK
  <2> QED
    BY <1>1, <1>4, <2>1 DEF Administrators
<1>6. ASSUME tx[r].op = "roles" PROVE Administrators' # {}
  <2>1. Replacing(r)
    BY <1>1, <1>6 DEF Replacing
  <2>2. PICK v \in tx[r].admins : v \notin tx[r].user \/ <<v, Admin>> \in Visible(r)
    BY <1>1, <2>1, Local DEF RequestOK, LeavesOne, Leaves
  <2>3. v \in active /\ <<v, Admin>> \in userRoles
    BY <2>1, Local DEF RequestOK, ListHolds, Listed, Administrators
  <2>4. tx[r].deleted \subseteq tx[r].user \X Roles
    BY <1>6, Local DEF Shape
  <2>5. <<v, Admin>> \in Visible(r)
    <3>1. v \notin tx[r].user => <<v, Admin>> \notin tx[r].deleted
      BY <2>4
    <3> QED
      BY <2>2, <2>3, <3>1 DEF Visible
  <2> QED
    BY <1>1, <2>3, <2>5 DEF Administrators
<1> QED
  BY <1>1, <1>2, <1>3, <1>4, <1>5, <1>6

LEMMA CommitRolesStep ==
  ASSUME GuardInv, NEW r \in Requests, CommitRoles(r)
  PROVE  GuardInv'
<1>1. /\ tx[r].at = "write" /\ tx[r].roles = {} /\ End(r) /\ userRoles' = Visible(r)
      /\ initialized' = initialized
  BY DEF CommitRoles, Seeded
<1>2. /\ users \subseteq users'
      /\ tx[r].op = "seed" => bound' = bound \cup tx[r].user
      /\ tx[r].op # "seed" => bound' = bound /\ initialized
  BY <1>1, Local DEF CommitRoles, Seeded, RequestOK, Started
<1>3. TypeOK'
  <2>1. users' \subseteq Users /\ active' \subseteq users' /\ bound' \subseteq users' /\ roles' \subseteq Roles
    BY Local DEF CommitRoles, Seeded, TypeOK, Transaction
  <2>2. userRoles' \subseteq Users \X Roles
    <3>1. tx[r].inserted \subseteq Users \X Roles
      BY Local DEF Transaction
    <3> QED
      BY <3>1, CommitRolesKeeps, Local DEF TypeOK
  <2> QED
    BY <1>1, <2>1, <2>2, Ending, Local DEF TypeOK, OthersKeep
<1>4. ASSUME NEW s \in Requests \ {r} PROVE Shape(tx'[s]) /\ LocksOK(s)' /\ RequestOK(s)'
  <2>1. /\ tx'[s] = tx[s]
        /\ \A l \in Locks : (s \in held'[l] <=> s \in held[l]) /\ (s \in shared'[l] <=> s \in shared[l])
    BY <1>1, <1>4, Ending DEF OthersKeep
  <2>2. Guarding(s) => tx[r].op # "roles"
    BY <1>1, <1>4, Alone DEF Guarding, Replacing
  <2>3. tx[s].op = "seed" => bound' = bound
    BY <1>2, <1>4, Alone
  <2>4. tx[s].op \in {"seed", "assign"} => tx[s].inserted \cap userRoles' = {}
    <3>1. tx[s].op \in {"seed", "assign"} => tx[s].inserted \cap userRoles = {}
      BY <1>4, Local DEF RequestOK, FreshRows
    <3>2. tx[s].inserted \cap tx[r].inserted = {}
      BY <1>4 DEF GuardInv, DisjointRows
    <3> QED
      BY <3>1, <3>2, CommitRolesKeeps
  <2>5. ~initialized => tx[r].op = "seed"
    BY <1>2
  <2> QED
    BY <1>1, <1>2, <1>4, <2>1, <2>2, <2>3, <2>4, <2>5, CommitRolesKeeps, OthersOK
<1>5. BoundAdministrators'
  <2> SUFFICES ASSUME ~initialized PROVE bound' \X {Admin} \subseteq userRoles'
    BY <1>1 DEF BoundAdministrators
  <2>1. tx[r].op = "seed" /\ bound \X {Admin} \subseteq userRoles
    BY <1>2 DEF GuardInv, BoundAdministrators
  <2>2. tx[r].user \X {Admin} \subseteq userRoles'
    BY <1>1, <2>1, Local DEF RequestOK, SeedOK
  <2> QED
    BY <1>2, <2>1, <2>2, CommitRolesKeeps
<1>6. AdministratorRemains'
  BY <1>1, CommitRolesKeeps DEF GuardInv, AdministratorRemains
<1> QED
  BY <1>1, <1>3, <1>4, <1>5, <1>6, Ending, IdleOK DEF GuardInv, OthersKeep

(***************************************************************************)
(* Theorems                                                                *)
(***************************************************************************)
LEMMA ProceedStep ==
  ASSUME GuardInv, NEW r \in Requests, Proceed(r) \/ Rollback(r)
  PROVE  GuardInv'
<1>1. CASE Commit(r) \/ Refuse(r) \/ Rollback(r)
  BY <1>1, EndStep DEF Commit, Refuse, Rollback
<1>2. CASE \/ Initialize(r) \/ LockSystemAdminRole(r) \/ ListAdministrators(r) \/ CommitRoles(r)
  BY <1>2, InitializeStep, LockRoleStep, ListStep, CommitRolesStep
<1>3. CASE \/ \E u \in tx[r].rows : LockAdministrator(r, u)
           \/ \E p \in tx[r].rest : DeleteRow(r, p)
           \/ \E x \in tx[r].role : ReferenceRole(r, x)
  BY <1>3, LockAdministratorStep, DeleteRowStep, ReferenceStep
<1>4. ASSUME NEW u \in tx[r].user,
             \/ Deactivate(r, u) \/ ReplaceUserRoles(r, u) \/ ReferenceUser(r, u) \/ LockSecond(r, u)
             \/ \E x \in tx[r].roles : AssignUserRole(r, u, x)
      PROVE  GuardInv'
  BY <1>4, DeactivateStep, ReplaceStep, ReferenceStep, LockSecondStep, AssignUserRoleStep
<1> QED
  BY <1>1, <1>2, <1>3, <1>4 DEF Proceed

LEMMA StartStep ==
  ASSUME GuardInv, NEW r \in Requests, NEW u \in Users,
         \/ Seed(r, u) \/ FirstLogin(r, u)
         \/ \E x \in Roles : AssignRole(r, u, x)
         \/ Begin(r, u, "deactivate", {})
         \/ \E R \in SUBSET Roles : Begin(r, u, "roles", R)
         \/ \E op \in {"profile", "verify"} : LockFirst(r, u, op)
  PROVE  GuardInv'
BY SeedStep, FirstLoginStep, AssignRoleStep, BeginStep, LockFirstStep

LEMMA GuardStep ==
  ASSUME GuardInv, [Next]_vars
  PROVE  GuardInv'
<1>1. CASE UNCHANGED vars
  <2>1. UNCHANGED <<tables, held, shared, tx>> /\ Administrators' = Administrators
    BY <1>1 DEF vars, tables, Administrators
  <2>2. \A s \in Requests : tx[s].op \in {"seed", "assign"} => tx[s].inserted \cap userRoles' = {}
    BY <1>1, Local DEF vars, RequestOK, FreshRows
  <2>3. \A s \in Requests : Shape(tx'[s]) /\ LocksOK(s)' /\ RequestOK(s)'
    BY <1>1, <2>1, <2>2, OthersOK DEF vars
  <2> QED
    BY <1>1, <2>1, <2>3
       DEF vars, GuardInv, TypeOK, Exclusive, DisjointRows, BoundAdministrators, AdministratorRemains
<1>2. CASE Next
  BY <1>2, SingleStep, DeleteRoleStep, StartStep, ProceedStep DEF Next
<1> QED
  BY <1>1, <1>2

LEMMA GuardInit == Init => GuardInv
<1> SUFFICES ASSUME Init PROVE GuardInv
  OBVIOUS
<1>1. /\ Idle.at = "idle" /\ Idle.op = "none" /\ Idle.inserted = {}
      /\ \A r \in Requests : tx[r] = Idle
      /\ \A l \in Locks : held[l] = {} /\ shared[l] = {}
  BY DEF Init, Idle
<1>2. TypeOK
  BY IdleOK DEF Init, TypeOK
<1>3. ASSUME NEW r \in Requests PROVE LocksOK(r)
  BY <1>1, LockNames, AdminAssumption DEF LocksOK, Guarding, Replacing, Deleting, Referenced
<1>4. ASSUME NEW r \in Requests PROVE RequestOK(r)
  BY <1>1 DEF RequestOK, Started, ListHolds, LeavesOne, SeedOK, LoginOK, FreshRows, Replacing
<1> QED
  BY <1>1, <1>2, <1>3, <1>4, IdleOK
     DEF Init, GuardInv, Exclusive, DisjointRows, BoundAdministrators, AdministratorRemains

LEMMA GuardInvariant == Spec => []GuardInv
<1>1. Init => GuardInv
  BY GuardInit
<1>2. GuardInv /\ [Next]_vars => GuardInv'
  BY GuardStep
<1> QED
  BY <1>1, <1>2, PTL DEF Spec

\* Every variable of AdminGuard keeps its type; in particular nobody is active,
\* or bound as the bootstrap administrator, who does not exist.
THEOREM TypeCorrect == Spec => []TypeOK
<1>1. GuardInv => TypeOK
  BY DEF GuardInv
<1> QED
  BY <1>1, GuardInvariant, PTL

\* From the first login on there is an active administrator, whoever deactivates
\* and demotes whom at the same time.
THEOREM AdministratorsRemain == Spec => []AdministratorRemains
<1>1. GuardInv => AdministratorRemains
  BY DEF GuardInv
<1> QED
  BY <1>1, GuardInvariant, PTL

\* A seed binds the account that is bound already, if there is one: it has
\* locked the settings since it looked.
THEOREM BindingsStable == Spec => BindingStable
<1>1. GuardInv /\ [Next]_vars => [bound # {} => bound' = bound]_vars
  <2> SUFFICES ASSUME GuardInv, Next, bound # {} PROVE bound' = bound
    BY DEF vars
  <2>1. ASSUME NEW r \in Requests, CommitRoles(r) PROVE bound' = bound
    <3>1. CASE tx[r].op = "seed"
      <4>1. bound \subseteq tx[r].user
        BY <3>1, Local DEF RequestOK, SeedOK
      <4>2. \E u \in Users : tx[r].user = {u}
        BY <2>1, <3>1, Local DEF Shape, CommitRoles, Seeded
      <4> QED
        BY <2>1, <3>1, <4>1, <4>2 DEF CommitRoles, Seeded
    <3>2. CASE tx[r].op # "seed"
      BY <2>1, <3>2 DEF CommitRoles, Seeded
    <3> QED
      BY <3>1, <3>2
  <2>2. ASSUME NEW u \in Users, Create(u) \/ Activate(u) PROVE bound' = bound
    BY <2>2 DEF Create, Activate
  <2>3. ASSUME NEW r \in Requests, NEW x \in Roles, DeleteRole(r, x) PROVE bound' = bound
    BY <2>3 DEF DeleteRole, tables
  <2>4. ASSUME NEW r \in Requests, NEW u \in Users,
               \/ Seed(r, u) \/ FirstLogin(r, u)
               \/ \E x \in Roles : AssignRole(r, u, x)
               \/ \E op, R : Begin(r, u, op, R)
               \/ \E op \in {"profile", "verify"} : LockFirst(r, u, op)
        PROVE  bound' = bound
    BY <2>4 DEF Seed, FirstLogin, AssignRole, Begin, LockFirst, tables
  <2>5. ASSUME NEW r \in Requests, Proceed(r) \/ Rollback(r), ~CommitRoles(r) PROVE bound' = bound
    BY <2>5 DEF Proceed, Initialize, LockSystemAdminRole, ListAdministrators, Commit, Refuse,
                Rollback, LockAdministrator, DeleteRow, ReferenceRole, Deactivate,
                ReplaceUserRoles, AssignUserRole, ReferenceUser, LockSecond, tables
  <2> QED
    BY <2>1, <2>2, <2>3, <2>4, <2>5 DEF Next
<1> QED
  BY <1>1, GuardInvariant, PTL DEF Spec, BindingStable

(***************************************************************************)
(* Circles                                                                 *)
(***************************************************************************)
\* How many others may wait in a row from here on, replacements aside.
Rank(t) ==
    CASE t.at \in {"login", "role"} -> 5
      [] t.at = "first" \/ (t.at = "write" /\ t.roles # {}) -> 4
      [] t.at = "user" \/ (t.at = "share" /\ t.role = {Admin}) -> 3
      [] t.at \in {"admins", "rows"} -> 2
      [] t.at = "share" /\ t.role # {Admin} -> 1
      [] OTHER -> 0

\* Transactions that wait for each other in a circle include a replacement of roles.
CirclesReplace == \A S \in SUBSET Requests : Circle(S) => \E r \in S : Replacing(r)

LEMMA RankType == \A t : Rank(t) \in 0 .. 5
BY DEF Rank

\* The rank of those who hold a lock.
LEMMA HolderRank ==
  ASSUME GuardInv, NEW s \in Requests, ~Replacing(s)
  PROVE  /\ s \in held[Settings] => Rank(tx[s]) <= 4
         /\ s \in held[<<"role", Admin>>] => Rank(tx[s]) = 2
         /\ \A x \in Roles \ {Admin} : s \in held[<<"role", x>>] => Rank(tx[s]) = 0
         /\ \A x \in Roles : s \in shared[<<"role", x>>] => Rank(tx[s]) = 0
         /\ \A u \in Users : s \in held[<<"row", u>>] =>
              Rank(tx[s]) = 0 \/ (Rank(tx[s]) = 2 /\ Guarding(s))
         /\ \A u \in Users : s \in shared[<<"row", u>>] =>
              \/ Rank(tx[s]) <= 1
              \/ Rank(tx[s]) = 3 /\ <<u, Admin>> \in tx[s].inserted /\ tx[s].op \in {"assign", "seed"}
<1>1. LocksOK(s) /\ Shape(tx[s])
  BY Local
<1>2. s \in held[Settings] => Rank(tx[s]) <= 4
  <2>1. tx[s].op = "seed" => tx[s].at \notin {"login", "role"}
    BY <1>1 DEF Shape
  <2> QED
    BY <1>1, <2>1 DEF LocksOK, Rank
<1>3. s \in held[<<"role", Admin>>] => Rank(tx[s]) = 2
  BY <1>1 DEF LocksOK, Guarding, Rank
<1>4. \A x \in Roles \ {Admin} : s \in held[<<"role", x>>] => Rank(tx[s]) = 0
  BY <1>1 DEF LocksOK, Deleting, Shape, Rank
<1>5. Referenced(s) => Rank(tx[s]) = 0
  BY DEF Referenced, Rank
<1>6. \A x \in Roles : s \in shared[<<"role", x>>] => Rank(tx[s]) = 0
  BY <1>1, <1>5 DEF LocksOK
<1>7. \A u \in Users : s \in held[<<"row", u>>] =>
        Rank(tx[s]) = 0 \/ (Rank(tx[s]) = 2 /\ Guarding(s))
  BY <1>1 DEF LocksOK, Rank, Guarding
<1>8. ASSUME NEW u \in Users, s \in shared[<<"row", u>>]
      PROVE  \/ Rank(tx[s]) <= 1
             \/ Rank(tx[s]) = 3 /\ <<u, Admin>> \in tx[s].inserted /\ tx[s].op \in {"assign", "seed"}
  <2>1. CASE Referenced(s)
    BY <1>5, <2>1
  <2>2. CASE tx[s].op \in {"assign", "seed"} /\ tx[s].at = "share" /\ u \in tx[s].user
    <3>1. CASE tx[s].role = {Admin}
      <4>1. <<u, Admin>> \in tx[s].inserted
        BY <1>1, <2>2, <3>1 DEF Shape
      <4> QED
        BY <2>2, <3>1, <4>1 DEF Rank
    <3>2. CASE tx[s].role # {Admin}
      BY <2>2, <3>2 DEF Rank
    <3> QED
      BY <3>1, <3>2
  <2> QED
    BY <1>1, <1>8, <2>1, <2>2 DEF LocksOK
<1> QED
  BY <1>2, <1>3, <1>4, <1>6, <1>7, <1>8

\* Whoever waits for a lock waits for a lower rank.
LEMMA LockRank ==
  ASSUME GuardInv, NEW r \in Requests, NEW s \in Requests, r # s, WaitsForLock(r, s),
         ~Replacing(r), ~Replacing(s)
  PROVE  Rank(tx[s]) < Rank(tx[r])
<1>1. tx[r] \in Transaction /\ Shape(tx[r])
  BY Local
<1>2. CASE tx[r].at = "login"
  <2>1. s \in held[Settings]
    BY <1>2 DEF WaitsForLock, Wanted, WantedWrite
  <2> QED
    BY <1>2, <2>1, HolderRank DEF Rank
<1>3. CASE tx[r].at = "role"
  <2>1. s \in held[<<"role", Admin>>] \cup shared[<<"role", Admin>>]
    BY <1>3 DEF WaitsForLock, Wanted, WantedWrite
  <2>2. Rank(tx[s]) <= 2
    BY <2>1, HolderRank, AdminAssumption
  <2> QED
    BY <1>3, <2>2 DEF Rank
<1>4. CASE tx[r].at = "rows"
  <2>1. PICK u \in Users : /\ u \in tx[r].rows /\ s \in held[<<"row", u>>] \cup shared[<<"row", u>>]
                           \/ s \in held[<<"row", u>>]
    BY <1>1, <1>4 DEF WaitsForLock, Wanted, WantedWrite, Transaction
  <2>2. ~Guarding(s) /\ Rank(tx[r]) = 2
    BY <1>4, Alone DEF Guarding, Rank
  <2>3. CASE s \in held[<<"row", u>>]
    BY <2>2, <2>3, HolderRank
  <2>4. CASE u \in tx[r].rows /\ s \in shared[<<"row", u>>]
    <3>1. <<u, Admin>> \in userRoles
      BY <1>4, <2>4, Local DEF RequestOK, ListHolds, Listed, Administrators
    <3>2. tx[s].op \in {"assign", "seed"} => <<u, Admin>> \notin tx[s].inserted
      BY <3>1, Local DEF RequestOK, FreshRows
    <3> QED
      BY <2>2, <2>4, <3>2, HolderRank, RankType
  <2> QED
    BY <2>1, <2>3, <2>4
<1>5. CASE tx[r].at = "first"
  <2>1. PICK u \in Users : s \in held[<<"row", u>>] \cup shared[<<"row", u>>]
    BY <1>1, <1>5 DEF WaitsForLock, Wanted, WantedWrite, LockOrder, Transaction
  <2>2. Rank(tx[s]) <= 3
    <3>1. CASE s \in held[<<"row", u>>]
      BY <3>1, HolderRank
    <3>2. CASE s \in shared[<<"row", u>>]
      <4>1. Rank(tx[s]) <= 1 \/ Rank(tx[s]) = 3
        BY <3>2, HolderRank
      <4> QED
        BY <4>1, RankType
    <3> QED
      BY <2>1, <3>1, <3>2
  <2> QED
    BY <1>5, <2>2 DEF Rank
<1>6. CASE tx[r].at = "user"
  <2>1. PICK u \in Users : s \in held[<<"row", u>>]
    BY <1>1, <1>6 DEF WaitsForLock, Wanted, WantedWrite, Transaction
  <2>2. Rank(tx[s]) <= 2
    BY <2>1, HolderRank
  <2> QED
    BY <1>6, <2>2 DEF Rank
<1>7. CASE tx[r].at = "share"
  <2>1. PICK x \in Roles : x \in tx[r].role /\ s \in held[<<"role", x>>]
    BY <1>1, <1>7 DEF WaitsForLock, Wanted, WantedWrite, Transaction
  <2>2. tx[r].role = {x}
    BY <1>1, <1>7, <2>1 DEF Shape
  <2>3. CASE x = Admin
    BY <1>7, <2>1, <2>2, <2>3, HolderRank DEF Rank
  <2>4. CASE x # Admin
    BY <1>7, <2>1, <2>2, <2>4, HolderRank DEF Rank
  <2> QED
    BY <2>3, <2>4
<1>8. tx[r].at \in {"login", "role", "rows", "first", "user", "share"}
  BY DEF WaitsForLock, Wanted, WantedWrite
<1> QED
  BY <1>2, <1>3, <1>4, <1>5, <1>6, <1>7, <1>8

\* So does whoever waits for a row of user_roles.
LEMMA RowRank ==
  ASSUME GuardInv, NEW r \in Requests, NEW s \in Requests, r # s, WaitsForRow(r, s),
         ~Replacing(r), ~Replacing(s)
  PROVE  Rank(tx[s]) < Rank(tx[r])
<1>1. Shape(tx[r]) /\ Shape(tx[s]) /\ tx[r].at = "write"
  BY Local DEF WaitsForRow
<1>2. tx[s].deleted # {} => tx[s].op = "delete"
  BY <1>1 DEF Shape, Writing, Replacing
<1>3. tx[r].rest \cap tx[s].deleted = {}
  <2> SUFFICES ASSUME NEW p \in tx[r].rest, p \in tx[s].deleted PROVE FALSE
    OBVIOUS
  <2>1. tx[r].op = "delete" /\ tx[s].op = "delete"
    BY <1>1, <1>2 DEF Shape, Writing, Replacing
  <2>2. PICK x \in Roles \ {Admin} : tx[r].role = {x}
    BY <1>1, <2>1 DEF Shape
  <2>3. tx[s].role = {x}
    <3>1. PICK y \in Roles \ {Admin} : tx[s].role = {y}
      BY <1>1, <2>1 DEF Shape
    <3>2. p \in Users \X {x} /\ p \in Users \X {y}
      BY <1>1, <2>1, <2>2, <3>1 DEF Shape
    <3> QED
      BY <3>1, <3>2
  <2>4. r \in held[<<"role", x>>] /\ s \in held[<<"role", x>>]
    BY <2>1, <2>2, <2>3, Local DEF LocksOK, Deleting
  <2> QED
    BY <2>4, Local, LockNames DEF Exclusive
<1>4. PICK p : p \in tx[r].user \X tx[r].roles /\ p \in tx[s].inserted \cup tx[s].deleted
  BY <1>3 DEF WaitsForRow
<1>5. tx[r].op = "seed" /\ tx[r].roles = {Admin} /\ Rank(tx[r]) = 4
  <2>1. tx[r].roles # {}
    BY <1>4
  <2>2. tx[r].op = "seed"
    BY <1>1, <2>1 DEF Shape, Writing, Replacing
  <2> QED
    BY <1>1, <2>1, <2>2 DEF Shape, Rank
<1>6. p \in tx[s].inserted
  <2> SUFFICES ASSUME p \in tx[s].deleted PROVE FALSE
    BY <1>4
  <2>1. PICK x \in Roles \ {Admin} : tx[s].role = {x} /\ tx[s].deleted \subseteq Users \X {x}
    BY <1>1, <1>2 DEF Shape
  <2> QED
    BY <1>4, <1>5, <2>1
<1>7. tx[s].op = "assign" /\ tx[s].roles = {}
  <2>1. tx[s].op \in {"seed", "assign", "delete"}
    BY <1>1, <1>6 DEF Shape, Writing, Replacing
  <2>2. tx[s].op # "delete"
    BY <1>1, <1>6 DEF Shape
  <2> QED
    BY <1>1, <1>5, <2>1, <2>2, Alone DEF Shape
<1>8. tx[s].at \in {"write", "user", "share"}
  BY <1>1, <1>6 DEF Shape, Writing
<1> QED
  BY <1>5, <1>7, <1>8 DEF Rank

\* Without a replacement nobody in a circle could have the lowest rank.
LEMMA CirclesOK == GuardInv => CirclesReplace
<1> SUFFICES ASSUME GuardInv, NEW S \in SUBSET Requests, Circle(S), \A r \in S : ~Replacing(r)
             PROVE  FALSE
  BY DEF CirclesReplace
<1>1. \A r \in S : \E s \in S : Rank(tx[s]) < Rank(tx[r])
  <2> SUFFICES ASSUME NEW r \in S PROVE \E s \in S : Rank(tx[s]) < Rank(tx[r])
    OBVIOUS
  <2>1. PICK s \in S : WaitsFor(r, s)
    BY DEF Circle
  <2> QED
    BY <2>1, LockRank, RowRank DEF WaitsFor
<1> DEFINE f(r) == Rank(tx[r])
<1>2. \A r : f(r) \in 0 .. 5
  BY RankType
<1> HIDE DEF f
<1>3. \A r \in S : \E s \in S : f(s) < f(r)
  BY <1>1 DEF f
<1>4. \A r \in S : f(r) >= 1
  BY <1>2, <1>3
<1>5. \A r \in S : f(r) >= 2
  BY <1>2, <1>3, <1>4
<1>6. \A r \in S : f(r) >= 3
  BY <1>2, <1>3, <1>5
<1>7. \A r \in S : f(r) >= 4
  BY <1>2, <1>3, <1>6
<1>8. \A r \in S : f(r) >= 5
  BY <1>2, <1>3, <1>7
<1> QED
  BY <1>2, <1>3, <1>8 DEF Circle

\* However many transactions there are, those that wait for each other in a circle
\* include ReplaceUserRoles: all others take the locks of settings, roles, users and
\* rows of user_roles in orders that fit together.  It is why the detector need not
\* be assumed for them.
THEOREM CirclesThroughReplacements == Spec => []CirclesReplace
BY GuardInvariant, CirclesOK, PTL
=============================================================================
