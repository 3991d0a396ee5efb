\* Two accounts, two requests: administrators deactivate and demote each other, and every transaction ends.
SPECIFICATION Spec
CONSTANTS
    Users = {u1, u2}
    Requests = {r1, r2}
    Roles = {admin, other}
    Admin = admin
    Bootstrap = {u1}
INVARIANTS
    AdministratorRemains
PROPERTIES
    TransactionsEnd
