\* Two requests for a custom role or the admin role, while users are switched off and change roles.
SPECIFICATION Spec
CONSTANTS
    Users = {u1, u2}
    Roles = {admin, editor}
    Admin = admin
    Permissions = {all, write}
    Wildcard = all
    Required = write
    Requests = {r1, r2}
    MaxChanges = 1
SYMMETRY AccessSymmetry
INVARIANTS
    EffectsAuthorized
    TrailTruthful
PROPERTIES
    SupersededGone
