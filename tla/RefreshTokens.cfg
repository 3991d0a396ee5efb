\* Two users, three tokens, two requests; every request may end early and
\* every session may expire.
SPECIFICATION Spec
CONSTANTS
    Users = {u1, u2}
    Tokens = {t1, t2, t3}
    Requests = {r1, r2}
    None = None
    MaxRevocations = 2
    MaxResets = 1
SYMMETRY RefreshSymmetry
INVARIANTS
    IndexConsistent
    RevocationHolds
    RotatedOnce
PROPERTIES
    OthersUntouched
