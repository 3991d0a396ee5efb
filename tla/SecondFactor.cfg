\* Two requests and one challenge: all operations, interleaved between every read and write.
SPECIFICATION Spec
CONSTANTS
    Requests = {r1, r2}
    Challenges = {c1}
    Operations = {"login", "put", "enroll", "disable", "reset", "email"}
    MaxAttempts = 2
    RecoveryCount = 1
    MaxSecrets = 1
    MaxClock = 1
    MaxVersion = 4
    MaxResets = 1
SYMMETRY RequestSymmetry
INVARIANTS
    SpentStaysSpent
    ChallengeBound
    ModeMatchesSecret
    EmailModeVerified
PROPERTIES
    ProofAcceptedOnce
    FactorKept
