\* Two verifications of one code, one of them slow.
SPECIFICATION Spec
CONSTANTS
    Requests = {r1, r2}
    Users = {u1}
    Mails = {m1}
    Purposes = {"verify_email"}
    TTL = 5
    Cooldown = 1
    Window = 2
    MailLimit = 1
    MaxErrors = 1
    MaxLatency = 2
    MaxCodes = 1
    MaxTime = 4
    Settings <- Policies
SYMMETRY Symmetry
INVARIANTS
    AcceptedOnce
