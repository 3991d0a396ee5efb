\* Registrations, verifications and logins with codes, while settings and addresses change.
SPECIFICATION Spec
CONSTANTS
    Requests = {r1, r2}
    Users = {u1}
    Mails = {m1}
    Purposes = {"register", "login", "verify_email"}
    TTL = 4
    Cooldown = 1
    Window = 3
    MailLimit = 1
    MaxErrors = 1
    MaxLatency = 2
    MaxCodes = 2
    MaxTime = 4
    Settings <- Policies
SYMMETRY Symmetry
CONSTRAINT Horizon
INVARIANTS
    TypeOK
    VerifiedMailbox
PROPERTIES
    SecondUseLate
    RegistrationPolicy
    NewerCodeSpared
    GuessesBounded
