---------------------------- MODULE SecondFactor ----------------------------
(***************************************************************************)
(* The second factor of one user: the row of user_security_settings, the   *)
(* login challenges in Redis, and the requests of AuthenticationService    *)
(* that read the row, verify something against what they read and write    *)
(* later.  A statement, a transaction and a script are one step each; the  *)
(* version column is what ties a write to the read it rests on.            *)
(*                                                                         *)
(* A TOTP code is the pair of a secret and a time step, a recovery code    *)
(* the pair of the batch it was generated in and its position.  Refusals   *)
(* that depend on anything else (a wrong password, an inactive account,    *)
(* the global settings), failures and lost replies end a request between   *)
(* two of its steps (Abandon).                                             *)
(***************************************************************************)
EXTENDS Integers, FiniteSets

CONSTANTS
    Requests,       \* requests in flight
    Challenges,     \* challenge ids, each drawn at most once
    Operations,     \* the operations that are called in a behaviour
    MaxAttempts,    \* attempts a challenge allows (5)
    RecoveryCount,  \* recovery codes of a batch (10)
    MaxSecrets,     \* how many secrets may be enrolled (a bound)
    MaxClock,       \* the last 30 second step (a bound)
    MaxVersion,     \* the row is not written from this version on (a bound)
    MaxResets       \* how often the password may be reset (a bound)

AllOperations == {"login", "put", "enroll", "disable", "reset", "email"}

ASSUME SecondFactorAssumption ==
    /\ Operations \subseteq AllOperations
    /\ MaxAttempts \in Nat
    /\ RecoveryCount \in Nat
    /\ MaxSecrets \in Nat
    /\ MaxClock \in Nat
    /\ MaxVersion \in Nat
    /\ MaxResets \in Nat

VARIABLES
    row,           \* user_security_settings
    password,      \* users.password_hash, as the number of resets so far
    verified,      \* users.email_verified_at is set
    challenge,     \* the challenges in Redis
    consumptions,  \* authentication_consumptions: challenges already used
    clock,         \* the current 30 second step
    drawn,         \* the secrets generated so far
    late,          \* secrets whose enrollment window, batches whose time is over
    req,           \* where each request is, and what it has read
    spent          \* history: the proofs that were accepted

vars == <<row, password, verified, challenge, consumptions, clock, drawn, late,
          req, spent>>

NoSecret == 0

\* A recovery code: its batch and its position.
RecoveryCode == Nat \X Nat

Row == [mode : {"default", "email", "totp"}, secret : Nat, pending : Nat,
        last : Int, recovery : SUBSET RecoveryCode, version : Nat]

\* The row EnsureSecuritySettings inserts.
InitialRow == [mode |-> "default", secret |-> NoSecret, pending |-> NoSecret,
               last |-> -1, recovery |-> {}, version |-> 0]

\* A second factor a client presents: of is the secret and n the step of a
\* TOTP code, or of is the batch and n the position of a recovery code.
Proof == [kind : {"totp", "recovery"}, of : Nat, n : Nat]

NoProof == [kind |-> "totp", of |-> NoSecret, n |-> 0]

Challenge == [state : {"new", "live", "gone"}, version : Nat, attempts : Nat, password : Nat]

Points == {"idle", "login", "recheck", "issue", "verify", "verifyConsume", "delete",
           "put", "putSave", "enroll", "enrollSave", "confirmSave",
           "disableConsume", "disableSave"}

\* What a request keeps: the row if it will write it back as a whole, its
\* version if that is all it needs, and what it has read of the user.
Request == [at : Points, snap : Row, version : Nat, password : Nat,
            verified : BOOLEAN, mode : {"default", "email", "totp"},
            challenge : SUBSET Challenges, proof : Proof]

Idle == [at |-> "idle", snap |-> InitialRow, version |-> 0, password |-> 0,
         verified |-> FALSE, mode |-> "default", challenge |-> {}, proof |-> NoProof]

Late == [secrets : SUBSET Nat, batches : SUBSET Nat]

TypeOK ==
    /\ row \in Row
    /\ password \in Nat
    /\ verified \in BOOLEAN
    /\ challenge \in [Challenges -> Challenge]
    /\ consumptions \subseteq Challenges
    /\ clock \in Nat
    /\ drawn \in Nat
    /\ late \in Late
    /\ req \in [Requests -> Request]
    /\ spent \subseteq Proof

NoChallenge == [state |-> "new", version |-> 0, attempts |-> 0, password |-> 0]

Gone == [NoChallenge EXCEPT !.state = "gone"]

Init ==
    /\ row = InitialRow
    /\ password = 0
    /\ verified = FALSE
    /\ challenge = [c \in Challenges |-> NoChallenge]
    /\ consumptions = {}
    /\ clock = 0
    /\ drawn = 0
    /\ late = [secrets |-> {}, batches |-> {}]
    /\ req = [r \in Requests |-> Idle]
    /\ spent = {}

(***************************************************************************)
(* Statements and transactions on the row                                  *)
(***************************************************************************)
\* Faulty variant: the write does not look at the version.
Save_Unversioned(new, version) ==
    /\ row.version < MaxVersion
    /\ row' = [new EXCEPT !.version = row.version + 1]

\* SaveSecuritySettings; a version that does not match is ErrSecurityConflict
\* and ends the request (Abandon).
Save(new, version) ==
    /\ row.version < MaxVersion
    /\ row.version = version
    /\ row' = [new EXCEPT !.version = row.version + 1]

\* Faulty variant: the service's earlier look at the user is trusted.
MaySave_Snapshot(mode, seen) == mode = "email" => seen

\* The recheck of SaveSecurity under the lock of the row; seen is what the
\* service had read of the user before.
MaySave(mode, seen) == mode = "email" => verified

\* Crypto.Verify: the steps accepted for a code of the secret.
Steps(last) == {n \in {clock, clock - 1, clock + 1} : n > last /\ n >= 0}

\* The proofs consumeProof accepts, given the row s it has read: a current
\* code of the secret, or a recovery code while the batch is valid.
Acceptable(s) ==
    [kind : {"totp"}, of : {s.secret}, n : Steps(s.last)]
    \cup {[kind |-> "recovery", of |-> c[1], n |-> c[2]] :
            c \in {d \in s.recovery : d[1] \notin late.batches}}

\* The checks of ConsumeCredential under the lock of the row.
Consumable(p, version, credential) ==
    /\ row.version = version
    /\ row.secret # NoSecret
    /\ credential \cap consumptions = {}
    /\ p.kind = "recovery" => <<p.of, p.n>> \in row.recovery /\ p.of \notin late.batches
    /\ p.kind = "totp" => p.n > row.last

\* Faulty variant: using a factor leaves the version alone.
Consumed_SameVersion(p) ==
    row' = [row EXCEPT
              !.last = IF p.kind = "totp" THEN p.n ELSE @,
              !.recovery = IF p.kind = "totp" THEN @ ELSE @ \ {<<p.of, p.n>>}]

\* SaveConsumedSecurityCredential.
Consumed(p) ==
    row' = [row EXCEPT
              !.last = IF p.kind = "totp" THEN p.n ELSE @,
              !.recovery = IF p.kind = "totp" THEN @ ELSE @ \ {<<p.of, p.n>>},
              !.version = @ + 1]

\* The transaction ConsumeCredential.
ConsumeCredential(p, version, credential) ==
    /\ row.version < MaxVersion
    /\ Consumable(p, version, credential)
    /\ Consumed(p)
    /\ consumptions' = consumptions \cup credential
    /\ spent' = spent \cup {p}

(***************************************************************************)
(* Login with TOTP                                                         *)
(***************************************************************************)
Become(r, q) == req' = [req EXCEPT ![r] = q]

Done(r) == Become(r, Idle)

\* credentials: the password is verified against the user's row.
LoginCredentials(r) ==
    /\ "login" \in Operations
    /\ req[r].at = "idle"
    /\ Become(r, [Idle EXCEPT !.at = "login", !.password = password])
    /\ UNCHANGED <<row, password, verified, challenge, consumptions, clock, drawn,
                   late, spent>>

\* The security row decides about the second factor.  In the other modes the
\* login ends here with a session or a refusal.
LoginSecurity(r) ==
    /\ req[r].at = "login"
    /\ IF row.mode = "totp" /\ row.secret # NoSecret
       THEN Become(r, [req[r] EXCEPT !.at = "recheck", !.version = row.version])
       ELSE Done(r)
    /\ UNCHANGED <<row, password, verified, challenge, consumptions, clock, drawn,
                   late, spent>>

\* Faulty variant: the user is not read again.
LoginRecheck_Skipped(r) ==
    /\ req[r].at = "recheck"
    /\ Become(r, [req[r] EXCEPT !.at = "issue"])
    /\ UNCHANGED <<row, password, verified, challenge, consumptions, clock, drawn,
                   late, spent>>

\* FindByID: the password must be the one that was verified.
LoginRecheck(r) ==
    /\ req[r].at = "recheck"
    /\ IF req[r].password = password
       THEN Become(r, [req[r] EXCEPT !.at = "issue"])
       ELSE Done(r)
    /\ UNCHANGED <<row, password, verified, challenge, consumptions, clock, drawn,
                   late, spent>>

\* Challenges.Issue, bound to the version that was read.
LoginIssue(r, c) ==
    /\ req[r].at = "issue"
    /\ challenge[c] = NoChallenge
    /\ challenge' = [challenge EXCEPT ![c] =
         [state |-> "live", version |-> req[r].version, attempts |-> 0,
          password |-> req[r].password]]
    /\ Done(r)
    /\ UNCHANGED <<row, password, verified, consumptions, clock, drawn, late, spent>>

\* VerifyLogin: Challenges.Attempt counts, and refuses beyond the limit.
VerifyAttempt(r, c) ==
    /\ req[r].at = "idle"
    /\ challenge[c].state = "live"
    /\ challenge[c].attempts <= MaxAttempts
    /\ challenge' = [challenge EXCEPT ![c].attempts = @ + 1]
    /\ IF challenge[c].attempts < MaxAttempts
       THEN Become(r, [Idle EXCEPT !.at = "verify", !.challenge = {c},
                                   !.version = challenge[c].version])
       ELSE UNCHANGED req
    /\ UNCHANGED <<row, password, verified, consumptions, clock, drawn, late, spent>>

\* The row is read, compared with the challenge, and the proof verified.
VerifyProof(r) ==
    /\ req[r].at = "verify"
    /\ row.mode = "totp" /\ row.secret # NoSecret
    /\ req[r].version = row.version
    /\ \E p \in Acceptable(row) :
         Become(r, [req[r] EXCEPT !.at = "verifyConsume", !.proof = p])
    /\ UNCHANGED <<row, password, verified, challenge, consumptions, clock, drawn,
                   late, spent>>

\* ConsumeCredential with the challenge.
VerifyConsume(r) ==
    /\ req[r].at = "verifyConsume"
    /\ ConsumeCredential(req[r].proof, req[r].version, req[r].challenge)
    /\ Become(r, [Idle EXCEPT !.at = "delete", !.challenge = req[r].challenge])
    /\ UNCHANGED <<password, verified, challenge, clock, drawn, late>>

\* Challenges.Consume; the session that follows is RefreshTokens' LoginIssue.
VerifyDelete(r) ==
    /\ req[r].at = "delete"
    /\ challenge' = [c \in Challenges |-> IF c \in req[r].challenge
                                          THEN Gone
                                          ELSE challenge[c]]
    /\ Done(r)
    /\ UNCHANGED <<row, password, verified, consumptions, clock, drawn, late, spent>>

(***************************************************************************)
(* PutSecurity, Enroll, Confirm, Disable                                   *)
(***************************************************************************)
\* PutSecurity: FindByID.
PutUser(r, mode) ==
    /\ "put" \in Operations
    /\ req[r].at = "idle"
    /\ Become(r, [Idle EXCEPT !.at = "put", !.mode = mode,
                                !.verified = mode = "email" /\ verified])
    /\ UNCHANGED <<row, password, verified, challenge, consumptions, clock, drawn,
                   late, spent>>

\* Faulty variant: PutSecurity may leave totp mode without Disable.
PutRead_Leave(r) ==
    /\ req[r].at = "put"
    /\ req[r].mode = "totp" => row.secret # NoSecret
    /\ req[r].mode = "email" => req[r].verified
    /\ Become(r, [req[r] EXCEPT !.at = "putSave", !.snap = row])
    /\ UNCHANGED <<row, password, verified, challenge, consumptions, clock, drawn,
                   late, spent>>

\* PutSecurity: the row is read and the change of mode is checked.
PutRead(r) ==
    /\ req[r].at = "put"
    /\ row.secret # NoSecret <=> req[r].mode = "totp"
    /\ req[r].mode = "email" => req[r].verified
    /\ Become(r, [req[r] EXCEPT !.at = "putSave", !.snap = row])
    /\ UNCHANGED <<row, password, verified, challenge, consumptions, clock, drawn,
                   late, spent>>

\* PutSecurity: SaveSecurity.
PutSave(r) ==
    /\ req[r].at = "putSave"
    /\ MaySave(req[r].mode, req[r].verified)
    /\ Save([req[r].snap EXCEPT !.mode = req[r].mode], req[r].snap.version)
    /\ Done(r)
    /\ UNCHANGED <<password, verified, challenge, consumptions, clock, drawn, late,
                   spent>>

\* Enroll: the password is verified against the user's row.
EnrollUser(r) ==
    /\ "enroll" \in Operations
    /\ req[r].at = "idle"
    /\ Become(r, [Idle EXCEPT !.at = "enroll"])
    /\ UNCHANGED <<row, password, verified, challenge, consumptions, clock, drawn,
                   late, spent>>

\* Enroll: the row must not have a secret.
EnrollRead(r) ==
    /\ req[r].at = "enroll"
    /\ row.secret = NoSecret
    /\ Become(r, [req[r] EXCEPT !.at = "enrollSave", !.snap = row])
    /\ UNCHANGED <<row, password, verified, challenge, consumptions, clock, drawn,
                   late, spent>>

\* Enroll: a new secret is pending.  The snapshot is saved as a whole.
EnrollSave(r) ==
    /\ req[r].at = "enrollSave"
    /\ drawn < MaxSecrets
    /\ drawn' = drawn + 1
    /\ MaySave(req[r].snap.mode, TRUE)
    /\ Save([req[r].snap EXCEPT !.pending = drawn + 1], req[r].snap.version)
    /\ Done(r)
    /\ UNCHANGED <<password, verified, challenge, consumptions, clock, late, spent>>

\* Confirm: the row is read and a code of the pending secret verified.
ConfirmRead(r) ==
    /\ "enroll" \in Operations
    /\ req[r].at = "idle"
    /\ row.secret = NoSecret
    /\ row.pending # NoSecret
    /\ row.pending \notin late.secrets
    /\ \E n \in Steps(-1) :
         Become(r, [Idle EXCEPT !.at = "confirmSave", !.snap = row,
                                !.proof = [kind |-> "totp", of |-> row.pending, n |-> n]])
    /\ UNCHANGED <<row, password, verified, challenge, consumptions, clock, drawn,
                   late, spent>>

\* Faulty variant: the code that confirmed the enrollment may be used again.
Confirmed_StepFree(s, p) ==
    [mode |-> "totp", secret |-> s.pending, pending |-> NoSecret, last |-> -1,
     recovery |-> {s.version} \X (1 .. RecoveryCount), version |-> s.version]

\* The row Confirm saves: the pending secret is in force and the step of the
\* code is spent; the batch of recovery codes carries the version it replaces.
Confirmed(s, p) ==
    [mode |-> "totp", secret |-> s.pending, pending |-> NoSecret, last |-> p.n,
     recovery |-> {s.version} \X (1 .. RecoveryCount), version |-> s.version]

ConfirmSave(r) ==
    /\ req[r].at = "confirmSave"
    /\ Save(Confirmed(req[r].snap, req[r].proof), req[r].snap.version)
    /\ spent' = spent \cup {req[r].proof}
    /\ Done(r)
    /\ UNCHANGED <<password, verified, challenge, consumptions, clock, drawn, late>>

\* Disable: after the password, of which nothing is kept, the row is read and
\* the proof verified.  (Without a secret all that is left is RevokeAll.)
DisableProof(r) ==
    /\ "disable" \in Operations
    /\ req[r].at = "idle"
    /\ row.secret # NoSecret
    /\ \E p \in Acceptable(row) :
         Become(r, [Idle EXCEPT !.at = "disableConsume", !.version = row.version,
                                !.proof = p])
    /\ UNCHANGED <<row, password, verified, challenge, consumptions, clock, drawn,
                   late, spent>>

\* Disable: ConsumeCredential without a challenge.
DisableConsume(r) ==
    /\ req[r].at = "disableConsume"
    /\ ConsumeCredential(req[r].proof, req[r].version, {})
    /\ Become(r, [Idle EXCEPT !.at = "disableSave", !.version = req[r].version + 1])
    /\ UNCHANGED <<password, verified, challenge, clock, drawn, late>>

\* Disable: SaveSecurity with the version the consumption left behind; the
\* RevokeAll that follows is RefreshTokens' Revocation.
DisableSave(r) ==
    /\ req[r].at = "disableSave"
    /\ Save(InitialRow, req[r].version)
    /\ Done(r)
    /\ UNCHANGED <<password, verified, challenge, consumptions, clock, drawn, late,
                   spent>>

(***************************************************************************)
(* Other transactions on the user, and the environment                     *)
(***************************************************************************)
\* Store.UpdateUserPassword: version, pending secret and hash in one
\* transaction.
ResetPassword ==
    /\ "reset" \in Operations
    /\ password < MaxResets
    /\ row.version < MaxVersion
    /\ row' = [row EXCEPT !.version = @ + 1, !.pending = NoSecret]
    /\ password' = password + 1
    /\ UNCHANGED <<verified, challenge, consumptions, clock, drawn, late, req, spent>>

\* Store.UpdateUser with another address, refused in email mode.
ChangeEmail ==
    /\ "email" \in Operations
    /\ verified
    /\ row.mode # "email"
    /\ verified' = FALSE
    /\ UNCHANGED <<row, password, challenge, consumptions, clock, drawn, late, req,
                   spent>>

\* AuthenticationStore.VerifyEmail.
VerifyEmail ==
    /\ "email" \in Operations
    /\ ~verified
    /\ verified' = TRUE
    /\ UNCHANGED <<row, password, challenge, consumptions, clock, drawn, late, req,
                   spent>>

\* A request ends before its next step: a refusal, a conflict, an error.
Abandon(r) ==
    /\ req[r].at # "idle"
    /\ Done(r)
    /\ UNCHANGED <<row, password, verified, challenge, consumptions, clock, drawn,
                   late, spent>>

Tick ==
    /\ clock < MaxClock
    /\ clock' = clock + 1
    /\ UNCHANGED <<row, password, verified, challenge, consumptions, drawn, late, req,
                   spent>>

\* pending_expires_at or recovery_codes_expires_at passes.
Lapse ==
    /\ \/ /\ row.pending # NoSecret /\ row.pending \notin late.secrets
          /\ late' = [late EXCEPT !.secrets = @ \cup {row.pending}]
       \/ \E c \in row.recovery :
            /\ c[1] \notin late.batches
            /\ late' = [late EXCEPT !.batches = @ \cup {c[1]}]
    /\ UNCHANGED <<row, password, verified, challenge, consumptions, clock, drawn, req,
                   spent>>

\* A challenge's TTL ends.
ExpireChallenge(c) ==
    /\ challenge[c].state = "live"
    /\ challenge' = [challenge EXCEPT ![c] = Gone]
    /\ UNCHANGED <<row, password, verified, consumptions, clock, drawn, late, req,
                   spent>>

\* PruneAuthenticationConsumptions: the table is shared, so the transactions of
\* other users prune it at any time.  A consumption is kept for ten minutes and
\* outlives its challenge (300 s).
Prune(c) ==
    /\ c \in consumptions
    /\ challenge[c].state # "live"
    /\ consumptions' = consumptions \ {c}
    /\ UNCHANGED <<row, password, verified, challenge, clock, drawn, late, req, spent>>

Next ==
    \/ \E r \in Requests :
         \/ LoginCredentials(r) \/ LoginSecurity(r) \/ LoginRecheck(r)
         \/ \E c \in Challenges : LoginIssue(r, c) \/ VerifyAttempt(r, c)
         \/ VerifyProof(r) \/ VerifyConsume(r) \/ VerifyDelete(r)
         \/ \E mode \in {"default", "email", "totp"} : PutUser(r, mode)
         \/ PutRead(r) \/ PutSave(r)
         \/ EnrollUser(r) \/ EnrollRead(r) \/ EnrollSave(r)
         \/ ConfirmRead(r) \/ ConfirmSave(r)
         \/ DisableProof(r) \/ DisableConsume(r) \/ DisableSave(r)
         \/ Abandon(r)
    \/ ResetPassword \/ ChangeEmail \/ VerifyEmail \/ Tick \/ Lapse
    \/ \E c \in Challenges : ExpireChallenge(c) \/ Prune(c)

Spec == Init /\ [][Next]_vars

(***************************************************************************)
(* Properties                                                              *)
(***************************************************************************)
\* Login looks at the mode to decide whether to ask for a code, everything
\* else at the secret: the two agree, whatever whole-row writes are under way.
ModeMatchesSecret == row.mode = "totp" <=> row.secret # NoSecret

\* A secret in force is removed by Disable alone, right after the proof it
\* consumed ("Disable requires a fresh second-factor proof"): no write of a row
\* that was read before the enrollment takes it away.
FactorKept ==
    [][row.secret # NoSecret /\ row'.secret # row.secret =>
         \E r \in Requests :
            /\ req[r].at = "disableSave"
            /\ req[r].version = row.version
            /\ req'[r] = Idle]_vars

\* A mode that sends login codes to the mailbox needs a verified mailbox, also
\* when the address changes between PutSecurity's look at the user and its
\* write.
EmailModeVerified == row.mode = "email" => verified

\* A used recovery code is gone and the step of a used TOTP code is behind:
\* no write of an older snapshot (PutSecurity in totp mode) brings them back.
SpentStaysSpent ==
    \A p \in spent :
        /\ p.kind = "recovery" => <<p.of, p.n>> \notin row.recovery
        /\ p.kind = "totp" /\ p.of = row.secret => p.n <= row.last

\* The request's proof is accepted in this step.
Accepted(r) ==
    /\ req[r].at \in {"verifyConsume", "disableConsume", "confirmSave"}
    /\ row' # row
    /\ req'[r] # req[r]

\* A second factor is accepted once: of concurrent logins and disablings with
\* the same code one goes through, and the code that confirmed an enrollment
\* does not log in.
ProofAcceptedOnce == [][\A r \in Requests : Accepted(r) => req[r].proof \notin spent]_vars

\* A challenge that can still be answered was issued for the password in
\* force ("Never bind old credentials to the new version").
ChallengeBound ==
    \A c \in Challenges :
        challenge[c].state = "live" /\ challenge[c].version = row.version
            => challenge[c].password = password
=============================================================================
