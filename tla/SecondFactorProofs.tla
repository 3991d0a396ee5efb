------------------------- MODULE SecondFactorProofs -------------------------
(***************************************************************************)
(* Proofs about SecondFactor for any number of requests and challenges.    *)
(*                                                                         *)
(* The argument rests on the version column: every write of the row raises *)
(* it, so a request whose version still matches has read the row as it is  *)
(* (RequestOK), and what other requests know can only become outdated      *)
(* (OthersStayOK).                                                         *)
(***************************************************************************)
EXTENDS SecondFactor, TLAPS

\* What a request knows of the row, as long as the version is the one it read.
RequestOK(r) ==
    /\ req[r].at \in {"putSave", "enrollSave", "confirmSave"} =>
         /\ req[r].snap.version <= row.version
         /\ req[r].snap.version = row.version => req[r].snap = row
    /\ req[r].at = "putSave" =>
         (req[r].snap.secret # NoSecret <=> req[r].mode = "totp")
    /\ req[r].at = "enrollSave" => req[r].snap.secret = NoSecret
    /\ req[r].at = "confirmSave" =>
         /\ req[r].snap.pending # NoSecret
         /\ req[r].proof.kind = "totp"
         /\ req[r].proof.of = req[r].snap.pending
    /\ req[r].at \in {"recheck", "issue", "verify", "verifyConsume", "disableConsume",
                      "disableSave"} => req[r].version <= row.version
    /\ req[r].at = "issue" /\ req[r].version = row.version =>
         req[r].password = password
    /\ /\ req[r].at \in {"verifyConsume", "disableConsume"}
       /\ req[r].version = row.version
       /\ req[r].proof.kind = "totp"
       => req[r].proof.of = row.secret

\* Secrets are numbered as they are drawn, batches by the version before them,
\* and an enrollment is pending only while there is no secret.
RowOK ==
    /\ row.secret # NoSecret => row.pending = NoSecret
    /\ row.secret <= drawn
    /\ row.pending <= drawn
    /\ \A c \in row.recovery : c[1] < row.version

\* Nothing that was used belongs to a batch or an enrollment still to come.
SpentOK ==
    \A p \in spent :
        /\ p.kind = "recovery" => p.of < row.version
        /\ p.kind = "totp" =>
             p.of # NoSecret /\ p.of <= drawn /\ p.of # row.pending

\* Challenges carry versions the row has had.
ChallengesOK ==
    \A c \in Challenges :
        challenge[c].state = "live" => challenge[c].version <= row.version

FactorInv ==
    /\ TypeOK
    /\ \A r \in Requests : RequestOK(r)
    /\ RowOK
    /\ SpentOK
    /\ ChallengesOK
    /\ ModeMatchesSecret
    /\ EmailModeVerified
    /\ SpentStaysSpent
    /\ ChallengeBound

-----------------------------------------------------------------------------
\* The constant values are of their types.
LEMMA Constants ==
    /\ InitialRow \in Row
    /\ NoProof \in Proof
    /\ Idle \in Request
    /\ NoChallenge \in Challenge
    /\ Gone \in Challenge
<1>1. InitialRow \in Row
  BY DEF InitialRow, Row, NoSecret
<1>2. NoProof \in Proof
  BY DEF NoProof, Proof, NoSecret
<1>3. Idle \in Request
  BY <1>1, <1>2 DEF Idle, Request, Points
<1>4. NoChallenge \in Challenge /\ Gone \in Challenge
  BY DEF NoChallenge, Gone, Challenge
<1> QED
  BY <1>1, <1>2, <1>3, <1>4

\* Initially nothing is enrolled, used or under way.
LEMMA InitFactor == Init => FactorInv
<1> SUFFICES ASSUME Init PROVE FactorInv
    OBVIOUS
<1>1. TypeOK
  <2>1. late \in Late
    BY DEF Init, Late
  <2>3. verified \in BOOLEAN
    BY DEF Init
  <2> QED
    BY <2>1, <2>3, Constants DEF Init, TypeOK
<1>2. \A r \in Requests : RequestOK(r)
  BY DEF Init, RequestOK, Idle
<1>3. RowOK /\ SpentOK /\ ChallengesOK
  BY DEF Init, RowOK, SpentOK, ChallengesOK, InitialRow, NoSecret, NoChallenge
<1>4. ModeMatchesSecret /\ EmailModeVerified /\ SpentStaysSpent /\ ChallengeBound
  BY DEF Init, ModeMatchesSecret, EmailModeVerified, SpentStaysSpent, ChallengeBound,
     InitialRow, NoSecret, NoChallenge
<1> QED
  BY <1>1, <1>2, <1>3, <1>4 DEF FactorInv

-----------------------------------------------------------------------------
(***************************************************************************)
(* Types                                                                   *)
(***************************************************************************)
\* What a whole-row write leaves behind.
LEMMA SaveFields ==
    ASSUME row \in Row, NEW new \in Row, NEW version, Save(new, version)
    PROVE  /\ row' \in Row
           /\ row'.version = row.version + 1
           /\ row.version = version
           /\ row'.mode = new.mode
           /\ row'.secret = new.secret
           /\ row'.pending = new.pending
           /\ row'.last = new.last
           /\ row'.recovery = new.recovery
  BY DEF Save, Row

\* What the use of a proof leaves behind.
LEMMA ConsumeFields ==
    ASSUME row \in Row, NEW p \in Proof, NEW version, NEW credential \in SUBSET Challenges,
           consumptions \subseteq Challenges, spent \subseteq Proof,
           ConsumeCredential(p, version, credential)
    PROVE  /\ row' \in Row
           /\ row'.version = row.version + 1
           /\ row.version = version
           /\ row'.mode = row.mode
           /\ row'.secret = row.secret
           /\ row.secret # NoSecret
           /\ row'.pending = row.pending
           /\ p.kind = "totp" => /\ row'.last = p.n /\ row'.recovery = row.recovery
                                 /\ p.n > row.last
           /\ p.kind = "recovery" => /\ row'.last = row.last
                                     /\ row'.recovery = row.recovery \ {<<p.of, p.n>>}
                                     /\ <<p.of, p.n>> \in row.recovery
           /\ consumptions' \subseteq Challenges
           /\ spent' \subseteq Proof
           /\ spent' = spent \cup {p}
<1>1. row.last \in Int /\ row.recovery \in SUBSET RecoveryCode /\ row.version \in Nat
  BY DEF Row
<1>2. p.n \in Int
  BY DEF Proof
<1> DEFINE last == IF p.kind = "totp" THEN p.n ELSE row.last
           left == IF p.kind = "totp" THEN row.recovery ELSE row.recovery \ {<<p.of, p.n>>}
<1>3. last \in Int /\ left \in SUBSET RecoveryCode
  BY <1>1, <1>2
<1>4. row' = [row EXCEPT !.last = last, !.recovery = left, !.version = row.version + 1]
  BY DEF ConsumeCredential, Consumed
<1>a. p.kind = "totp" => last = p.n /\ left = row.recovery
  OBVIOUS
<1>b. p.kind = "recovery" => last = row.last /\ left = row.recovery \ {<<p.of, p.n>>}
  OBVIOUS
<1> HIDE DEF last, left
<1>5. row' = [mode |-> row.mode, secret |-> row.secret, pending |-> row.pending,
              last |-> last, recovery |-> left, version |-> row.version + 1]
  BY <1>4 DEF Row
<1>6. row' \in Row
  BY <1>1, <1>3, <1>5 DEF Row
<1>7. Consumable(p, version, credential)
  BY DEF ConsumeCredential
<1>8. /\ row.version = version
      /\ row.secret # NoSecret
      /\ p.kind = "recovery" => <<p.of, p.n>> \in row.recovery
      /\ p.kind = "totp" => p.n > row.last
  BY <1>7 DEF Consumable
<1>9. /\ row'.version = row.version + 1
      /\ row'.mode = row.mode
      /\ row'.secret = row.secret
      /\ row'.pending = row.pending
      /\ row'.last = last
      /\ row'.recovery = left
  BY <1>5
<1>10. consumptions' \subseteq Challenges /\ spent' \subseteq Proof /\ spent' = spent \cup {p}
  BY DEF ConsumeCredential
<1> QED
  BY <1>a, <1>b, <1>6, <1>8, <1>9, <1>10

\* What the reset of a password leaves behind.
LEMMA ResetFields ==
    ASSUME row \in Row, ResetPassword
    PROVE  /\ row' \in Row
           /\ row'.version = row.version + 1
           /\ row'.mode = row.mode
           /\ row'.secret = row.secret
           /\ row'.pending = NoSecret
           /\ row'.last = row.last
           /\ row'.recovery = row.recovery
<1>1. row' = [mode |-> row.mode, secret |-> row.secret, pending |-> NoSecret,
              last |-> row.last, recovery |-> row.recovery, version |-> row.version + 1]
  BY DEF ResetPassword, Row
<1> QED
  BY <1>1 DEF Row, NoSecret

\* The proofs a request verifies are proofs.
LEMMA AcceptableType ==
    ASSUME NEW s \in Row, clock \in Nat, NEW p \in Acceptable(s)
    PROVE  p \in Proof /\ (p.kind = "totp" => p.of = s.secret)
  BY DEF Acceptable, Steps, Row, Proof, RecoveryCode

\* The row Confirm saves is a row.
LEMMA ConfirmedType ==
    ASSUME NEW s \in Row, NEW p \in Proof
    PROVE  /\ Confirmed(s, p) \in Row
           /\ Confirmed(s, p).mode = "totp"
           /\ Confirmed(s, p).secret = s.pending
           /\ Confirmed(s, p).pending = NoSecret
           /\ Confirmed(s, p).last = p.n
           /\ \A c \in Confirmed(s, p).recovery : c[1] = s.version
<1>1. {s.version} \X (1 .. RecoveryCount) \subseteq RecoveryCode
  BY SecondFactorAssumption DEF Row, RecoveryCode
<1>2. \A c \in {s.version} \X (1 .. RecoveryCount) : c[1] = s.version
  OBVIOUS
<1>3. Confirmed(s, p) \in Row
  BY <1>1 DEF Confirmed, Row, Proof, NoSecret
<1> QED
  BY <1>2, <1>3 DEF Confirmed

\* The records requests become.
LEMMA RequestUpdates ==
    ASSUME NEW q \in Request, NEW at \in Points, NEW v \in Nat, NEW p \in Proof,
           NEW s \in Row, NEW cs \in SUBSET Challenges
    PROVE  /\ [q EXCEPT !.at = at] \in Request
           /\ [q EXCEPT !.at = at, !.password = v] \in Request
           /\ [q EXCEPT !.at = at, !.version = v] \in Request
           /\ [q EXCEPT !.at = at, !.challenge = cs] \in Request
           /\ [q EXCEPT !.at = at, !.proof = p] \in Request
           /\ [q EXCEPT !.at = at, !.snap = s] \in Request
           /\ [q EXCEPT !.at = at, !.challenge = cs, !.version = v] \in Request
           /\ [q EXCEPT !.at = at, !.snap = s, !.proof = p] \in Request
           /\ [q EXCEPT !.at = at, !.version = v, !.proof = p] \in Request
<1>1. [q EXCEPT !.at = at] \in Request
  BY DEF Request
<1>2. [q EXCEPT !.at = at, !.password = v] \in Request
  BY DEF Request
<1>3. [q EXCEPT !.at = at, !.version = v] \in Request
  BY DEF Request
<1>4. [q EXCEPT !.at = at, !.challenge = cs] \in Request
  BY DEF Request
<1>5. [q EXCEPT !.at = at, !.proof = p] \in Request
  BY DEF Request
<1>6. [q EXCEPT !.at = at, !.snap = s] \in Request
  BY DEF Request
<1>7. [q EXCEPT !.at = at, !.challenge = cs, !.version = v] \in Request
  BY DEF Request
<1>8. [q EXCEPT !.at = at, !.snap = s, !.proof = p] \in Request
  BY DEF Request
<1>9. [q EXCEPT !.at = at, !.version = v, !.proof = p] \in Request
  BY DEF Request
<1> QED
  BY <1>1, <1>2, <1>3, <1>4, <1>5, <1>6, <1>7, <1>8, <1>9

LEMMA PutUpdate ==
    ASSUME NEW q \in Request, NEW b \in BOOLEAN, NEW mode \in {"default", "email", "totp"}
    PROVE  [q EXCEPT !.at = "put", !.mode = mode, !.verified = b] \in Request
  BY DEF Request, Points

\* A request becomes q and no other request changes.
LEMMA Became ==
    ASSUME req \in [Requests -> Request], NEW r \in Requests, NEW q \in Request,
           Become(r, q)
    PROVE  /\ req' \in [Requests -> Request]
           /\ req'[r] = q
           /\ \A t \in Requests \ {r} : req'[t] = req[t]
  BY DEF Become

-----------------------------------------------------------------------------
(***************************************************************************)
(* Steps                                                                   *)
(***************************************************************************)
\* What a request knows stays true while the row and the password stay, and
\* becomes void when the version is raised.
LEMMA OthersStayOK ==
    ASSUME row \in Row, row' \in Row, NEW t \in Requests, req[t] \in Request,
           RequestOK(t), req'[t] = req[t],
           \/ row' = row /\ password' = password
           \/ row'.version > row.version
    PROVE  RequestOK(t)'
<1>1. row.version \in Nat /\ row'.version \in Nat
  BY DEF Row
<1>2. req[t].version \in Nat /\ req[t].snap \in Row
  BY DEF Request
<1>3. req[t].snap.version \in Nat
  BY <1>2 DEF Row
<1>4. CASE row' = row /\ password' = password
  BY <1>4 DEF RequestOK
<1>5. CASE row'.version > row.version
  BY <1>1, <1>2, <1>3, <1>5 DEF RequestOK
<1> QED
  BY <1>4, <1>5

\* A step of one request that only reads.
LEMMA QuietStep ==
    ASSUME FactorInv, NEW r \in Requests, NEW q \in Request, Become(r, q),
           UNCHANGED <<row, password, verified, challenge, consumptions, clock, drawn,
                       late, spent>>,
           RequestOK(r)'
    PROVE  FactorInv'
<1>1. /\ req' \in [Requests -> Request]
      /\ \A t \in Requests \ {r} : req'[t] = req[t]
  BY Became DEF FactorInv, TypeOK
<1>2. TypeOK'
  BY <1>1 DEF FactorInv, TypeOK
<1>3. \A t \in Requests : RequestOK(t)'
  <2> TAKE t \in Requests
  <2>1. CASE t = r
    BY <2>1
  <2>2. CASE t # r
    BY <1>1, <2>2, OthersStayOK DEF FactorInv, TypeOK
  <2> QED
    BY <2>1, <2>2
<1>4. RowOK' /\ SpentOK' /\ ChallengesOK'
  BY DEF FactorInv, RowOK, SpentOK, ChallengesOK
<1>5. ModeMatchesSecret' /\ SpentStaysSpent' /\ ChallengeBound'
  BY DEF FactorInv, ModeMatchesSecret, SpentStaysSpent, ChallengeBound
<1>6. EmailModeVerified'
  BY DEF FactorInv, EmailModeVerified
<1> QED
  BY <1>2, <1>3, <1>4, <1>5, <1>6 DEF FactorInv

\* The requests that only read: credentials, checks and proofs verified against
\* the row of the moment.
LEMMA ReadSteps ==
    ASSUME FactorInv, NEW r \in Requests,
           \/ LoginCredentials(r) \/ LoginSecurity(r) \/ LoginRecheck(r)
           \/ VerifyProof(r) \/ PutRead(r) \/ EnrollUser(r) \/ EnrollRead(r)
           \/ ConfirmRead(r) \/ DisableProof(r) \/ Abandon(r)
           \/ \E mode \in {"default", "email", "totp"} : PutUser(r, mode)
    PROVE  FactorInv'
<1>0. /\ row \in Row /\ req[r] \in Request /\ password \in Nat /\ verified \in BOOLEAN
      /\ clock \in Nat /\ row.version \in Nat /\ RequestOK(r)
      /\ req \in [Requests -> Request]
  BY DEF FactorInv, TypeOK, Row
<1> USE Constants
<1>q. ASSUME NEW q \in Request, Become(r, q),
             UNCHANGED <<row, password, verified, challenge, consumptions, clock, drawn,
                         late, spent>>,
             q.at \in {"idle", "login", "put", "enroll"}
      PROVE  FactorInv'
  <2>1. req'[r] = q
    BY <1>0, <1>q, Became
  <2>2. RequestOK(r)'
    BY <1>q, <2>1 DEF RequestOK
  <2> QED
    BY <1>q, <2>2, QuietStep
<1>d. ASSUME Done(r),
             UNCHANGED <<row, password, verified, challenge, consumptions, clock, drawn,
                         late, spent>>
      PROVE  FactorInv'
  <2>1. Idle.at = "idle"
    BY DEF Idle
  <2> QED
    BY <1>d, <1>q, <2>1 DEF Done
<1>1. CASE LoginCredentials(r)
  <2> DEFINE q == [Idle EXCEPT !.at = "login", !.password = password]
  <2>1. q \in Request
    BY <1>0, RequestUpdates DEF Points
  <2>2. q.at = "login"
    BY DEF Idle
  <2> QED
    BY <1>1, <1>q, <2>1, <2>2 DEF LoginCredentials
<1>2. CASE LoginSecurity(r)
  <2> DEFINE q == [req[r] EXCEPT !.at = "recheck", !.version = row.version]
  <2>1. CASE Become(r, q)
    <3>1. q \in Request
      BY <1>0, RequestUpdates DEF Points
    <3>2. q.at = "recheck" /\ q.version = row.version
      BY <1>0 DEF Request
    <3>3. req'[r] = q
      BY <1>0, <2>1, <3>1, Became
    <3> HIDE DEF q
    <3>4. RequestOK(r)'
      BY <1>0, <1>2, <3>2, <3>3 DEF RequestOK, LoginSecurity
    <3> QED
      BY <1>2, <2>1, <3>1, <3>4, QuietStep DEF LoginSecurity
  <2>2. CASE Done(r)
    BY <1>2, <1>d, <2>2 DEF LoginSecurity
  <2> QED
    BY <1>2, <2>1, <2>2 DEF LoginSecurity
<1>3. CASE LoginRecheck(r)
  <2> DEFINE q == [req[r] EXCEPT !.at = "issue"]
  <2>1. CASE req[r].password = password /\ Become(r, q)
    <3>1. q \in Request
      BY <1>0, RequestUpdates DEF Points
    <3>2. q.at = "issue" /\ q.version = req[r].version /\ q.password = req[r].password
      BY <1>0 DEF Request
    <3>3. req'[r] = q
      BY <1>0, <2>1, <3>1, Became
    <3> HIDE DEF q
    <3>4. RequestOK(r)'
      BY <1>0, <1>3, <2>1, <3>2, <3>3 DEF RequestOK, LoginRecheck
    <3> QED
      BY <1>3, <2>1, <3>1, <3>4, QuietStep DEF LoginRecheck
  <2>2. CASE Done(r)
    BY <1>3, <1>d, <2>2 DEF LoginRecheck
  <2> QED
    BY <1>3, <2>1, <2>2 DEF LoginRecheck
<1>4. CASE VerifyProof(r)
  <2>1. PICK p \in Acceptable(row) : Become(r, [req[r] EXCEPT !.at = "verifyConsume", !.proof = p])
    BY <1>4 DEF VerifyProof
  <2>2. p \in Proof /\ (p.kind = "totp" => p.of = row.secret)
    BY <1>0, AcceptableType
  <2> DEFINE q == [req[r] EXCEPT !.at = "verifyConsume", !.proof = p]
  <2>3. q \in Request
    BY <1>0, <2>2, RequestUpdates DEF Points
  <2>4. q.at = "verifyConsume" /\ q.version = req[r].version /\ q.proof = p
    BY <1>0 DEF Request
  <2>5. req'[r] = q
    BY <1>0, <2>1, <2>3, Became
  <2> HIDE DEF q
  <2>6. RequestOK(r)'
    BY <1>0, <1>4, <2>2, <2>4, <2>5 DEF RequestOK, VerifyProof
  <2>7. Become(r, q)
    BY <2>1 DEF q
  <2> QED
    BY <1>4, <2>3, <2>6, <2>7, QuietStep DEF VerifyProof
<1>5. CASE PutRead(r)
  <2> DEFINE q == [req[r] EXCEPT !.at = "putSave", !.snap = row]
  <2>1. q \in Request
    BY <1>0, RequestUpdates DEF Points
  <2>2. q.at = "putSave" /\ q.snap = row /\ q.mode = req[r].mode
    BY <1>0 DEF Request
  <2>3. Become(r, q)
    BY <1>5 DEF PutRead
  <2>4. req'[r] = q
    BY <1>0, <2>1, <2>3, Became
  <2> HIDE DEF q
  <2>5. RequestOK(r)'
    BY <1>0, <1>5, <2>2, <2>4 DEF RequestOK, PutRead
  <2> QED
    BY <1>5, <2>1, <2>3, <2>5, QuietStep DEF PutRead
<1>6. CASE EnrollUser(r)
  <2> DEFINE q == [Idle EXCEPT !.at = "enroll"]
  <2>1. q \in Request
    BY <1>0, RequestUpdates DEF Points
  <2>2. q.at = "enroll"
    BY DEF Idle
  <2> QED
    BY <1>6, <1>q, <2>1, <2>2 DEF EnrollUser
<1>7. CASE EnrollRead(r)
  <2> DEFINE q == [req[r] EXCEPT !.at = "enrollSave", !.snap = row]
  <2>1. q \in Request
    BY <1>0, RequestUpdates DEF Points
  <2>2. q.at = "enrollSave" /\ q.snap = row
    BY <1>0 DEF Request
  <2>3. Become(r, q)
    BY <1>7 DEF EnrollRead
  <2>4. req'[r] = q
    BY <1>0, <2>1, <2>3, Became
  <2> HIDE DEF q
  <2>5. RequestOK(r)'
    BY <1>0, <1>7, <2>2, <2>4 DEF RequestOK, EnrollRead
  <2> QED
    BY <1>7, <2>1, <2>3, <2>5, QuietStep DEF EnrollRead
<1>8. CASE ConfirmRead(r)
  <2>1. PICK n \in Steps(-1) :
          Become(r, [Idle EXCEPT !.at = "confirmSave", !.snap = row,
                                 !.proof = [kind |-> "totp", of |-> row.pending, n |-> n]])
    BY <1>8 DEF ConfirmRead
  <2> DEFINE p == [kind |-> "totp", of |-> row.pending, n |-> n]
             q == [Idle EXCEPT !.at = "confirmSave", !.snap = row, !.proof = p]
  <2>2. p \in Proof
    BY <1>0, <2>1 DEF Proof, Row, Steps
  <2>3. q \in Request
    BY <1>0, <2>2, RequestUpdates DEF Points
  <2>4. q.at = "confirmSave" /\ q.snap = row /\ q.proof = p
    BY DEF Idle
  <2>5. Become(r, q)
    BY <2>1
  <2>6. req'[r] = q
    BY <1>0, <2>3, <2>5, Became
  <2>7. p.kind = "totp" /\ p.of = row.pending
    OBVIOUS
  <2> HIDE DEF p, q
  <2>a. row' = row /\ row.pending # NoSecret
    BY <1>8 DEF ConfirmRead
  <2>8. RequestOK(r)'
    BY <1>0, <2>a, <2>4, <2>6, <2>7 DEF RequestOK
  <2> QED
    BY <1>8, <2>3, <2>5, <2>8, QuietStep DEF ConfirmRead
<1>9. CASE DisableProof(r)
  <2>1. PICK p \in Acceptable(row) :
          Become(r, [Idle EXCEPT !.at = "disableConsume", !.version = row.version, !.proof = p])
    BY <1>9 DEF DisableProof
  <2>2. p \in Proof /\ (p.kind = "totp" => p.of = row.secret)
    BY <1>0, AcceptableType
  <2> DEFINE q == [Idle EXCEPT !.at = "disableConsume", !.version = row.version, !.proof = p]
  <2>3. q \in Request
    BY <1>0, <2>2, RequestUpdates DEF Points
  <2>4. q.at = "disableConsume" /\ q.version = row.version /\ q.proof = p
    BY DEF Idle
  <2>5. Become(r, q)
    BY <2>1
  <2>6. req'[r] = q
    BY <1>0, <2>3, <2>5, Became
  <2> HIDE DEF q
  <2>a. row' = row
    BY <1>9 DEF DisableProof
  <2>7. RequestOK(r)'
    BY <1>0, <2>a, <2>2, <2>4, <2>6 DEF RequestOK
  <2> QED
    BY <1>9, <2>3, <2>5, <2>7, QuietStep DEF DisableProof
<1>10. CASE Abandon(r)
  BY <1>10, <1>d DEF Abandon
<1>11. ASSUME NEW mode \in {"default", "email", "totp"}, PutUser(r, mode) PROVE FactorInv'
  <2> DEFINE q == [Idle EXCEPT !.at = "put", !.mode = mode,
                               !.verified = mode = "email" /\ verified]
  <2>0. (mode = "email" /\ verified) \in BOOLEAN
    OBVIOUS
  <2>1. q \in Request
    BY <1>0, <2>0, PutUpdate, Zenon
  <2>2. q.at = "put"
    BY DEF Idle
  <2> QED
    BY <1>11, <1>q, <2>1, <2>2 DEF PutUser
<1> QED
  BY <1>1, <1>2, <1>3, <1>4, <1>5, <1>6, <1>7, <1>8, <1>9, <1>10, <1>11

\* A step on the challenges: a challenge is issued for the password and the
\* version in force, counts an attempt, or goes.
LEMMA ChallengeStep ==
    ASSUME FactorInv,
           UNCHANGED <<row, password, verified, clock, drawn, late, spent>>,
           req' \in [Requests -> Request],
           \A t \in Requests : RequestOK(t)',
           challenge' \in [Challenges -> Challenge],
           consumptions' \subseteq Challenges,
           \A c \in Challenges : challenge'[c].state = "live" =>
               /\ challenge'[c].version <= row.version
               /\ challenge'[c].version = row.version => challenge'[c].password = password
    PROVE  FactorInv'
<1>1. TypeOK'
  BY DEF FactorInv, TypeOK
<1>2. RowOK' /\ SpentOK' /\ ChallengesOK'
  BY DEF FactorInv, RowOK, SpentOK, ChallengesOK
<1>3. ModeMatchesSecret' /\ SpentStaysSpent' /\ ChallengeBound'
  BY DEF FactorInv, ModeMatchesSecret, SpentStaysSpent, ChallengeBound
<1>4. EmailModeVerified'
  BY DEF FactorInv, EmailModeVerified
<1> QED
  BY <1>1, <1>2, <1>3, <1>4 DEF FactorInv

LEMMA ChallengeSteps ==
    ASSUME FactorInv,
           \/ \E r \in Requests :
                \/ \E c \in Challenges : LoginIssue(r, c) \/ VerifyAttempt(r, c)
                \/ VerifyDelete(r)
           \/ \E c \in Challenges : ExpireChallenge(c) \/ Prune(c)
    PROVE  FactorInv'
<1>0. /\ row \in Row /\ row' = row /\ password \in Nat /\ password' = password
      /\ req \in [Requests -> Request] /\ challenge \in [Challenges -> Challenge]
      /\ \A t \in Requests : RequestOK(t)
      /\ UNCHANGED <<row, password, verified, clock, drawn, late, spent>>
      /\ consumptions \subseteq Challenges
  BY DEF FactorInv, TypeOK, LoginIssue, VerifyAttempt, VerifyDelete, ExpireChallenge, Prune
<1>c. \A c \in Challenges : challenge[c].state = "live" =>
        /\ challenge[c].version <= row.version
        /\ challenge[c].version = row.version => challenge[c].password = password
  BY DEF FactorInv, ChallengesOK, ChallengeBound
<1>g. Gone.state = "gone"
  BY DEF Gone, NoChallenge
<1> USE Constants
<1>r. ASSUME NEW r \in Requests, NEW q \in Request, Become(r, q),
             q.at \in {"idle", "verify"}, q.at = "verify" => q.version <= row.version
      PROVE  req' \in [Requests -> Request] /\ \A t \in Requests : RequestOK(t)'
  <2>1. /\ req' \in [Requests -> Request] /\ req'[r] = q
        /\ \A t \in Requests \ {r} : req'[t] = req[t]
    BY <1>0, <1>r, Became
  <2>2. RequestOK(r)'
    BY <1>0, <1>r, <2>1 DEF RequestOK
  <2>3. \A t \in Requests \ {r} : RequestOK(t)'
    BY <1>0, <2>1, OthersStayOK
  <2> QED
    BY <2>1, <2>2, <2>3
<1>d. ASSUME NEW r \in Requests, Done(r)
      PROVE  req' \in [Requests -> Request] /\ \A t \in Requests : RequestOK(t)'
  <2>1. Idle.at = "idle"
    BY DEF Idle
  <2> QED
    BY <1>d, <1>r, <2>1 DEF Done
<1>u. ASSUME UNCHANGED req
      PROVE  req' \in [Requests -> Request] /\ \A t \in Requests : RequestOK(t)'
  BY <1>0, <1>u, OthersStayOK
<1>1. ASSUME NEW r \in Requests, NEW c \in Challenges, LoginIssue(r, c) PROVE FactorInv'
  <2> DEFINE new == [state |-> "live", version |-> req[r].version, attempts |-> 0,
                     password |-> req[r].password]
  <2>1. new \in Challenge
    BY <1>0 DEF Challenge, Request
  <2>2. /\ req[r].version <= row.version
        /\ req[r].version = row.version => req[r].password = password
    BY <1>0, <1>1 DEF RequestOK, LoginIssue
  <2>3. challenge' = [challenge EXCEPT ![c] = new]
    BY <1>1 DEF LoginIssue
  <2>4. new.version = req[r].version /\ new.password = req[r].password
    OBVIOUS
  <2> HIDE DEF new
  <2>5. \A d \in Challenges : challenge'[d].state = "live" =>
          /\ challenge'[d].version <= row.version
          /\ challenge'[d].version = row.version => challenge'[d].password = password
    BY <1>0, <1>c, <2>2, <2>3, <2>4
  <2>6. challenge' \in [Challenges -> Challenge]
    BY <1>0, <2>1, <2>3
  <2>7. Done(r) /\ UNCHANGED consumptions
    BY <1>1 DEF LoginIssue
  <2> QED
    BY <1>0, <1>d, <2>5, <2>6, <2>7, ChallengeStep
<1>2. ASSUME NEW r \in Requests, NEW c \in Challenges, VerifyAttempt(r, c) PROVE FactorInv'
  <2>1. challenge[c] \in Challenge /\ challenge[c].state = "live"
    BY <1>0, <1>2 DEF VerifyAttempt
  <2> DEFINE new == [challenge[c] EXCEPT !.attempts = challenge[c].attempts + 1]
             q == [Idle EXCEPT !.at = "verify", !.challenge = {c},
                               !.version = challenge[c].version]
  <2>2. /\ new \in Challenge /\ new.version = challenge[c].version
        /\ new.password = challenge[c].password
    BY <2>1 DEF Challenge
  <2>3. challenge' = [challenge EXCEPT ![c] = new]
    BY <1>0, <1>2 DEF VerifyAttempt
  <2>4. q \in Request
    <3>1. challenge[c].version \in Nat /\ {c} \in SUBSET Challenges /\ "verify" \in Points
      BY <2>1 DEF Challenge, Points
    <3> QED
      BY <3>1, RequestUpdates
  <2>5. q.at = "verify" /\ q.version = challenge[c].version
    BY DEF Idle
  <2>6. Become(r, q) \/ UNCHANGED req
    BY <1>2 DEF VerifyAttempt
  <2> HIDE DEF new, q
  <2>7. \A d \in Challenges : challenge'[d].state = "live" =>
          /\ challenge'[d].version <= row.version
          /\ challenge'[d].version = row.version => challenge'[d].password = password
    BY <1>0, <1>c, <2>1, <2>2, <2>3
  <2>8. challenge' \in [Challenges -> Challenge]
    BY <1>0, <2>2, <2>3
  <2>9. UNCHANGED consumptions
    BY <1>2 DEF VerifyAttempt
  <2>10. req' \in [Requests -> Request] /\ \A t \in Requests : RequestOK(t)'
    BY <1>c, <1>r, <1>u, <2>1, <2>4, <2>5, <2>6
  <2> QED
    BY <1>0, <2>7, <2>8, <2>9, <2>10, ChallengeStep
<1>3. ASSUME NEW r \in Requests, VerifyDelete(r) PROVE FactorInv'
  <2>1. \A d \in Challenges : challenge'[d] = Gone \/ challenge'[d] = challenge[d]
    BY <1>3 DEF VerifyDelete
  <2>2. challenge' \in [Challenges -> Challenge]
    BY <1>0, <1>3, <2>1 DEF VerifyDelete
  <2>3. \A d \in Challenges : challenge'[d].state = "live" =>
          /\ challenge'[d].version <= row.version
          /\ challenge'[d].version = row.version => challenge'[d].password = password
    BY <1>c, <1>g, <2>1
  <2>4. Done(r) /\ UNCHANGED consumptions
    BY <1>3 DEF VerifyDelete
  <2> QED
    BY <1>0, <1>d, <2>2, <2>3, <2>4, ChallengeStep
<1>4. ASSUME NEW c \in Challenges, ExpireChallenge(c) PROVE FactorInv'
  <2>1. challenge' = [challenge EXCEPT ![c] = Gone] /\ UNCHANGED <<req, consumptions>>
    BY <1>4 DEF ExpireChallenge
  <2>2. challenge' \in [Challenges -> Challenge]
    BY <1>0, <2>1
  <2>3. \A d \in Challenges : challenge'[d].state = "live" =>
          /\ challenge'[d].version <= row.version
          /\ challenge'[d].version = row.version => challenge'[d].password = password
    BY <1>0, <1>c, <1>g, <2>1
  <2> QED
    BY <1>0, <1>u, <2>1, <2>2, <2>3, ChallengeStep
<1>5. ASSUME NEW c \in Challenges, Prune(c) PROVE FactorInv'
  <2>1. challenge' = challenge /\ UNCHANGED req /\ consumptions' \subseteq Challenges
    BY <1>0, <1>5 DEF Prune
  <2> QED
    BY <1>0, <1>c, <1>u, <2>1, ChallengeStep
<1> QED
  BY <1>1, <1>2, <1>3, <1>4, <1>5

\* The clock, deadlines and the mailbox.
LEMMA OtherSteps ==
    ASSUME FactorInv, ChangeEmail \/ VerifyEmail \/ Tick \/ Lapse
    PROVE  FactorInv'
<1>0. /\ row \in Row /\ req \in [Requests -> Request]
      /\ UNCHANGED <<row, password, challenge, consumptions, drawn, req, spent>>
  BY DEF FactorInv, TypeOK, ChangeEmail, VerifyEmail, Tick, Lapse
<1>1. TypeOK'
  <2>1. clock' \in Nat
    BY DEF FactorInv, TypeOK, ChangeEmail, VerifyEmail, Tick, Lapse
  <2>2. verified' \in BOOLEAN
    BY DEF FactorInv, TypeOK, ChangeEmail, VerifyEmail, Tick, Lapse
  <2>3. late' \in Late
    <3>1. CASE Lapse
      <4>1. row.pending \in Nat /\ \A c \in row.recovery : c[1] \in Nat
        BY <1>0 DEF Row, RecoveryCode
      <4>2. late \in Late
        BY DEF FactorInv, TypeOK
      <4>3. CASE late' = [late EXCEPT !.secrets = @ \cup {row.pending}]
        BY <4>1, <4>2, <4>3 DEF Late
      <4>4. CASE \E c \in row.recovery : late' = [late EXCEPT !.batches = @ \cup {c[1]}]
        BY <4>1, <4>2, <4>4 DEF Late
      <4> QED
        BY <3>1, <4>3, <4>4 DEF Lapse
    <3>2. CASE ~Lapse
      BY <3>2 DEF FactorInv, TypeOK, ChangeEmail, VerifyEmail, Tick
    <3> QED
      BY <3>1, <3>2
  <2> QED
    BY <1>0, <2>1, <2>2, <2>3 DEF FactorInv, TypeOK
<1>2. \A t \in Requests : RequestOK(t)'
  BY <1>0, OthersStayOK DEF FactorInv
<1>3. RowOK' /\ SpentOK' /\ ChallengesOK'
  BY <1>0 DEF FactorInv, RowOK, SpentOK, ChallengesOK
<1>4. ModeMatchesSecret' /\ SpentStaysSpent' /\ ChallengeBound'
  BY <1>0 DEF FactorInv, ModeMatchesSecret, SpentStaysSpent, ChallengeBound
<1>5. EmailModeVerified'
  BY <1>0 DEF FactorInv, EmailModeVerified, ChangeEmail, VerifyEmail, Tick, Lapse
<1> QED
  BY <1>1, <1>2, <1>3, <1>4, <1>5 DEF FactorInv

\* When the version is raised, nothing that was known of it before matches.
LEMMA Raised ==
    ASSUME FactorInv, row' \in Row, row'.version = row.version + 1,
           UNCHANGED challenge,
           \/ UNCHANGED req
           \/ \E r \in Requests, q \in Request :
                /\ Become(r, q)
                /\ q.at \in {"idle", "delete", "disableSave"}
                /\ q.at = "disableSave" => q.version <= row'.version
    PROVE  /\ req' \in [Requests -> Request]
           /\ \A t \in Requests : RequestOK(t)'
           /\ ChallengesOK'
           /\ ChallengeBound'
<1>0. /\ row \in Row /\ row.version \in Nat /\ row'.version > row.version
      /\ req \in [Requests -> Request] /\ challenge \in [Challenges -> Challenge]
      /\ \A t \in Requests : RequestOK(t)
  BY DEF FactorInv, TypeOK, Row
<1>1. ChallengesOK' /\ ChallengeBound'
  <2>1. \A c \in Challenges : challenge[c].version \in Nat
    BY <1>0 DEF Challenge
  <2>2. \A c \in Challenges : challenge[c].state = "live" => challenge[c].version <= row.version
    BY DEF FactorInv, ChallengesOK
  <2> QED
    BY <1>0, <2>1, <2>2 DEF ChallengesOK, ChallengeBound
<1>2. CASE UNCHANGED req
  BY <1>0, <1>1, <1>2, OthersStayOK
<1>3. ASSUME NEW r \in Requests, NEW q \in Request, Become(r, q),
             q.at \in {"idle", "delete", "disableSave"},
             q.at = "disableSave" => q.version <= row'.version
      PROVE  /\ req' \in [Requests -> Request]
             /\ \A t \in Requests : RequestOK(t)'
  <2>1. /\ req' \in [Requests -> Request] /\ req'[r] = q
        /\ \A t \in Requests \ {r} : req'[t] = req[t]
    BY <1>0, <1>3, Became
  <2>2. RequestOK(r)'
    BY <1>3, <2>1 DEF RequestOK
  <2>3. \A t \in Requests \ {r} : RequestOK(t)'
    BY <1>0, <2>1, OthersStayOK
  <2> QED
    BY <2>1, <2>2, <2>3
<1> QED
  BY <1>1, <1>2, <1>3

\* The two uses of a proof.
LEMMA ConsumeSteps ==
    ASSUME FactorInv, NEW r \in Requests, VerifyConsume(r) \/ DisableConsume(r)
    PROVE  FactorInv' /\ req[r].proof \notin spent
<1> DEFINE p == req[r].proof
           cs == IF VerifyConsume(r) THEN req[r].challenge ELSE {}
<1>0. /\ row \in Row /\ row.version \in Nat /\ req[r] \in Request
      /\ req \in [Requests -> Request]
      /\ p \in Proof /\ cs \in SUBSET Challenges /\ RequestOK(r)
      /\ consumptions \subseteq Challenges /\ spent \subseteq Proof /\ drawn \in Nat
      /\ req[r].version \in Nat
  BY DEF FactorInv, TypeOK, Row, Request
<1>1. ConsumeCredential(p, req[r].version, cs)
  BY DEF VerifyConsume, DisableConsume
<1> HIDE DEF cs
<1>2. /\ row' \in Row
      /\ row'.version = row.version + 1
      /\ row.version = req[r].version
      /\ row'.mode = row.mode
      /\ row'.secret = row.secret
      /\ row.secret # NoSecret
      /\ row'.pending = row.pending
      /\ p.kind = "totp" => /\ row'.last = p.n /\ row'.recovery = row.recovery
                            /\ p.n > row.last
      /\ p.kind = "recovery" => /\ row'.last = row.last
                                /\ row'.recovery = row.recovery \ {<<p.of, p.n>>}
                                /\ <<p.of, p.n>> \in row.recovery
      /\ consumptions' \subseteq Challenges
      /\ spent' \subseteq Proof
      /\ spent' = spent \cup {p}
  BY <1>0, <1>1, ConsumeFields
<1>3. /\ p.kind \in {"totp", "recovery"} /\ p.n \in Nat /\ p.of \in Nat
      /\ p.kind = "totp" => p.of = row.secret
  <2>1. p.kind \in {"totp", "recovery"} /\ p.n \in Nat /\ p.of \in Nat
    BY <1>0 DEF Proof
  <2>2. req[r].at \in {"verifyConsume", "disableConsume"}
    BY DEF VerifyConsume, DisableConsume
  <2> QED
    BY <1>0, <1>2, <2>1, <2>2 DEF RequestOK
<1>4. UNCHANGED <<password, verified, challenge, clock, drawn, late>>
  BY DEF VerifyConsume, DisableConsume
<1>5. \E q \in Request :
        /\ Become(r, q)
        /\ q.at \in {"idle", "delete", "disableSave"}
        /\ q.at = "disableSave" => q.version <= row'.version
  <2>1. CASE VerifyConsume(r)
    <3> DEFINE q == [Idle EXCEPT !.at = "delete", !.challenge = req[r].challenge]
    <3>1. req[r].challenge \in SUBSET Challenges /\ "delete" \in Points
      BY <1>0 DEF Request, Points
    <3>2. q \in Request
      BY <3>1, RequestUpdates, Constants
    <3>3. q.at = "delete"
      BY DEF Idle
    <3>4. Become(r, q)
      BY <2>1 DEF VerifyConsume
    <3> QED
      BY <3>2, <3>3, <3>4
  <2>2. CASE DisableConsume(r)
    <3> DEFINE q == [Idle EXCEPT !.at = "disableSave", !.version = req[r].version + 1]
    <3>1. req[r].version + 1 \in Nat /\ "disableSave" \in Points
      BY <1>0 DEF Points
    <3>2. q \in Request
      BY <3>1, RequestUpdates, Constants
    <3>3. q.at = "disableSave" /\ q.version = req[r].version + 1
      BY DEF Idle
    <3>4. Become(r, q)
      BY <2>2 DEF DisableConsume
    <3>5. q.version <= row'.version
      BY <1>0, <1>2, <3>3
    <3> QED
      BY <3>2, <3>3, <3>4, <3>5
  <2> QED
    BY <2>1, <2>2
<1>6. /\ req' \in [Requests -> Request]
      /\ \A t \in Requests : RequestOK(t)'
      /\ ChallengesOK'
      /\ ChallengeBound'
  BY <1>2, <1>4, <1>5, Raised
<1>7. TypeOK'
  BY <1>2, <1>4, <1>6 DEF FactorInv, TypeOK
<1>8. ModeMatchesSecret'
  BY <1>2 DEF FactorInv, ModeMatchesSecret
<1>9. EmailModeVerified'
  BY <1>2, <1>4 DEF FactorInv, EmailModeVerified
<1>10. row.last \in Int /\ \A d \in row.recovery : d[1] \in Nat /\ d[1] < row.version
  BY <1>0 DEF FactorInv, RowOK, Row, RecoveryCode
<1>11. RowOK'
  BY <1>0, <1>2, <1>3, <1>4, <1>10 DEF FactorInv, RowOK
<1>12. SpentOK'
  <2> SUFFICES ASSUME NEW x \in spent'
               PROVE  /\ x.kind = "recovery" => x.of < row'.version
                      /\ x.kind = "totp" =>
                           x.of # NoSecret /\ x.of <= drawn' /\ x.of # row'.pending
    BY DEF SpentOK
  <2>1. CASE x \in spent
    <3>1. x.of \in Nat
      BY <1>0, <2>1 DEF Proof
    <3> QED
      BY <1>0, <1>2, <1>4, <2>1, <3>1 DEF FactorInv, SpentOK
  <2>2. CASE x = p
    <3>1. x.kind = "recovery" => x.of < row.version
      <4>1. x.kind = "recovery" => <<x.of, x.n>> \in row.recovery
        BY <1>2, <2>2
      <4> QED
        BY <1>10, <4>1
    <3>2. x.kind = "totp" => x.of # NoSecret /\ x.of <= drawn /\ x.of # row.pending
      BY <1>2, <1>3, <2>2 DEF FactorInv, RowOK, NoSecret
    <3> QED
      BY <1>0, <1>2, <1>3, <1>4, <2>2, <3>1, <3>2
  <2> QED
    BY <1>2, <2>1, <2>2
<1>13. SpentStaysSpent'
  <2> SUFFICES ASSUME NEW x \in spent'
               PROVE  /\ x.kind = "recovery" => <<x.of, x.n>> \notin row'.recovery
                      /\ x.kind = "totp" /\ x.of = row'.secret => x.n <= row'.last
    BY DEF SpentStaysSpent
  <2>1. CASE x \in spent
    <3>1. x.n \in Nat
      BY <1>0, <2>1 DEF Proof
    <3> QED
      BY <1>0, <1>2, <1>3, <1>10, <2>1, <3>1 DEF FactorInv, SpentStaysSpent
  <2>2. CASE x = p
    BY <1>2, <1>3, <2>2
  <2> QED
    BY <1>2, <2>1, <2>2
<1>14. p \notin spent
  BY <1>2, <1>3, <1>10 DEF FactorInv, SpentStaysSpent
<1> QED
  BY <1>6, <1>7, <1>8, <1>9, <1>11, <1>12, <1>13, <1>14 DEF FactorInv

\* A write that keeps secret, step and recovery codes, or drops them all: what
\* is spent stays so.
LEMMA KeepSteps ==
    ASSUME FactorInv, row' \in Row, row'.version = row.version + 1,
           UNCHANGED <<challenge, consumptions, clock, late, spent>>,
           password' \in Nat,
           verified' = verified,
           \/ UNCHANGED req
           \/ \E r \in Requests : Done(r),
           drawn' \in Nat, drawn' >= drawn,
           \/ row'.secret = row.secret /\ row'.last = row.last /\ row'.recovery = row.recovery
           \/ row'.secret = NoSecret /\ row'.recovery = {},
           \/ row'.pending = NoSecret
           \/ row'.pending = row.pending
           \/ row'.pending = drawn + 1 /\ row'.pending <= drawn',
           row'.secret # NoSecret => row'.pending = NoSecret \/ row'.pending = row.pending,
           ModeMatchesSecret', EmailModeVerified'
    PROVE  FactorInv'
<1>0. /\ row \in Row /\ row.version \in Nat /\ row.secret \in Nat /\ row.pending \in Nat
      /\ row.last \in Int /\ drawn \in Nat /\ spent \subseteq Proof
  BY DEF FactorInv, TypeOK, Row
<1>1. \/ UNCHANGED req
      \/ \E r \in Requests, q \in Request :
           /\ Become(r, q)
           /\ q.at \in {"idle", "delete", "disableSave"}
           /\ q.at = "disableSave" => q.version <= row'.version
  <2>1. Idle \in Request /\ Idle.at = "idle"
    BY Constants DEF Idle
  <2> QED
    BY <2>1 DEF Done
<1>2. /\ req' \in [Requests -> Request]
      /\ \A t \in Requests : RequestOK(t)'
      /\ ChallengesOK'
      /\ ChallengeBound'
  BY <1>1, Raised
<1>3. TypeOK'
  <2>1. verified' \in BOOLEAN
    BY DEF FactorInv, TypeOK
  <2> QED
    BY <1>2, <2>1 DEF FactorInv, TypeOK
<1>4. RowOK'
  <2>1. \A c \in row.recovery : c[1] \in Nat /\ c[1] < row.version
    BY <1>0 DEF FactorInv, RowOK, Row, RecoveryCode
  <2>2. \A c \in row'.recovery : c[1] < row'.version
    BY <1>0, <2>1
  <2> QED
    BY <1>0, <2>2 DEF FactorInv, RowOK, NoSecret
<1>5. SpentOK'
  <2>1. \A x \in spent : x.of \in Nat
    BY <1>0 DEF Proof
  <2> QED
    BY <1>0, <2>1 DEF FactorInv, SpentOK, NoSecret
<1>6. SpentStaysSpent'
  BY <1>0 DEF FactorInv, SpentOK, SpentStaysSpent
<1> QED
  BY <1>2, <1>3, <1>4, <1>5, <1>6 DEF FactorInv

\* PutSecurity, Enroll, Disable and the reset of the password.
LEMMA SaveSteps ==
    ASSUME FactorInv,
           \/ \E r \in Requests : PutSave(r) \/ EnrollSave(r) \/ DisableSave(r)
           \/ ResetPassword
    PROVE  FactorInv'
<1>0. /\ row \in Row /\ drawn \in Nat /\ password \in Nat
      /\ req \in [Requests -> Request]
        /\ \A r \in Requests : RequestOK(r)
  BY DEF FactorInv, TypeOK
<1>1. ASSUME NEW r \in Requests, PutSave(r) PROVE FactorInv'
  <2> DEFINE new == [req[r].snap EXCEPT !.mode = req[r].mode]
  <2>1. req[r].snap \in Row /\ req[r].mode \in {"default", "email", "totp"}
    BY <1>0 DEF Request
  <2>2. /\ new \in Row /\ new.mode = req[r].mode /\ new.secret = req[r].snap.secret
        /\ new.pending = req[r].snap.pending /\ new.last = req[r].snap.last
        /\ new.recovery = req[r].snap.recovery
    BY <2>1 DEF Row
  <2>3. Save(new, req[r].snap.version)
    BY <1>1 DEF PutSave
  <2> HIDE DEF new
  <2>4. /\ row' \in Row /\ row'.version = row.version + 1
        /\ row.version = req[r].snap.version
        /\ row'.mode = new.mode /\ row'.secret = new.secret
        /\ row'.pending = new.pending /\ row'.last = new.last
        /\ row'.recovery = new.recovery
    BY <1>0, <2>2, <2>3, SaveFields
  <2>5. req[r].snap = row /\ (row.secret # NoSecret <=> req[r].mode = "totp")
    BY <1>0, <1>1, <2>4 DEF RequestOK, PutSave
  <2>6. ModeMatchesSecret'
    BY <2>2, <2>4, <2>5 DEF ModeMatchesSecret
  <2>7. EmailModeVerified'
    BY <1>1, <2>2, <2>4 DEF EmailModeVerified, PutSave, MaySave
  <2>8. /\ UNCHANGED <<challenge, consumptions, clock, late, spent, drawn, password, verified>>
        /\ Done(r)
    BY <1>1 DEF PutSave
  <2> QED
    BY <1>0, <2>2, <2>4, <2>5, <2>6, <2>7, <2>8, KeepSteps
<1>2. ASSUME NEW r \in Requests, EnrollSave(r) PROVE FactorInv'
  <2> DEFINE new == [req[r].snap EXCEPT !.pending = drawn + 1]
  <2>1. req[r].snap \in Row /\ req[r].password \in Nat
    BY <1>0 DEF Request
  <2>2. /\ new \in Row /\ new.mode = req[r].snap.mode /\ new.secret = req[r].snap.secret
        /\ new.pending = drawn + 1 /\ new.last = req[r].snap.last
        /\ new.recovery = req[r].snap.recovery
    <3>1. drawn + 1 \in Nat
      BY <1>0
    <3> DEFINE d == drawn + 1
    <3> HIDE DEF d
    <3>2. d \in Nat
      BY <3>1 DEF d
    <3>3. \A s \in Row : LET n == [s EXCEPT !.pending = d] IN
            /\ n \in Row /\ n.mode = s.mode /\ n.secret = s.secret /\ n.pending = d
            /\ n.last = s.last /\ n.recovery = s.recovery
      BY <3>2 DEF Row
    <3> QED
      BY <2>1, <3>3 DEF d
  <2>3. Save(new, req[r].snap.version)
    BY <1>2 DEF EnrollSave
  <2> HIDE DEF new
  <2>4. /\ row' \in Row /\ row'.version = row.version + 1
        /\ row.version = req[r].snap.version
        /\ row'.mode = new.mode /\ row'.secret = new.secret
        /\ row'.pending = new.pending /\ row'.last = new.last
        /\ row'.recovery = new.recovery
    BY <1>0, <2>2, <2>3, SaveFields
  <2>5. req[r].snap = row /\ row.secret = NoSecret
    BY <1>0, <1>2, <2>4 DEF RequestOK, EnrollSave
  <2>6. ModeMatchesSecret'
    BY <2>2, <2>4, <2>5 DEF FactorInv, ModeMatchesSecret
  <2>7. EmailModeVerified'
    BY <1>2, <2>2, <2>4, <2>5 DEF FactorInv, EmailModeVerified, EnrollSave
  <2>8. /\ UNCHANGED <<challenge, consumptions, clock, late, spent, password, verified>>
        /\ drawn' = drawn + 1 /\ drawn < MaxSecrets
        /\ Done(r)
        BY <1>2 DEF EnrollSave
  <2>10. drawn' \in Nat /\ drawn' >= drawn /\ row'.pending = drawn + 1 /\ row'.pending <= drawn'
    BY <1>0, <2>2, <2>4, <2>8
  <2>11. row'.secret = NoSecret
    BY <2>2, <2>4, <2>5
  <2> QED
    BY <1>0, <2>2, <2>4, <2>5, <2>6, <2>7, <2>8, <2>10, <2>11, KeepSteps
<1>3. ASSUME NEW r \in Requests, DisableSave(r) PROVE FactorInv'
  <2>1. Save(InitialRow, req[r].version)
    BY <1>3 DEF DisableSave
  <2>2. /\ row' \in Row /\ row'.version = row.version + 1
        /\ row'.mode = InitialRow.mode /\ row'.secret = InitialRow.secret
        /\ row'.pending = InitialRow.pending /\ row'.recovery = InitialRow.recovery
    BY <1>0, <2>1, SaveFields, Constants
  <2>3. row'.mode = "default" /\ row'.secret = NoSecret /\ row'.pending = NoSecret
        /\ row'.recovery = {}
    BY <2>2 DEF InitialRow
  <2>4. ModeMatchesSecret' /\ EmailModeVerified'
    BY <2>3 DEF ModeMatchesSecret, EmailModeVerified
  <2>5. /\ UNCHANGED <<challenge, consumptions, clock, late, spent, drawn, password, verified>>
        /\ Done(r)
    BY <1>3 DEF DisableSave
  <2> QED
    BY <1>0, <2>2, <2>3, <2>4, <2>5, KeepSteps
<1>4. ASSUME ResetPassword PROVE FactorInv'
  <2>1. /\ row' \in Row /\ row'.version = row.version + 1 /\ row'.mode = row.mode
        /\ row'.secret = row.secret /\ row'.pending = NoSecret
        /\ row'.last = row.last /\ row'.recovery = row.recovery
    BY <1>0, <1>4, ResetFields
  <2>2. ModeMatchesSecret'
    BY <2>1 DEF FactorInv, ModeMatchesSecret
  <2>3. EmailModeVerified'
    BY <1>4, <2>1 DEF FactorInv, EmailModeVerified, ResetPassword
  <2>4. /\ UNCHANGED <<challenge, consumptions, clock, late, spent, drawn, verified, req>>
        /\ password' = password + 1
    BY <1>4 DEF ResetPassword
  <2>5. password' \in Nat /\ drawn' \in Nat /\ drawn' >= drawn
    BY <1>0, <2>4
  <2> QED
    BY <1>0, <2>1, <2>2, <2>3, <2>4, <2>5, KeepSteps
<1> QED
  BY <1>1, <1>2, <1>3, <1>4

\* Confirm puts a secret in force that no accepted proof belongs to.
LEMMA ConfirmStep ==
    ASSUME FactorInv, NEW r \in Requests, ConfirmSave(r)
    PROVE  FactorInv' /\ req[r].proof \notin spent
<1> DEFINE p == req[r].proof
           s == req[r].snap
<1>0. /\ row \in Row /\ row.version \in Nat /\ row.pending \in Nat /\ drawn \in Nat
      /\ req \in [Requests -> Request] /\ p \in Proof /\ s \in Row
      /\ RequestOK(r) /\ spent \subseteq Proof
  BY DEF FactorInv, TypeOK, Row, Request
<1>1. /\ Confirmed(s, p) \in Row /\ Confirmed(s, p).mode = "totp"
      /\ Confirmed(s, p).secret = s.pending /\ Confirmed(s, p).pending = NoSecret
      /\ Confirmed(s, p).last = p.n
      /\ \A c \in Confirmed(s, p).recovery : c[1] = s.version
  BY <1>0, ConfirmedType
<1>2. Save(Confirmed(s, p), s.version)
  BY DEF ConfirmSave
<1>3. /\ row' \in Row /\ row'.version = row.version + 1 /\ row.version = s.version
      /\ row'.mode = "totp" /\ row'.secret = s.pending /\ row'.pending = NoSecret
      /\ row'.last = p.n
      /\ \A c \in row'.recovery : c[1] = s.version
  BY <1>0, <1>1, <1>2, SaveFields
<1>4. s = row /\ row.pending # NoSecret /\ p.kind = "totp" /\ p.of = row.pending
  BY <1>0, <1>3 DEF RequestOK, ConfirmSave
<1>5. /\ UNCHANGED <<password, verified, challenge, consumptions, clock, drawn, late>>
      /\ spent' = spent \cup {p} /\ Done(r)
  BY DEF ConfirmSave
<1> HIDE DEF p, s
<1>6. /\ req' \in [Requests -> Request]
      /\ \A t \in Requests : RequestOK(t)'
      /\ ChallengesOK'
      /\ ChallengeBound'
  <2>1. Idle \in Request /\ Idle.at = "idle"
    BY Constants DEF Idle
  <2>2. Become(r, Idle)
    BY <1>5 DEF Done
  <2>3. \E q \in Request :
          /\ Become(r, q)
          /\ q.at \in {"idle", "delete", "disableSave"}
          /\ q.at = "disableSave" => q.version <= row'.version
    BY <2>1, <2>2
  <2> QED
    BY <1>3, <1>5, <2>3, Raised
<1>7. TypeOK'
  <2>1. verified' \in BOOLEAN
    BY <1>5 DEF FactorInv, TypeOK
  <2> QED
    BY <1>0, <1>3, <1>5, <1>6, <2>1 DEF FactorInv, TypeOK
<1>8. ModeMatchesSecret' /\ EmailModeVerified'
  BY <1>3, <1>4 DEF ModeMatchesSecret, EmailModeVerified
<1>9. RowOK'
  BY <1>0, <1>3, <1>4, <1>5 DEF FactorInv, RowOK, NoSecret
<1>10. \A x \in spent :
         /\ x.of \in Nat
         /\ x.kind = "recovery" => x.of < row.version
         /\ x.kind = "totp" => x.of # NoSecret /\ x.of <= drawn /\ x.of # row.pending
  BY <1>0 DEF FactorInv, SpentOK, Proof
<1>11. SpentOK'
  <2> SUFFICES ASSUME NEW x \in spent'
               PROVE  /\ x.kind = "recovery" => x.of < row'.version
                      /\ x.kind = "totp" =>
                           x.of # NoSecret /\ x.of <= drawn' /\ x.of # row'.pending
    BY DEF SpentOK
  <2>1. CASE x \in spent
    BY <1>0, <1>3, <1>5, <1>10, <2>1
  <2>2. CASE x = p
    BY <1>0, <1>3, <1>4, <1>5, <2>2 DEF FactorInv, RowOK
  <2> QED
    BY <1>5, <2>1, <2>2
<1>12. SpentStaysSpent'
  <2> SUFFICES ASSUME NEW x \in spent'
               PROVE  /\ x.kind = "recovery" => <<x.of, x.n>> \notin row'.recovery
                      /\ x.kind = "totp" /\ x.of = row'.secret => x.n <= row'.last
    BY DEF SpentStaysSpent
  <2>1. CASE x \in spent
    <3>1. x.kind = "recovery" => <<x.of, x.n>> \notin row'.recovery
      BY <1>0, <1>3, <1>10, <2>1
    <3> QED
      BY <1>3, <1>4, <1>10, <2>1, <3>1
  <2>2. CASE x = p
    <3>1. p.n \in Nat
      BY <1>0 DEF Proof
    <3> QED
      BY <1>3, <1>4, <2>2, <3>1
  <2> QED
    BY <1>5, <2>1, <2>2
<1>13. p \notin spent
  BY <1>4, <1>10
<1> QED
  BY <1>6, <1>7, <1>8, <1>9, <1>11, <1>12, <1>13 DEF FactorInv, p

-----------------------------------------------------------------------------
(***************************************************************************)
(* Theorems                                                                *)
(***************************************************************************)
\* Every step of the specification preserves the invariant.
LEMMA NextFactor == FactorInv /\ [Next]_vars => FactorInv'
<1> SUFFICES ASSUME FactorInv, [Next]_vars PROVE FactorInv'
    OBVIOUS
<1>1. CASE UNCHANGED vars
  <2>1. TypeOK'
    BY <1>1 DEF FactorInv, TypeOK, vars
  <2>2. \A t \in Requests : RequestOK(t)'
    BY <1>1 DEF FactorInv, RequestOK, vars
  <2>3. RowOK' /\ SpentOK' /\ ChallengesOK'
    BY <1>1 DEF FactorInv, RowOK, SpentOK, ChallengesOK, vars
  <2>4. ModeMatchesSecret' /\ SpentStaysSpent' /\ ChallengeBound'
    BY <1>1 DEF FactorInv, ModeMatchesSecret, SpentStaysSpent, ChallengeBound, vars
  <2>5. EmailModeVerified'
    BY <1>1 DEF FactorInv, EmailModeVerified, vars
  <2> QED
    BY <2>1, <2>2, <2>3, <2>4, <2>5 DEF FactorInv
<1>2. CASE Next
  BY <1>2, ReadSteps, ChallengeSteps, OtherSteps, ConsumeSteps, SaveSteps, ConfirmStep
     DEF Next
<1> QED
  BY <1>1, <1>2

\* The invariant holds throughout.
THEOREM FactorInvariant == Spec => []FactorInv
<1>1. Init => FactorInv
  BY InitFactor
<1>2. FactorInv /\ [Next]_vars => FactorInv'
  BY NextFactor
<1> QED
  BY <1>1, <1>2, PTL DEF Spec

\* The security row, the challenges and what requests have read keep their
\* types.
THEOREM TypeCorrect == Spec => []TypeOK
<1>1. FactorInv => TypeOK
  BY DEF FactorInv
<1> QED
  BY <1>1, FactorInvariant, PTL

\* Mode and secret agree: no interleaving of PutSecurity, Confirm and Disable
\* leaves an enrolled factor that Login does not ask for.
THEOREM ModesMatchSecrets == Spec => []ModeMatchesSecret
<1>1. FactorInv => ModeMatchesSecret
  BY DEF FactorInv
<1> QED
  BY <1>1, FactorInvariant, PTL

\* Email mode never stands without a verified address.
THEOREM EmailModesVerified == Spec => []EmailModeVerified
<1>1. FactorInv => EmailModeVerified
  BY DEF FactorInv
<1> QED
  BY <1>1, FactorInvariant, PTL

\* A used recovery code or TOTP step is never restored by a stale write.
THEOREM SpentProofsStaySpent == Spec => []SpentStaysSpent
<1>1. FactorInv => SpentStaysSpent
  BY DEF FactorInv
<1> QED
  BY <1>1, FactorInvariant, PTL

\* A challenge that matches the version was issued for the password in force.
THEOREM ChallengesBound == Spec => []ChallengeBound
<1>1. FactorInv => ChallengeBound
  BY DEF FactorInv
<1> QED
  BY <1>1, FactorInvariant, PTL

\* Who accepts a proof takes one of three steps.
LEMMA AcceptingSteps ==
    ASSUME FactorInv, [Next]_vars, NEW r \in Requests, Accepted(r)
    PROVE  VerifyConsume(r) \/ DisableConsume(r) \/ ConfirmSave(r)
<1>0. req \in [Requests -> Request]
  BY DEF FactorInv, TypeOK
<1>1. Next
  BY DEF Accepted, vars
<1>2. ASSUME NEW t \in Requests,
             \/ PutSave(t) \/ EnrollSave(t) \/ DisableSave(t)
      PROVE  FALSE
  <2>1. t # r
    BY <1>2 DEF PutSave, EnrollSave, DisableSave, Accepted
  <2>2. req'[r] = req[r]
    BY <1>0, <1>2, <2>1 DEF PutSave, EnrollSave, DisableSave, Done, Become
  <2> QED
    BY <2>2 DEF Accepted
<1>3. ASSUME NEW t \in Requests,
             \/ VerifyConsume(t) \/ DisableConsume(t) \/ ConfirmSave(t)
      PROVE  t = r
  <2>1. t # r => req'[r] = req[r]
    BY <1>0, <1>3 DEF VerifyConsume, DisableConsume, ConfirmSave, Done, Become
  <2> QED
    BY <2>1 DEF Accepted
<1>4. row' # row /\ req' # req
  BY DEF Accepted
<1>5. \E t \in Requests :
        \/ PutSave(t) \/ EnrollSave(t) \/ DisableSave(t)
        \/ VerifyConsume(t) \/ DisableConsume(t) \/ ConfirmSave(t)
  BY <1>1, <1>4 DEF Next, LoginCredentials, LoginSecurity, LoginRecheck, LoginIssue,
     VerifyAttempt, VerifyProof, VerifyDelete, PutUser, PutRead, EnrollUser, EnrollRead,
     ConfirmRead, DisableProof, Abandon, ResetPassword, ChangeEmail, VerifyEmail, Tick,
     Lapse, ExpireChallenge, Prune
<1> QED
  BY <1>2, <1>3, <1>5

\* A second factor is accepted once, by whichever request.
THEOREM ProofsAcceptedOnce == Spec => ProofAcceptedOnce
<1>1. FactorInv /\ [Next]_vars =>
        [\A r \in Requests : Accepted(r) => req[r].proof \notin spent]_vars
  BY AcceptingSteps, ConsumeSteps, ConfirmStep
<1>2. Spec => [][Next]_vars
  BY PTL DEF Spec
<1> QED
  BY <1>1, <1>2, FactorInvariant, PTL DEF ProofAcceptedOnce

\* The steps that write the row, and what they do to the secret.
LEMMA SecretKept ==
  ASSUME FactorInv, Next, row.secret # NoSecret, row'.secret # row.secret
  PROVE  \E r \in Requests :
            /\ req[r].at = "disableSave"
            /\ req[r].version = row.version
            /\ req'[r] = Idle
<1>1. TypeOK /\ RowOK /\ \A r \in Requests : RequestOK(r)
  BY DEF FactorInv
<1>2. row \in Row /\ req \in [Requests -> Request]
  BY <1>1 DEF TypeOK
<1>3. ASSUME NEW r \in Requests, PutSave(r) PROVE FALSE
  <2>1. req[r].snap \in Row
    BY <1>2 DEF Request
  <2>2. req[r].snap = row
    BY <1>1, <1>3 DEF PutSave, Save, RequestOK
  <2> QED
    BY <1>3, <2>1, <2>2 DEF PutSave, Save, Row
<1>4. ASSUME NEW r \in Requests, EnrollSave(r) PROVE FALSE
  BY <1>1, <1>4 DEF EnrollSave, Save, RequestOK
<1>5. ASSUME NEW r \in Requests, ConfirmSave(r) PROVE FALSE
  BY <1>1, <1>5 DEF ConfirmSave, Save, RequestOK, RowOK
<1>6. ASSUME NEW r \in Requests, VerifyConsume(r) \/ DisableConsume(r) PROVE FALSE
  BY <1>2, <1>6 DEF VerifyConsume, DisableConsume, ConsumeCredential, Consumed, Row
<1>7. ASSUME ResetPassword PROVE FALSE
  BY <1>2, <1>7 DEF ResetPassword, Row
<1>8. ASSUME NEW r \in Requests, DisableSave(r)
      PROVE  req[r].at = "disableSave" /\ req[r].version = row.version /\ req'[r] = Idle
  BY <1>2, <1>8 DEF DisableSave, Save, Done, Become
<1>9. ~UNCHANGED row
  OBVIOUS
<1>10. \E r \in Requests : DisableSave(r)
  BY <1>3, <1>4, <1>5, <1>6, <1>7, <1>9
  DEF Next, LoginCredentials, LoginSecurity, LoginRecheck, LoginIssue, VerifyAttempt,
      VerifyProof, VerifyDelete, PutUser, PutRead, EnrollUser, EnrollRead, ConfirmRead,
      DisableProof, Abandon, ChangeEmail, VerifyEmail, Tick, Lapse, ExpireChallenge, Prune
<1> QED
  BY <1>8, <1>10

\* The factor is removed by Disable alone, with the version its proof left.
THEOREM FactorsKept == Spec => FactorKept
<1>1. FactorInv /\ [Next]_vars =>
        [row.secret # NoSecret /\ row'.secret # row.secret =>
           \E r \in Requests :
              /\ req[r].at = "disableSave"
              /\ req[r].version = row.version
              /\ req'[r] = Idle]_vars
  BY SecretKept
<1>2. Spec => [][Next]_vars
  BY PTL DEF Spec
<1> QED
  BY <1>1, <1>2, FactorInvariant, PTL DEF FactorKept
=============================================================================
