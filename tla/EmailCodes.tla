----------------------------- MODULE EmailCodes -----------------------------
(***************************************************************************)
(* Codes sent by mail: the scripts of authcache that issue, verify and     *)
(* consume them, and the transactions that accept them (Register and       *)
(* VerifyEmail).  A code lives in Redis, its use is recorded in            *)
(* authentication_consumptions, and the two are not written together.      *)
(*                                                                         *)
(* Time is counted in ticks.  A request presents the code that is current  *)
(* or another one; digits are left out.  Requests that are refused for     *)
(* anything else, fail or lose a reply end between two steps (Abandon).    *)
(***************************************************************************)
EXTENDS Integers, FiniteSets

CONSTANTS
    Requests,     \* requests in flight
    Users,        \* accounts, each created at most once
    Mails,        \* addresses
    Purposes,     \* the purposes of a behaviour
    TTL,          \* life of a code (600 s)
    Cooldown,     \* between two codes of a purpose (60 s)
    Window,       \* of the counter of an address (3600 s)
    MailLimit,    \* codes of an address in a window (10)
    MaxErrors,    \* wrong codes a code survives (5)
    MaxLatency,   \* how long a verification may be under way
    MaxCodes,     \* codes drawn in a behaviour (a bound)
    MaxTime,      \* the last tick (a bound)
    Settings      \* the settings an administrator may put

\* The settings: allowed are the addresses whose domain is allowed (all of them
\* if AllowedEmailDomains is empty).
Policy == [enabled : BOOLEAN, required : BOOLEAN, allowed : SUBSET Mails]

ASSUME EmailCodesAssumption ==
    /\ Purposes \subseteq {"register", "login", "verify_email"}
    /\ TTL \in Nat \ {0}
    /\ {Cooldown, Window, MailLimit, MaxErrors, MaxLatency, MaxCodes, MaxTime} \subseteq Nat
    /\ Settings \subseteq Policy

VARIABLES
    now,
    code,       \* the hash of each address and purpose in Redis
    cooldown,   \* when the cooldown of an address and purpose ends
    counter,    \* codes asked for an address in its window
    drawn,      \* codes drawn so far
    consumed,   \* authentication_consumptions
    settings,   \* authentication_settings
    account,    \* users
    req,        \* where each request is, and what it has read
    uses,       \* history: how often a code was accepted
    wrong,      \* history: how many wrong codes were tried against it
    matched,    \* history: the codes that were presented correctly
    proved      \* history: the addresses whose codes verified an account

vars == <<now, code, cooldown, counter, drawn, consumed, settings, account, req,
          uses, wrong, matched, proved>>

Keys == Mails \X Purposes

NoCode == [id |-> 0, errors |-> 0, until |-> 0]

NoCount == [n |-> 0, until |-> 0]

NoReceipt == [id |-> 0, until |-> 0]

NoAccount == [exists |-> FALSE, mail |-> {}, verified |-> FALSE]

Idle == [at |-> "idle", key |-> {}, user |-> {}, started |-> 0, receipt |-> NoReceipt]

Code == [id : Nat, errors : Nat, until : Nat]

Receipt == [id : Nat, until : Nat]

Account == [exists : BOOLEAN, mail : SUBSET Mails, verified : BOOLEAN]

Request == [at : {"idle", "verify", "commit", "cleanup"}, key : SUBSET Keys,
            user : SUBSET Users, started : Nat, receipt : Receipt]

TypeOK ==
    /\ now \in Nat
    /\ code \in [Keys -> Code]
    /\ cooldown \in [Keys -> Nat]
    /\ counter \in [Mails -> [n : Nat, until : Nat]]
    /\ drawn \in 0 .. MaxCodes
    /\ consumed \subseteq Receipt
    /\ settings \in Policy
    /\ account \in [Users -> Account]
    /\ req \in [Requests -> Request]
    /\ uses \in [1 .. MaxCodes -> Nat]
    /\ wrong \in [1 .. MaxCodes -> Nat]
    /\ matched \subseteq 1 .. MaxCodes
    /\ proved \in [Users -> SUBSET Mails]

Init ==
    /\ now = 0
    /\ code = [k \in Keys |-> NoCode]
    /\ cooldown = [k \in Keys |-> 0]
    /\ counter = [m \in Mails |-> NoCount]
    /\ drawn = 0
    /\ consumed = {}
    /\ settings \in Settings
    /\ account = [u \in Users |-> NoAccount]
    /\ req = [r \in Requests |-> Idle]
    /\ uses = [i \in 1 .. MaxCodes |-> 0]
    /\ wrong = [i \in 1 .. MaxCodes |-> 0]
    /\ matched = {}
    /\ proved = [u \in Users |-> {}]

Become(r, q) == req' = [req EXCEPT ![r] = q]

Done(r) == Become(r, Idle)

(***************************************************************************)
(* The scripts                                                             *)
(***************************************************************************)
\* issueScript counts every call for the address, whatever becomes of it.
Counted(m) ==
    [counter EXCEPT ![m] =
        IF @ = NoCount THEN [n |-> 1, until |-> now + Window]
                       ELSE [n |-> @.n + 1, until |-> @.until]]

\* issueScript stores a code in place of the one before, and starts the cooldown.
StoreCode(k) ==
    /\ cooldown[k] = 0
    /\ cooldown' = [cooldown EXCEPT ![k] = now + Cooldown]
    /\ drawn' = drawn + 1
    /\ code' = [code EXCEPT ![k] = [id |-> drawn + 1, errors |-> 0, until |-> now + TTL]]

\* RequestEmailCode and RequestEmailVerification.  What they have checked before
\* the script (settings, user) may be outdated by now.
Issue(k) ==
    /\ drawn < MaxCodes
    /\ counter' = Counted(k[1])
    /\ counter'[k[1]].n <= MailLimit
    /\ StoreCode(k)
    /\ UNCHANGED <<now, consumed, settings, account, req, uses, wrong, matched, proved>>

\* issueScript refuses: the cooldown, the limit of the address or of the IP.
\* (Beyond the limit the count makes no difference any more.)
IssueRefused(k) ==
    /\ counter' = Counted(k[1])
    /\ counter'[k[1]].n <= MailLimit + 1
    /\ UNCHANGED <<now, code, cooldown, drawn, consumed, settings, account, req, uses,
                   wrong, matched, proved>>

\* Faulty variant: one wrong code too many.
Verifiable_OffByOne(k) ==
    code[k] # NoCode /\ code[k].errors <= MaxErrors

\* verifyScript gets past its first two lines.
Verifiable(k) ==
    code[k] # NoCode /\ code[k].errors < MaxErrors

\* verifyScript: the digest differs.
CountError(k) ==
    /\ code' = [code EXCEPT ![k].errors = @ + 1]
    /\ wrong' = [wrong EXCEPT ![code[k].id] = @ + 1]

\* Faulty variant: consumeScript does not compare the id.
Consume_Any(k, id) == code' = [code EXCEPT ![k] = NoCode]

\* consumeScript.
Consume(k, id) ==
    code' = [code EXCEPT ![k] = IF @.id = id THEN NoCode ELSE @]

(***************************************************************************)
(* Requests                                                                *)
(***************************************************************************)
\* VerifyAndConsume, by Login in email mode.
LoginCode(k) ==
    /\ k[2] = "login"
    /\ Verifiable(k)
    /\ \/ /\ code' = [code EXCEPT ![k] = NoCode]
          /\ uses' = [uses EXCEPT ![code[k].id] = @ + 1]
          /\ matched' = matched \cup {code[k].id}
          /\ UNCHANGED wrong
       \/ CountError(k) /\ UNCHANGED <<uses, matched>>
    /\ UNCHANGED <<now, cooldown, counter, drawn, consumed, settings, account, req, proved>>

\* The checks of Register against settings s, without the receipt.
MayRegister(s, m) == s.enabled /\ m \in s.allowed

\* Register reads the settings; with verification the code is verified next.
RegisterRead(r, m) ==
    /\ "register" \in Purposes
    /\ req[r].at = "idle"
    /\ MayRegister(settings, m)
    /\ Become(r, [Idle EXCEPT !.at = IF settings.required THEN "verify" ELSE "commit",
                              !.key = {<<m, "register">>},
                              !.started = IF settings.required THEN now ELSE 0])
    /\ UNCHANGED <<now, code, cooldown, counter, drawn, consumed, settings, account,
                   uses, wrong, matched, proved>>

\* VerifyEmail reads the user and its address.
VerifyEmailRead(r, u) ==
    /\ "verify_email" \in Purposes
    /\ req[r].at = "idle"
    /\ account[u].exists
    /\ Become(r, [Idle EXCEPT !.at = "verify", !.user = {u}, !.started = now,
                              !.key = account[u].mail \X {"verify_email"}])
    /\ UNCHANGED <<now, code, cooldown, counter, drawn, consumed, settings, account,
                   uses, wrong, matched, proved>>

\* Faulty variant: the remaining time with the wrong sign.
ReceiptUntil_Swapped(r, k) == req[r].started + (now - code[k].until)

\* CodeReceipt.ExpiresAt: the PTTL the script returns, counted from before the
\* script ran, so a receipt never outlives the code.
ReceiptUntil(r, k) == req[r].started + (code[k].until - now)

\* Store.Verify.
Verify(r) ==
    /\ req[r].at = "verify"
    /\ now - req[r].started <= MaxLatency
    /\ \E k \in req[r].key :
         /\ Verifiable(k)
         /\ \/ /\ Become(r, [req[r] EXCEPT !.at = "commit", !.started = 0,
                   !.receipt = [id |-> code[k].id, until |-> ReceiptUntil(r, k)]])
               /\ matched' = matched \cup {code[k].id}
               /\ UNCHANGED <<code, wrong>>
            \/ CountError(k) /\ Done(r) /\ UNCHANGED matched
    /\ UNCHANGED <<now, cooldown, counter, drawn, consumed, settings, account, uses, proved>>

\* PruneAuthenticationConsumptions.
Kept == {c \in consumed : c.until >= now}

\* Faulty variant: the use of a code is recorded, but not looked up.
Accept_Unchecked(receipt) ==
    /\ receipt.until > now
    /\ consumed' = Kept \cup {receipt}
    /\ uses' = [uses EXCEPT ![receipt.id] = @ + 1]

\* The receipt in a transaction: not expired, and inserted under its id.
Accept(receipt) ==
    /\ receipt.until > now
    /\ \A c \in Kept : c.id # receipt.id
    /\ consumed' = Kept \cup {receipt}
    /\ uses' = [uses EXCEPT ![receipt.id] = @ + 1]

\* Faulty variant: the policy the service had read is trusted.
Registrable_Snapshot(m, receipt) == \A u \in Users : account[u].mail # {m}

\* The checks of the transaction against the settings it has locked, and the
\* unique address.
Registrable(m, receipt) ==
    /\ MayRegister(settings, m)
    /\ settings.required => receipt # NoReceipt
    /\ \A u \in Users : account[u].mail # {m}

\* The transaction Register.  Without verification the receipt is dropped.
RegisterCommit(r, u) ==
    /\ req[r].at = "commit"
    /\ req[r].user = {}
    /\ ~account[u].exists
    /\ \E k \in req[r].key :
         LET receipt == req[r].receipt
             verified == settings.required /\ receipt # NoReceipt
         IN /\ Registrable(k[1], receipt)
            /\ IF verified THEN Accept(receipt) ELSE UNCHANGED <<consumed, uses>>
            /\ account' = [account EXCEPT ![u] =
                 [exists |-> TRUE, mail |-> {k[1]}, verified |-> verified]]
            /\ proved' = [proved EXCEPT ![u] = IF verified THEN {k[1]} ELSE {}]
            /\ IF receipt = NoReceipt
               THEN Done(r)
               ELSE Become(r, [req[r] EXCEPT !.at = "cleanup"])
    /\ UNCHANGED <<now, code, cooldown, counter, drawn, settings, wrong, matched>>

\* Faulty variant: the address is not compared.
SameMail_Any(u, k) == TRUE

\* The address that was verified is still the user's.
SameMail(u, k) == account[u].mail = {k[1]}

\* The transaction VerifyEmail.
VerifyEmailCommit(r, u) ==
    /\ req[r].at = "commit"
    /\ u \in req[r].user
    /\ \E k \in req[r].key :
         /\ SameMail(u, k)
         /\ proved' = [proved EXCEPT ![u] = {k[1]}]
    /\ Accept(req[r].receipt)
    /\ account' = [account EXCEPT ![u].verified = TRUE]
    /\ Become(r, [req[r] EXCEPT !.at = "cleanup"])
    /\ UNCHANGED <<now, code, cooldown, counter, drawn, settings, wrong, matched>>

\* Store.Consume after the commit; its failure is ignored (Abandon).
Cleanup(r) ==
    /\ req[r].at = "cleanup"
    /\ \E k \in req[r].key : Consume(k, req[r].receipt.id)
    /\ Done(r)
    /\ UNCHANGED <<now, cooldown, counter, drawn, consumed, settings, account, uses,
                   wrong, matched, proved>>

Abandon(r) ==
    /\ req[r].at # "idle"
    /\ Done(r)
    /\ UNCHANGED <<now, code, cooldown, counter, drawn, consumed, settings, account,
                   uses, wrong, matched, proved>>

(***************************************************************************)
(* Other transactions, and time                                            *)
(***************************************************************************)
PutSettings(s) ==
    /\ settings' = s
    /\ UNCHANGED <<now, code, cooldown, counter, drawn, consumed, account, req, uses,
                   wrong, matched, proved>>

\* An administrator creates an account, without a code.
CreateUser(u, m) ==
    /\ ~account[u].exists
    /\ \A v \in Users : account[v].mail # {m}
    /\ account' = [account EXCEPT ![u] =
         [exists |-> TRUE, mail |-> {m}, verified |-> FALSE]]
    /\ UNCHANGED <<now, code, cooldown, counter, drawn, consumed, settings, req, uses,
                   wrong, matched, proved>>

\* UpdateUser with another address, also one outside Mails ({}).
ChangeEmail(u, mail) ==
    /\ account[u].exists
    /\ mail # account[u].mail
    /\ mail # {} => \A v \in Users : account[v].mail # mail
    /\ account' = [account EXCEPT ![u].mail = mail, ![u].verified = FALSE]
    /\ UNCHANGED <<now, code, cooldown, counter, drawn, consumed, settings, req, uses,
                   wrong, matched, proved>>

\* Redis drops the keys whose time is over.
Tick ==
    /\ now < MaxTime
    /\ now' = now + 1
    /\ code' = [k \in Keys |-> IF code[k].until > now' THEN code[k] ELSE NoCode]
    /\ cooldown' = [k \in Keys |-> IF cooldown[k] > now' THEN cooldown[k] ELSE 0]
    /\ counter' = [m \in Mails |-> IF counter[m].until > now' THEN counter[m] ELSE NoCount]
    /\ UNCHANGED <<drawn, consumed, settings, account, req, uses, wrong, matched, proved>>

Next ==
    \/ \E k \in Keys : Issue(k) \/ IssueRefused(k) \/ LoginCode(k)
    \/ \E r \in Requests :
         \/ \E m \in Mails : RegisterRead(r, m)
         \/ \E u \in Users : VerifyEmailRead(r, u) \/ RegisterCommit(r, u) \/ VerifyEmailCommit(r, u)
         \/ Verify(r) \/ Cleanup(r) \/ Abandon(r)
    \/ \E s \in Settings : PutSettings(s)
    \/ \E u \in Users :
         \/ \E m \in Mails : CreateUser(u, m)
         \/ \E mail \in {{}} \cup {{m} : m \in Mails} : ChangeEmail(u, mail)
    \/ Tick

Spec == Init /\ [][Next]_vars

(***************************************************************************)
(* Properties                                                              *)
(***************************************************************************)
\* "The durable receipt prevents replay even if Redis cleanup fails": a code is
\* accepted once, by whichever of Register, VerifyEmail and Login.  It is not so if
\* verifications take their time: PruneAuthenticationConsumptions drops the record
\* of a use when its receipt has expired, and another receipt of the code, whose
\* verification was quicker, may expire later.
AcceptedOnce == \A i \in 1 .. MaxCodes : uses[i] <= 1

\* What the record does ensure: a code that was accepted is accepted again only by a
\* receipt with less than MaxLatency left (so never, if that is a tick).
SecondUseLate ==
    [][\A i \in 1 .. MaxCodes :
         uses[i] # 0 /\ uses'[i] # uses[i]
         => \E c \in consumed' : c.id = i /\ c.until < now + MaxLatency]_vars

\* A verified account holds the address whose code verified it, although the
\* address may change while the code is being verified.
VerifiedMailbox == \A u \in Users : account[u].verified => proved[u] = account[u].mail

\* A registration obeys the settings in force when it commits, not those the
\* service read before it hashed the password.
RegistrationPolicy ==
    [][\A r \in Requests, u \in Users :
         /\ req[r].at = "commit" /\ req'[r] # req[r]
         /\ ~account[u].exists /\ account'[u].exists
         => /\ settings.enabled
            /\ account'[u].mail \subseteq settings.allowed
            /\ settings.required => account'[u].verified]_vars

\* Cleaning up after a commit spares a newer code: what disappears before its
\* time was presented ("without deleting a newer code").
NewerCodeSpared ==
    [][\A k \in Keys :
         code[k] # NoCode /\ now' < code[k].until /\ code'[k] = NoCode
         => code[k].id \in matched']_vars

\* After MaxErrors wrong codes a code can no longer be verified, in whatever
\* order right and wrong codes arrive.
GuessesBounded ==
    [][\A i \in 1 .. MaxCodes :
         /\ wrong'[i] <= MaxErrors
         /\ i \in matched' \ matched => wrong[i] < MaxErrors]_vars
=============================================================================
