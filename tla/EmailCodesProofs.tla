--------------------------- MODULE EmailCodesProofs ---------------------------
(***************************************************************************)
(* Proofs about EmailCodes, for any accounts, addresses, requests, codes,  *)
(* times and limits.                                                       *)
(***************************************************************************)
EXTENDS EmailCodes, TLAPS

(***************************************************************************)
(* The inductive invariant                                                 *)
(***************************************************************************)
Live(k) == code[k] # NoCode

\* A code in Redis was drawn, is not over, and counts its own errors.
CodesLive ==
    \A k \in Keys : Live(k) =>
        /\ code[k].id \in 1 .. drawn
        /\ code[k].until > now
        /\ code[k].errors = wrong[code[k].id]

\* A code is drawn once, for one address and purpose.
OneKey == \A k, l \in Keys : Live(k) /\ Live(l) /\ code[k].id = code[l].id => k = l

\* The histories: nothing is known of a code that was not drawn.
Histories ==
    /\ \A i \in 1 .. MaxCodes : wrong[i] <= MaxErrors /\ (i > drawn => wrong[i] = 0)
    /\ \A i \in matched : i <= drawn

Has(r) == req[r].receipt # NoReceipt

\* What a request holds at its point.
Receipts ==
    \A r \in Requests :
        /\ Has(r) => req[r].receipt.id \in matched
        /\ req[r].at \in {"idle", "verify"} => ~Has(r)
        /\ req[r].at = "cleanup" => Has(r)
        /\ req[r].at = "verify" => req[r].started <= now
        /\ \A k \in req[r].key : k[2] # "login"

CodeInv == TypeOK /\ CodesLive /\ OneKey /\ Histories /\ Receipts

(***************************************************************************)
(* SecondUseLate: two receipts of a code expire within MaxLatency of each  *)
(* other, so the record of a use is still there when another receipt is    *)
(* presented that has MaxLatency or more left.                             *)
(***************************************************************************)
\* The use of code i is recorded for receipts that expire by until.
Recorded(i, until) == \E c \in consumed : c.id = i /\ c.until >= until - MaxLatency

OnceCode(k) ==
    /\ k[2] = "login" => uses[code[k].id] = 0 /\ \A r \in Requests : req[r].receipt.id # code[k].id
    /\ uses[code[k].id] # 0 /\ code[k].until >= now + MaxLatency =>
         Recorded(code[k].id, code[k].until)
    /\ \A r \in Requests :
         req[r].receipt.id = code[k].id
         => req[r].receipt.until \in (code[k].until - MaxLatency) .. code[k].until

OnceReceipt(r) ==
    /\ uses[req[r].receipt.id] # 0 /\ req[r].receipt.until >= now + MaxLatency =>
         Recorded(req[r].receipt.id, req[r].receipt.until)
    /\ \A s \in Requests :
         req[s].receipt.id = req[r].receipt.id
         => req[s].receipt.until <= req[r].receipt.until + MaxLatency

Once ==
    /\ \A i \in 1 .. MaxCodes : i > drawn => uses[i] = 0
    /\ \A k \in Keys : Live(k) => OnceCode(k)
    /\ \A r \in Requests : Has(r) => OnceReceipt(r)

OnceInv == CodeInv /\ Once

-----------------------------------------------------------------------------
(***************************************************************************)
(* Types                                                                   *)
(***************************************************************************)
\* The constants that are numbers.
LEMMA Numbers == /\ TTL \in Nat \ {0} /\ Cooldown \in Nat /\ Window \in Nat /\ MailLimit \in Nat
                 /\ MaxErrors \in Nat /\ MaxLatency \in Nat /\ MaxCodes \in Nat /\ MaxTime \in Nat
  BY EmailCodesAssumption

\* The initial values, and what they contain.
LEMMA Values == /\ NoCode \in Code /\ NoReceipt \in Receipt /\ Idle \in Request
                /\ NoCode.id = 0 /\ NoReceipt.id = 0 /\ NoReceipt.until = 0
                /\ Idle.receipt = NoReceipt /\ Idle.at = "idle" /\ Idle.key = {}
  BY DEF NoCode, NoReceipt, Idle, Code, Receipt, Request

\* A key is an address and a purpose.
LEMMA InKeys == \A k \in Keys : k[1] \in Mails /\ k[2] \in Purposes
  BY DEF Keys

\* The code that a key holds, if it is live.
LEMMA LiveCode ==
    ASSUME CodeInv, NEW k \in Keys, Live(k)
    PROVE  /\ code[k] \in Code /\ code[k].id \in 1 .. MaxCodes /\ code[k].id \in 1 .. drawn
           /\ code[k].errors \in Nat /\ code[k].until \in Nat /\ code[k].until > now
  BY Numbers DEF CodeInv, CodesLive, TypeOK, Code

\* A receipt that a request has is one of a code that was presented.
LEMMA HeldReceipt ==
    ASSUME CodeInv, NEW r \in Requests
    PROVE  /\ req[r] \in Request /\ req[r].receipt \in Receipt
           /\ req[r].receipt.id \in Nat /\ req[r].receipt.until \in Nat
           /\ Has(r) => /\ req[r].receipt.id \in 1 .. MaxCodes
                        /\ req[r].receipt.id \in 1 .. drawn
                        /\ req[r].receipt.id \in matched
           /\ ~Has(r) => req[r].receipt.id = 0 /\ req[r].receipt.until = 0
           /\ req[r].receipt.until > now => Has(r)
  BY Numbers, Values DEF CodeInv, Receipts, Has, TypeOK, Request, Receipt, Histories

\* Wrong codes are counted.
LEMMA ErrorCounted ==
    ASSUME CodeInv, NEW k \in Keys, Live(k), CountError(k)
    PROVE  /\ code' \in [Keys -> Code] /\ wrong' \in [1 .. MaxCodes -> Nat]
           /\ code'[k] = [id |-> code[k].id, errors |-> code[k].errors + 1, until |-> code[k].until]
           /\ \A l \in Keys : l # k => code'[l] = code[l]
           /\ wrong'[code[k].id] = code[k].errors + 1
           /\ \A i \in 1 .. MaxCodes : i # code[k].id => wrong'[i] = wrong[i]
<1>1. code[k] \in Code /\ code[k].id \in 1 .. MaxCodes /\ wrong[code[k].id] = code[k].errors
  BY LiveCode DEF CodeInv, CodesLive
<1>2. /\ code \in [Keys -> Code] /\ wrong \in [1 .. MaxCodes -> Nat]
      /\ code' = [code EXCEPT ![k] = [code[k] EXCEPT !.errors = code[k].errors + 1]]
      /\ wrong' = [wrong EXCEPT ![code[k].id] = wrong[code[k].id] + 1]
  BY DEF CodeInv, TypeOK, CountError
<1>3. /\ [code[k] EXCEPT !.errors = code[k].errors + 1] \in Code
      /\ [code[k] EXCEPT !.errors = code[k].errors + 1]
           = [id |-> code[k].id, errors |-> code[k].errors + 1, until |-> code[k].until]
  BY <1>1 DEF Code
<1> QED
  BY <1>1, <1>2, <1>3

\* What an accepted receipt leaves behind.
LEMMA Accepted ==
    ASSUME CodeInv, NEW r \in Requests, Accept(req[r].receipt)
    PROVE  /\ Has(r) /\ req[r].receipt.until > now
           /\ consumed' \subseteq Receipt /\ uses' \in [1 .. MaxCodes -> Nat]
           /\ consumed' = Kept \cup {req[r].receipt}
           /\ \A c \in Kept : c.id # req[r].receipt.id
           /\ uses'[req[r].receipt.id] = uses[req[r].receipt.id] + 1
           /\ \A i \in 1 .. MaxCodes : i # req[r].receipt.id => uses'[i] = uses[i]
<1>1. Has(r) /\ req[r].receipt.until > now /\ req[r].receipt.id \in 1 .. MaxCodes
      /\ req[r].receipt \in Receipt
  BY HeldReceipt DEF Accept
<1> QED
  BY <1>1 DEF Accept, Kept, CodeInv, TypeOK

\* A request is replaced by another.
LEMMA Becomes ==
    ASSUME CodeInv, NEW r \in Requests, NEW q \in Request, Become(r, q)
    PROVE  /\ req' \in [Requests -> Request]
           /\ req'[r] = q /\ \A s \in Requests : s # r => req'[s] = req[s]
  BY DEF Become, CodeInv, TypeOK

-----------------------------------------------------------------------------
(***************************************************************************)
(* Codes and receipts: steps                                               *)
(***************************************************************************)
\* A step that leaves codes and histories alone.
LEMMA CodesKept ==
    ASSUME CodeInv, UNCHANGED <<now, code, drawn, wrong, matched>>
    PROVE  CodesLive' /\ OneKey' /\ Histories'
  BY DEF CodeInv, CodesLive, OneKey, Histories, Live

\* A step that leaves the requests alone.
LEMMA ReceiptsKept ==
    ASSUME CodeInv, req' = req, matched \subseteq matched', now' \in Nat, now' >= now
    PROVE  Receipts'
<1>1. now \in Nat /\ \A r \in Requests : req[r].started \in Nat
  BY DEF CodeInv, TypeOK, Request
<1> QED
  BY <1>1 DEF CodeInv, Receipts, Has

\* What has to be known of the request that moves.
Fitting(q) ==
    /\ q.at \in {"idle", "verify"} => q.receipt = NoReceipt
    /\ q.at = "cleanup" => q.receipt # NoReceipt
    /\ q.at = "verify" => q.started <= now
    /\ \A k \in q.key : k[2] # "login"

\* A step of one request.
LEMMA ReceiptsMove ==
    ASSUME CodeInv, NEW r \in Requests, NEW q \in Request, Become(r, q), Fitting(q),
           q.receipt # NoReceipt => q.receipt.id \in matched',
           matched \subseteq matched', now' = now
    PROVE  Receipts'
<1>1. req'[r] = q /\ \A s \in Requests : s # r => req'[s] = req[s]
  BY Becomes
<1> QED
  BY <1>1 DEF CodeInv, Receipts, Has, Fitting

\* A request that ends.
LEMMA IdleFits == Fitting(Idle) /\ Idle \in Request /\ Idle.receipt = NoReceipt
  BY Values DEF Fitting

\* A request of the service that reads, or gives up.
LEMMA Reading ==
    ASSUME CodeInv, NEW r \in Requests,
           \/ \E m \in Mails : RegisterRead(r, m)
           \/ \E u \in Users : VerifyEmailRead(r, u)
           \/ Abandon(r)
    PROVE  CodeInv'
<1>0. /\ UNCHANGED <<now, code, cooldown, counter, drawn, consumed, settings, account, uses, wrong,
                     matched, proved>>
      /\ now \in Nat
  BY DEF RegisterRead, VerifyEmailRead, Abandon, CodeInv, TypeOK
<1>1. ASSUME NEW q \in Request, Become(r, q), Fitting(q), q.receipt = NoReceipt
      PROVE  CodeInv'
  <2>1. req' \in [Requests -> Request]
    BY <1>1, Becomes
  <2>2. TypeOK'
    BY <1>0, <2>1 DEF CodeInv, TypeOK
  <2>3. Receipts'
    BY <1>0, <1>1, ReceiptsMove
  <2> QED
    BY <1>0, <2>2, <2>3, CodesKept DEF CodeInv
<1>2. CASE \E m \in Mails : RegisterRead(r, m)
  <2>1. PICK m \in Mails : RegisterRead(r, m)
    BY <1>2
  <2> DEFINE q == [Idle EXCEPT !.at = IF settings.required THEN "verify" ELSE "commit",
                               !.key = {<<m, "register">>},
                               !.started = IF settings.required THEN now ELSE 0]
  <2>2. Become(r, q) /\ <<m, "register">> \in Keys
    BY <2>1 DEF RegisterRead, Keys
  <2>3. /\ q \in Request /\ q.key = {<<m, "register">>} /\ q.receipt = NoReceipt
        /\ q.at \in {"verify", "commit"} /\ (q.at = "verify" => q.started = now)
    BY <1>0, <2>2, Values DEF Request
  <2> HIDE DEF q
  <2>4. Fitting(q)
    BY <1>0, <2>3 DEF Fitting
  <2> QED
    BY <1>1, <2>2, <2>3, <2>4
<1>3. CASE \E u \in Users : VerifyEmailRead(r, u)
  <2>1. PICK u \in Users : VerifyEmailRead(r, u)
    BY <1>3
  <2> DEFINE key == account[u].mail \X {"verify_email"}
             q == [Idle EXCEPT !.at = "verify", !.user = {u}, !.started = now, !.key = key]
  <2>2. Become(r, q)
    BY <2>1 DEF VerifyEmailRead
  <2>3. key \subseteq Keys /\ \A k \in key : k[2] = "verify_email"
    <3>1. account[u].mail \subseteq Mails /\ "verify_email" \in Purposes
      BY <2>1 DEF VerifyEmailRead, CodeInv, TypeOK, Account
    <3> QED
      BY <3>1 DEF Keys
  <2> HIDE DEF key
  <2>4. q \in Request /\ q.at = "verify" /\ q.key = key /\ q.started = now /\ q.receipt = NoReceipt
    BY <1>0, <2>3, Values DEF Request
  <2> HIDE DEF q
  <2>5. Fitting(q)
    BY <1>0, <2>3, <2>4 DEF Fitting
  <2> QED
    BY <1>1, <2>2, <2>4, <2>5
<1>4. CASE Abandon(r)
  BY <1>1, <1>4, IdleFits DEF Abandon, Done
<1> QED
  BY <1>2, <1>3, <1>4

\* The transactions that accept a receipt.
LEMMA Committing ==
    ASSUME CodeInv, NEW r \in Requests, NEW u \in Users, RegisterCommit(r, u) \/ VerifyEmailCommit(r, u)
    PROVE  /\ CodeInv'
           /\ UNCHANGED <<now, code, drawn, wrong, matched>>
           /\ \/ UNCHANGED <<consumed, uses>>
              \/ Accept(req[r].receipt)
           /\ \A s \in Requests : req'[s].receipt = req[s].receipt \/ ~Has(s)'
<1>t. /\ req[r] \in Request /\ req[r].at = "commit"
      /\ UNCHANGED <<now, code, cooldown, counter, drawn, settings, wrong, matched>>
      /\ \A k \in req[r].key : k[1] \in Mails
  BY InKeys, HeldReceipt DEF RegisterCommit, VerifyEmailCommit, Request
<1> DEFINE q == [req[r] EXCEPT !.at = "cleanup"]
<1>q. q \in Request /\ q.receipt = req[r].receipt /\ q.key = req[r].key /\ q.at = "cleanup"
  BY <1>t DEF Request
<1>f. Has(r) => Fitting(q)
  BY <1>q DEF Fitting, Has, CodeInv, Receipts
<1>1. UNCHANGED <<consumed, uses>> \/ Accept(req[r].receipt)
  BY DEF RegisterCommit, VerifyEmailCommit
<1>2. (~Has(r) /\ Done(r)) \/ (Has(r) /\ Become(r, q))
  <2>1. CASE RegisterCommit(r, u)
    BY <2>1 DEF RegisterCommit, Has
  <2>2. CASE VerifyEmailCommit(r, u)
    BY <2>2, Accepted DEF VerifyEmailCommit
  <2> QED
    BY <2>1, <2>2
<1> HIDE DEF q
<1>3. /\ req' \in [Requests -> Request] /\ Receipts'
      /\ \A s \in Requests : req'[s].receipt = req[s].receipt \/ ~Has(s)'
  <2>1. CASE ~Has(r) /\ Done(r)
    BY <1>t, <2>1, Becomes, ReceiptsMove, IdleFits DEF Done, Has
  <2>2. CASE Has(r) /\ Become(r, q)
    <3>1. q.receipt # NoReceipt /\ q.receipt.id \in matched
      BY <1>q, <2>2, HeldReceipt DEF Has
    <3> QED
      BY <1>t, <1>q, <1>f, <2>2, <3>1, Becomes, ReceiptsMove
  <2> QED
    BY <1>2, <2>1, <2>2
<1>4. consumed' \subseteq Receipt /\ uses' \in [1 .. MaxCodes -> Nat]
  BY <1>1, Accepted DEF CodeInv, TypeOK
<1>5. account' \in [Users -> Account] /\ proved' \in [Users -> SUBSET Mails]
  <2>1. CASE RegisterCommit(r, u)
    <3>1. PICK k \in req[r].key, b \in BOOLEAN :
             /\ account' = [account EXCEPT ![u] = [exists |-> TRUE, mail |-> {k[1]}, verified |-> b]]
             /\ proved' = [proved EXCEPT ![u] = IF b THEN {k[1]} ELSE {}]
      <4>1. settings.required \in BOOLEAN
        BY DEF CodeInv, TypeOK, Policy
      <4> QED
        BY <2>1, <4>1 DEF RegisterCommit
    <3>2. [exists |-> TRUE, mail |-> {k[1]}, verified |-> b] \in Account
      BY <1>t DEF Account
    <3> QED
      BY <1>t, <3>1, <3>2 DEF CodeInv, TypeOK
  <2>2. CASE VerifyEmailCommit(r, u)
    <3>1. PICK k \in req[r].key : proved' = [proved EXCEPT ![u] = {k[1]}]
      BY <2>2 DEF VerifyEmailCommit
    <3>2. account' = [account EXCEPT ![u] = [account[u] EXCEPT !.verified = TRUE]]
          /\ account \in [Users -> Account]
      BY <2>2 DEF VerifyEmailCommit, CodeInv, TypeOK
    <3>3. [account[u] EXCEPT !.verified = TRUE] \in Account
      BY <3>2 DEF Account
    <3> QED
      BY <1>t, <3>1, <3>2, <3>3 DEF CodeInv, TypeOK
  <2> QED
    BY <2>1, <2>2
<1>6. TypeOK'
  BY <1>t, <1>3, <1>4, <1>5 DEF CodeInv, TypeOK
<1> QED
  BY <1>t, <1>1, <1>3, <1>6, CodesKept DEF CodeInv

\* Settings and accounts are of no concern to codes.
LEMMA Editing ==
    ASSUME CodeInv,
           \/ \E s \in Settings : PutSettings(s)
           \/ \E u \in Users, m \in Mails : CreateUser(u, m)
           \/ \E u \in Users, mail \in {{}} \cup {{m} : m \in Mails} : ChangeEmail(u, mail)
           \/ UNCHANGED vars
    PROVE  CodeInv' /\ UNCHANGED <<now, code, drawn, wrong, matched, consumed, uses, req>>
<1>0. /\ UNCHANGED <<now, code, cooldown, counter, drawn, consumed, req, uses, wrong, matched, proved>>
      /\ now \in Nat
  BY DEF PutSettings, CreateUser, ChangeEmail, CodeInv, TypeOK, vars
<1>1. settings' \in Policy
  BY EmailCodesAssumption DEF PutSettings, CreateUser, ChangeEmail, CodeInv, TypeOK, vars
<1>2. account' \in [Users -> Account]
  <2>1. CASE \E u \in Users, m \in Mails : CreateUser(u, m)
    <3>1. PICK u \in Users, m \in Mails :
             account' = [account EXCEPT ![u] = [exists |-> TRUE, mail |-> {m}, verified |-> FALSE]]
      BY <2>1 DEF CreateUser
    <3>2. [exists |-> TRUE, mail |-> {m}, verified |-> FALSE] \in Account
      BY DEF Account
    <3> QED
      BY <3>1, <3>2 DEF CodeInv, TypeOK
  <2>2. CASE \E u \in Users, mail \in {{}} \cup {{m} : m \in Mails} : ChangeEmail(u, mail)
    <3>1. PICK u \in Users, mail \in {{}} \cup {{m} : m \in Mails} :
             account' = [account EXCEPT ![u].mail = mail, ![u].verified = FALSE]
      BY <2>2 DEF ChangeEmail
    <3>2. mail \subseteq Mails
      OBVIOUS
    <3> QED
      BY <3>1, <3>2 DEF CodeInv, TypeOK, Account
  <2>3. CASE account' = account
    BY <2>3 DEF CodeInv, TypeOK
  <2> QED
    BY <2>1, <2>2, <2>3 DEF PutSettings, vars
<1>3. TypeOK'
  BY <1>0, <1>1, <1>2 DEF CodeInv, TypeOK
<1>4. Receipts'
  BY <1>0, ReceiptsKept
<1> QED
  BY <1>0, <1>3, <1>4, CodesKept DEF CodeInv

\* The counter of an address keeps its type.
LEMMA CountTypes ==
    ASSUME CodeInv, NEW m \in Mails
    PROVE  Counted(m) \in [Mails -> [n : Nat, until : Nat]]
<1>1. counter \in [Mails -> [n : Nat, until : Nat]] /\ now \in Nat
  BY DEF CodeInv, TypeOK
<1>2. [n |-> 1, until |-> now + Window] \in [n : Nat, until : Nat]
  BY <1>1, Numbers
<1>3. [n |-> counter[m].n + 1, until |-> counter[m].until] \in [n : Nat, until : Nat]
  BY <1>1
<1> QED
  BY <1>1, <1>2, <1>3 DEF Counted

\* issueScript.
LEMMA Issuing ==
    ASSUME CodeInv, NEW k \in Keys, Issue(k)
    PROVE  /\ CodeInv'
           /\ UNCHANGED <<now, consumed, uses, req>>
           /\ drawn' = drawn + 1 /\ drawn + 1 \in 1 .. MaxCodes
           /\ code'[k].id = drawn + 1
           /\ \A l \in Keys : l # k => code'[l] = code[l]
<1> DEFINE new == [id |-> drawn + 1, errors |-> 0, until |-> now + TTL]
<1>0. /\ now \in Nat /\ drawn \in Nat /\ drawn + 1 \in 1 .. MaxCodes
      /\ drawn' = drawn + 1
      /\ code' = [code EXCEPT ![k] = new]
      /\ cooldown' = [cooldown EXCEPT ![k] = now + Cooldown]
      /\ counter' = Counted(k[1])
      /\ UNCHANGED <<now, consumed, settings, account, req, uses, wrong, matched, proved>>
  BY Numbers DEF Issue, StoreCode, CodeInv, TypeOK
<1>1. /\ new \in Code /\ new.id = drawn + 1 /\ new.errors = 0 /\ new.until > now
  BY <1>0, Numbers DEF Code
<1> HIDE DEF new
<1>2. /\ code' \in [Keys -> Code] /\ code'[k] = new
      /\ \A l \in Keys : l # k => code'[l] = code[l]
  BY <1>0, <1>1 DEF CodeInv, TypeOK
<1>3. TypeOK'
  <2>1. counter' \in [Mails -> [n : Nat, until : Nat]]
    BY <1>0, InKeys, CountTypes
  <2>2. cooldown' \in [Keys -> Nat] /\ drawn' \in 0 .. MaxCodes
    BY <1>0, Numbers DEF CodeInv, TypeOK
  <2> QED
    BY <1>0, <1>2, <2>1, <2>2 DEF CodeInv, TypeOK
<1>4. \A l \in Keys : l # k /\ Live(l)' => Live(l) /\ code'[l].id \in 1 .. drawn
  BY <1>2, LiveCode DEF Live
<1>5. wrong[drawn + 1] = 0
  BY <1>0 DEF CodeInv, Histories
<1>6. CodesLive'
  BY <1>0, <1>1, <1>2, <1>4, <1>5 DEF CodeInv, CodesLive
<1>7. OneKey'
  BY <1>0, <1>1, <1>2, <1>4 DEF CodeInv, OneKey
<1>8. Histories'
  <2>1. \A i \in matched : i \in 1 .. MaxCodes
    BY DEF CodeInv, TypeOK
  <2> QED
    BY <1>0, <2>1, Numbers DEF CodeInv, Histories
<1>9. Receipts'
  BY <1>0, ReceiptsKept
<1> QED
  BY <1>0, <1>1, <1>2, <1>3, <1>6, <1>7, <1>8, <1>9 DEF CodeInv

\* issueScript refuses: only the counter moves.
LEMMA Refusing ==
    ASSUME CodeInv, NEW k \in Keys, IssueRefused(k)
    PROVE  CodeInv' /\ UNCHANGED <<now, code, drawn, wrong, matched, consumed, uses, req>>
<1>0. /\ UNCHANGED <<now, code, cooldown, drawn, consumed, settings, account, req, uses, wrong,
                     matched, proved>>
      /\ counter' = Counted(k[1]) /\ now \in Nat
  BY DEF IssueRefused, CodeInv, TypeOK
<1>1. TypeOK'
  BY <1>0, InKeys, CountTypes DEF CodeInv, TypeOK
<1> QED
  BY <1>0, <1>1, CodesKept, ReceiptsKept DEF CodeInv

\* A wrong code: the errors stay within their limit.
LEMMA Erring ==
    ASSUME CodeInv, NEW k \in Keys, Verifiable(k), CountError(k), UNCHANGED <<now, drawn, matched>>
    PROVE  /\ CodesLive' /\ OneKey' /\ Histories'
           /\ \A l \in Keys : /\ Live(l)' => Live(l)
                              /\ code'[l].id = code[l].id /\ code'[l].until = code[l].until
<1>0. /\ Live(k) /\ code[k].errors < MaxErrors
      /\ code[k].id \in 1 .. drawn /\ code[k].errors \in Nat /\ code[k].id \in 1 .. MaxCodes
      /\ code[k].until > now
  BY LiveCode DEF Verifiable, Live
<1>1. /\ code'[k] = [id |-> code[k].id, errors |-> code[k].errors + 1, until |-> code[k].until]
      /\ \A l \in Keys : l # k => code'[l] = code[l]
      /\ wrong'[code[k].id] = code[k].errors + 1
      /\ \A i \in 1 .. MaxCodes : i # code[k].id => wrong'[i] = wrong[i]
  BY <1>0, ErrorCounted
<1>2. /\ code'[k].id = code[k].id /\ code'[k].errors = code[k].errors + 1
      /\ code'[k].until = code[k].until
  BY <1>1
<1>3. \A l \in Keys : Live(l)' => Live(l) /\ code'[l].id = code[l].id /\ code'[l].until = code[l].until
  BY <1>0, <1>1, <1>2 DEF Live
<1>4. OneKey'
  BY <1>3 DEF CodeInv, OneKey
<1>5. \A l \in Keys : l # k /\ Live(l) => code[l].id # code[k].id /\ code[l].id \in 1 .. MaxCodes
  BY <1>0, LiveCode DEF CodeInv, OneKey
<1>6. CodesLive'
  <2> SUFFICES ASSUME NEW l \in Keys, Live(l)'
               PROVE  /\ code'[l].id \in 1 .. drawn /\ code'[l].until > now
                      /\ code'[l].errors = wrong'[code'[l].id]
    BY DEF CodesLive
  <2>1. CASE l = k
    BY <1>0, <1>1, <1>2, <2>1
  <2>2. CASE l # k
    BY <1>1, <1>3, <1>5, <2>2 DEF CodeInv, CodesLive
  <2> QED
    BY <2>1, <2>2
<1>7. Histories'
  <2>1. drawn \in Nat /\ drawn' = drawn /\ matched' = matched
    BY DEF CodeInv, TypeOK
  <2>2. ASSUME NEW i \in 1 .. MaxCodes
        PROVE  wrong'[i] <= MaxErrors /\ (i > drawn => wrong'[i] = 0)
    <3>1. wrong[i] <= MaxErrors /\ (i > drawn => wrong[i] = 0)
      BY DEF CodeInv, Histories
    <3> QED
      BY <1>0, <1>1, <2>1, <3>1, Numbers
  <2> QED
    BY <2>1, <2>2 DEF CodeInv, Histories
<1> QED
  BY <1>1, <1>2, <1>3, <1>4, <1>6, <1>7

\* A code disappears: consumed, or its time is over.
LEMMA Dropping ==
    ASSUME CodeInv, NEW D \in SUBSET Keys, now' \in Nat,
           \A k \in Keys : code'[k] = IF k \in D THEN NoCode ELSE code[k],
           \A k \in Keys \ D : Live(k) => code[k].until > now',
           drawn' = drawn, wrong' = wrong, matched' \subseteq 1 .. drawn
    PROVE  /\ CodesLive' /\ OneKey' /\ Histories'
           /\ \A k \in Keys : Live(k)' => k \notin D /\ Live(k) /\ code'[k] = code[k]
<1>1. \A k \in Keys : Live(k)' => k \notin D /\ Live(k) /\ code'[k] = code[k]
  BY DEF Live
<1>2. CodesLive' /\ OneKey'
  BY <1>1 DEF CodeInv, CodesLive, OneKey
<1>3. drawn \in Nat
  BY DEF CodeInv, TypeOK
<1>4. \A i \in matched' : i <= drawn
  BY <1>3
<1>5. \A i \in 1 .. MaxCodes : wrong[i] <= MaxErrors /\ (i > drawn => wrong[i] = 0)
  BY DEF CodeInv, Histories
<1> QED
  BY <1>1, <1>2, <1>4, <1>5 DEF Histories


\* What a reader of the histories needs most often.
LEMMA Drawn == CodeInv => drawn \in Nat /\ now \in Nat /\ matched \subseteq 1 .. drawn
  BY DEF CodeInv, TypeOK, Histories

\* VerifyAndConsume.
LEMMA LoggingIn ==
    ASSUME CodeInv, NEW k \in Keys, LoginCode(k)
    PROVE  /\ CodeInv'
           /\ UNCHANGED <<now, drawn, consumed, req>>
           /\ Live(k) /\ k[2] = "login"
           /\ \A l \in Keys : /\ Live(l)' => Live(l)
                              /\ Live(l)' => code'[l].id = code[l].id /\ code'[l].until = code[l].until
           /\ \/ uses' = uses
              \/ uses' = [uses EXCEPT ![code[k].id] = @ + 1] /\ ~Live(k)'
<1>0. /\ UNCHANGED <<now, cooldown, counter, drawn, consumed, settings, account, req, proved>>
      /\ Verifiable(k) /\ Live(k) /\ k[2] = "login"
      /\ code[k].id \in 1 .. MaxCodes /\ code[k].id \in 1 .. drawn
  BY LiveCode DEF LoginCode, Verifiable, Live
<1>1. CASE /\ code' = [code EXCEPT ![k] = NoCode]
           /\ uses' = [uses EXCEPT ![code[k].id] = @ + 1]
           /\ matched' = matched \cup {code[k].id}
           /\ UNCHANGED wrong
  <2>1. \A l \in Keys : code'[l] = IF l \in {k} THEN NoCode ELSE code[l]
    BY <1>1 DEF CodeInv, TypeOK
  <2>2. matched' \subseteq 1 .. drawn /\ matched \subseteq matched' /\ matched' \subseteq 1 .. MaxCodes
    BY <1>0, <1>1, Drawn DEF CodeInv, TypeOK
  <2>3. \A l \in Keys \ {k} : Live(l) => code[l].until > now'
    BY <1>0, LiveCode
  <2>4. /\ CodesLive' /\ OneKey' /\ Histories'
        /\ \A l \in Keys : Live(l)' => l \notin {k} /\ Live(l) /\ code'[l] = code[l]
    BY <1>0, <1>1, <2>1, <2>2, <2>3, Drawn, Dropping
  <2>5. TypeOK'
    <3>1. code' \in [Keys -> Code] /\ uses' \in [1 .. MaxCodes -> Nat]
      BY <1>0, <1>1, Values DEF CodeInv, TypeOK
    <3> QED
      BY <1>0, <1>1, <2>2, <3>1 DEF CodeInv, TypeOK
  <2>6. Receipts'
    BY <1>0, <2>2, Drawn, ReceiptsKept
  <2> QED
    BY <1>0, <1>1, <2>4, <2>5, <2>6 DEF CodeInv
<1>2. CASE CountError(k) /\ UNCHANGED <<uses, matched>>
  <2>1. TypeOK'
    BY <1>0, <1>2, ErrorCounted DEF CodeInv, TypeOK
  <2>2. Receipts'
    BY <1>0, <1>2, Drawn, ReceiptsKept
  <2> QED
    BY <1>0, <1>2, <2>1, <2>2, Erring DEF CodeInv
<1> QED
  BY <1>1, <1>2 DEF LoginCode

\* Store.Verify: a receipt, or an error.
LEMMA Verifying ==
    ASSUME CodeInv, NEW r \in Requests, Verify(r)
    PROVE  /\ CodeInv'
           /\ UNCHANGED <<now, drawn, consumed, uses>>
           /\ \A l \in Keys : /\ Live(l)' => Live(l)
                              /\ Live(l)' => code'[l].id = code[l].id /\ code'[l].until = code[l].until
           /\ \A s \in Requests : s # r => req'[s] = req[s]
           /\ \/ ~Has(r)'
              \/ \E k \in Keys :
                   /\ k[2] # "login" /\ Live(k) /\ code' = code
                   /\ req'[r].receipt.id = code[k].id
                   /\ req'[r].receipt.until \in (code[k].until - MaxLatency) .. code[k].until
<1>0. /\ UNCHANGED <<now, cooldown, counter, drawn, consumed, settings, account, uses, proved>>
      /\ req[r] \in Request /\ req[r].at = "verify" /\ req[r].started \in Nat
      /\ req[r].key \subseteq Keys
      /\ now - req[r].started <= MaxLatency
  BY HeldReceipt DEF Verify, Request
<1>1. req[r].started <= now /\ \A k \in req[r].key : k[2] # "login"
  BY <1>0 DEF CodeInv, Receipts
<1>2. PICK k \in req[r].key :
         /\ Verifiable(k)
         /\ \/ /\ Become(r, [req[r] EXCEPT !.at = "commit", !.started = 0,
                   !.receipt = [id |-> code[k].id, until |-> ReceiptUntil(r, k)]])
               /\ matched' = matched \cup {code[k].id}
               /\ UNCHANGED <<code, wrong>>
            \/ CountError(k) /\ Done(r) /\ UNCHANGED matched
  BY DEF Verify
<1>3. /\ k \in Keys /\ k[2] # "login" /\ Live(k)
      /\ code[k].id \in 1 .. MaxCodes /\ code[k].id \in 1 .. drawn /\ code[k].id # 0
      /\ code[k].until \in Nat /\ code[k].until > now
  BY <1>0, <1>1, <1>2, LiveCode DEF Verifiable, Live
<1> DEFINE t == [id |-> code[k].id, until |-> ReceiptUntil(r, k)]
           q == [req[r] EXCEPT !.at = "commit", !.started = 0, !.receipt = t]
<1>4. CASE /\ Become(r, q)
           /\ matched' = matched \cup {code[k].id}
           /\ UNCHANGED <<code, wrong>>
  <2>1. /\ ReceiptUntil(r, k) \in Nat
        /\ ReceiptUntil(r, k) \in (code[k].until - MaxLatency) .. code[k].until
    BY <1>0, <1>1, <1>3, Drawn, Numbers DEF ReceiptUntil
  <2>2. t \in Receipt /\ t # NoReceipt /\ t.id = code[k].id /\ t.until = ReceiptUntil(r, k)
    BY <1>3, <2>1 DEF Receipt, NoReceipt
  <2> HIDE DEF t
  <2>3. q \in Request /\ q.at = "commit" /\ q.receipt = t /\ q.key = req[r].key
    BY <1>0, <2>2 DEF Request
  <2> HIDE DEF q
  <2>4. matched' \subseteq 1 .. drawn /\ matched \subseteq matched' /\ matched' \subseteq 1 .. MaxCodes
    BY <1>3, <1>4, Drawn DEF CodeInv, TypeOK
  <2>5. CodesLive' /\ OneKey' /\ Histories'
    <3>1. \A l \in Keys : code'[l] = IF l \in {} THEN NoCode ELSE code[l]
      BY <1>4
    <3>2. \A l \in Keys \ {} : Live(l) => code[l].until > now'
      BY <1>0, LiveCode
    <3>3. {} \in SUBSET Keys /\ now' \in Nat /\ drawn' = drawn /\ wrong' = wrong
      BY <1>0, <1>4, Drawn
    <3> QED
      BY <2>4, <3>1, <3>2, <3>3, Dropping
  <2>6. Fitting(q)
    BY <1>1, <2>3 DEF Fitting
  <2>7. Receipts'
    BY <1>0, <1>4, <2>2, <2>3, <2>4, <2>6, ReceiptsMove
  <2>8. req' \in [Requests -> Request] /\ req'[r] = q /\ \A s \in Requests : s # r => req'[s] = req[s]
    BY <1>4, <2>3, Becomes
  <2>9. TypeOK'
    BY <1>0, <1>4, <2>4, <2>8 DEF CodeInv, TypeOK
  <2> QED
    BY <1>0, <1>3, <1>4, <2>1, <2>2, <2>3, <2>5, <2>7, <2>8, <2>9 DEF CodeInv, Live
<1>5. CASE CountError(k) /\ Done(r) /\ UNCHANGED matched
  <2>1. req' \in [Requests -> Request] /\ req'[r] = Idle /\ \A s \in Requests : s # r => req'[s] = req[s]
    BY <1>5, Values, Becomes DEF Done
  <2>2. Receipts'
    BY <1>0, <1>5, IdleFits, ReceiptsMove DEF Done
  <2>3. TypeOK'
    BY <1>0, <1>3, <1>5, <2>1, ErrorCounted DEF CodeInv, TypeOK
  <2>4. ~Has(r)'
    BY <2>1, Values DEF Has
  <2> QED
    BY <1>0, <1>2, <1>3, <1>5, <2>1, <2>2, <2>3, <2>4, Erring DEF CodeInv
<1> QED
  BY <1>2, <1>4, <1>5

\* Store.Consume.
LEMMA Cleaning ==
    ASSUME CodeInv, NEW r \in Requests, Cleanup(r)
    PROVE  /\ CodeInv'
           /\ UNCHANGED <<now, drawn, consumed, uses, matched>>
           /\ \A l \in Keys : Live(l)' => Live(l) /\ code'[l] = code[l]
           /\ \A l \in Keys : code'[l] = code[l] \/ code[l].id \in matched
           /\ \A s \in Requests : req'[s].receipt = req[s].receipt \/ ~Has(s)'
<1>0. /\ UNCHANGED <<now, cooldown, counter, drawn, consumed, settings, account, uses, wrong,
                     matched, proved>>
      /\ Done(r) /\ req[r].at = "cleanup" /\ req[r].key \subseteq Keys
  BY HeldReceipt DEF Cleanup, Request
<1>1. PICK k \in req[r].key : Consume(k, req[r].receipt.id)
  BY DEF Cleanup
<1>2. req[r].receipt.id \in matched
  BY <1>0 DEF CodeInv, Receipts
<1> DEFINE D == {l \in Keys : l = k /\ code[k].id = req[r].receipt.id}
<1>3. \A l \in Keys : code'[l] = IF l \in D THEN NoCode ELSE code[l]
  BY <1>0, <1>1 DEF Consume, CodeInv, TypeOK
<1>4. \A l \in Keys \ D : Live(l) => code[l].until > now'
  BY <1>0, LiveCode
<1>5. /\ CodesLive' /\ OneKey' /\ Histories'
      /\ \A l \in Keys : Live(l)' => l \notin D /\ Live(l) /\ code'[l] = code[l]
  <2>1. D \in SUBSET Keys /\ now' \in Nat /\ drawn' = drawn /\ wrong' = wrong /\ matched' \subseteq 1 .. drawn
    BY <1>0, Drawn
  <2> HIDE DEF D
  <2> QED
    BY <1>3, <1>4, <2>1, Dropping
<1>6. req' \in [Requests -> Request] /\ req'[r] = Idle /\ \A s \in Requests : s # r => req'[s] = req[s]
  BY <1>0, Values, Becomes DEF Done
<1>7. Receipts'
  BY <1>0, IdleFits, ReceiptsMove DEF Done
<1>8. TypeOK'
  <2>1. code' \in [Keys -> Code]
    BY <1>1, Values DEF Consume, CodeInv, TypeOK
  <2> QED
    BY <1>0, <1>6, <2>1 DEF CodeInv, TypeOK
<1>9. \A l \in Keys : code'[l] = code[l] \/ code[l].id \in matched
  BY <1>2, <1>3
<1> QED
  BY <1>0, <1>5, <1>6, <1>7, <1>8, <1>9, Values DEF CodeInv, Has

\* Time passes, Redis drops what is over.
LEMMA Ticking ==
    ASSUME CodeInv, Tick
    PROVE  /\ CodeInv' /\ now' = now + 1 /\ now \in Nat
           /\ UNCHANGED <<drawn, consumed, uses, matched, req, wrong, account, proved>>
           /\ \A l \in Keys : Live(l)' => Live(l) /\ code'[l] = code[l]
<1>0. /\ now \in Nat /\ now' = now + 1 /\ now' \in Nat
      /\ UNCHANGED <<drawn, consumed, settings, account, req, uses, wrong, matched, proved>>
  BY Drawn DEF Tick
<1> DEFINE D == {l \in Keys : ~(code[l].until > now')}
<1>1. \A l \in Keys : code'[l] = IF l \in D THEN NoCode ELSE code[l]
  BY DEF Tick
<1>2. \A l \in Keys \ D : Live(l) => code[l].until > now'
  OBVIOUS
<1>3. /\ CodesLive' /\ OneKey' /\ Histories'
      /\ \A l \in Keys : Live(l)' => l \notin D /\ Live(l) /\ code'[l] = code[l]
  <2>1. D \in SUBSET Keys /\ drawn' = drawn /\ wrong' = wrong /\ matched' \subseteq 1 .. drawn
    BY <1>0, Drawn
  <2> HIDE DEF D
  <2> QED
    BY <1>0, <1>1, <1>2, <2>1, Dropping
<1>4. Receipts'
  BY <1>0, ReceiptsKept
<1>5. TypeOK'
  <2>1. code' \in [Keys -> Code]
    BY Values DEF Tick, CodeInv, TypeOK
  <2>2. cooldown' \in [Keys -> Nat]
    BY DEF Tick, CodeInv, TypeOK
  <2>3. counter' \in [Mails -> [n : Nat, until : Nat]]
    BY DEF Tick, CodeInv, TypeOK, NoCount
  <2> QED
    BY <1>0, <2>1, <2>2, <2>3 DEF CodeInv, TypeOK
<1> QED
  BY <1>0, <1>3, <1>4, <1>5 DEF CodeInv

(***************************************************************************)
(* The theorems                                                            *)
(***************************************************************************)
\* A step is one of these.
LEMMA Steps ==
    ASSUME [Next]_vars
    PROVE  \/ \E k \in Keys : Issue(k) \/ IssueRefused(k) \/ LoginCode(k)
           \/ \E r \in Requests :
                \/ \E m \in Mails : RegisterRead(r, m)
                \/ \E u \in Users : VerifyEmailRead(r, u)
                \/ Abandon(r)
           \/ \E r \in Requests, u \in Users : RegisterCommit(r, u) \/ VerifyEmailCommit(r, u)
           \/ \E r \in Requests : Verify(r) \/ Cleanup(r)
           \/ \/ \E s \in Settings : PutSettings(s)
              \/ \E u \in Users, m \in Mails : CreateUser(u, m)
              \/ \E u \in Users, mail \in {{}} \cup {{m} : m \in Mails} : ChangeEmail(u, mail)
              \/ UNCHANGED vars
           \/ Tick
  BY DEF Next

\* The invariant holds initially.
LEMMA CodeInit == Init => CodeInv
<1> SUFFICES ASSUME Init PROVE CodeInv
  OBVIOUS
<1>1. TypeOK
  <2>1. /\ code \in [Keys -> Code] /\ cooldown \in [Keys -> Nat]
        /\ counter \in [Mails -> [n : Nat, until : Nat]]
    BY Values DEF Init, NoCount
  <2>2. account \in [Users -> Account]
    BY DEF Init, NoAccount, Account
  <2>3. req \in [Requests -> Request]
    BY Values DEF Init
  <2>4. settings \in Policy /\ drawn \in 0 .. MaxCodes
    BY EmailCodesAssumption, Numbers DEF Init
  <2> QED
    BY <2>1, <2>2, <2>3, <2>4 DEF Init, TypeOK
<1>2. CodesLive /\ OneKey
  BY DEF Init, CodesLive, OneKey, Live
<1>3. Histories
  BY Numbers DEF Init, Histories
<1>4. Receipts
  BY Values DEF Init, Receipts, Has
<1> QED
  BY <1>1, <1>2, <1>3, <1>4 DEF CodeInv

\* Every step keeps the invariant.
LEMMA CodeStep == CodeInv /\ [Next]_vars => CodeInv'
  BY Steps, Issuing, Refusing, LoggingIn, Reading, Committing, Verifying, Cleaning, Editing, Ticking

\* The invariant holds in every state.
LEMMA CodesInvariant == Spec => []CodeInv
  BY CodeInit, CodeStep, PTL DEF Spec

\* The codes, receipts, histories and accounts keep their types.
THEOREM TypeCorrect == Spec => []TypeOK
<1>1. CodeInv => TypeOK
  BY DEF CodeInv
<1> QED
  BY <1>1, CodesInvariant, PTL

\* A verified account holds the address whose code verified it.
LEMMA MailboxStep == CodeInv /\ VerifiedMailbox /\ [Next]_vars => VerifiedMailbox'
<1> SUFFICES ASSUME CodeInv, VerifiedMailbox, [Next]_vars PROVE VerifiedMailbox'
  OBVIOUS
<1>0. account \in [Users -> Account] /\ proved \in [Users -> SUBSET Mails]
  BY DEF CodeInv, TypeOK
<1>1. CASE UNCHANGED <<account, proved>>
  BY <1>1 DEF VerifiedMailbox
<1>2. CASE \E r \in Requests, u \in Users : RegisterCommit(r, u)
  <2>1. PICK r \in Requests, u \in Users : RegisterCommit(r, u)
    BY <1>2
  <2>2. PICK k \in req[r].key, b \in BOOLEAN :
           /\ account' = [account EXCEPT ![u] = [exists |-> TRUE, mail |-> {k[1]}, verified |-> b]]
           /\ proved' = [proved EXCEPT ![u] = IF b THEN {k[1]} ELSE {}]
    <3>1. settings.required \in BOOLEAN
      BY DEF CodeInv, TypeOK, Policy
    <3> QED
      BY <2>1, <3>1 DEF RegisterCommit
  <2> QED
    BY <1>0, <2>2 DEF VerifiedMailbox
<1>3. CASE \E r \in Requests, u \in Users : VerifyEmailCommit(r, u)
  <2>1. PICK r \in Requests, u \in Users : VerifyEmailCommit(r, u)
    BY <1>3
  <2>2. PICK k \in req[r].key : account[u].mail = {k[1]} /\ proved' = [proved EXCEPT ![u] = {k[1]}]
    BY <2>1 DEF VerifyEmailCommit, SameMail
  <2>3. account' = [account EXCEPT ![u] = [account[u] EXCEPT !.verified = TRUE]]
    BY <2>1 DEF VerifyEmailCommit
  <2>4. account'[u].mail = account[u].mail /\ \A v \in Users : v # u => account'[v] = account[v]
    BY <1>0, <2>3 DEF Account
  <2> QED
    BY <1>0, <2>2, <2>4 DEF VerifiedMailbox
<1>4. CASE \E u \in Users, m \in Mails : CreateUser(u, m)
  BY <1>0, <1>4 DEF CreateUser, VerifiedMailbox
<1>5. CASE \E u \in Users, mail \in {{}} \cup {{m} : m \in Mails} : ChangeEmail(u, mail)
  <2>1. PICK u \in Users, mail \in {{}} \cup {{m} : m \in Mails} : ChangeEmail(u, mail)
    BY <1>5
  <2>2. ~account'[u].verified /\ proved' = proved /\ \A v \in Users : v # u => account'[v] = account[v]
    BY <1>0, <2>1 DEF ChangeEmail, Account
  <2> QED
    BY <2>2 DEF VerifiedMailbox
<1> QED
  BY <1>1, <1>2, <1>3, <1>4, <1>5, Steps
     DEF Issue, IssueRefused, LoginCode, RegisterRead, VerifyEmailRead, Abandon, Verify, Cleanup,
         PutSettings, Tick, vars

\* A verified account holds the address whose code verified it: VerifyEmail
\* compares the address again in its transaction, UpdateUser clears the mark.
THEOREM MailboxesVerified == Spec => []VerifiedMailbox
<1>1. Init => VerifiedMailbox
  BY DEF Init, VerifiedMailbox, NoAccount
<1> QED
  BY <1>1, CodesInvariant, MailboxStep, PTL DEF Spec

\* A registration obeys the settings that its transaction has locked.
THEOREM RegistrationsObey == Spec => RegistrationPolicy
<1> DEFINE Obeys(r, u) ==
       /\ req[r].at = "commit" /\ req'[r] # req[r]
       /\ ~account[u].exists /\ account'[u].exists
       => /\ settings.enabled
          /\ account'[u].mail \subseteq settings.allowed
          /\ settings.required => account'[u].verified
<1>1. ASSUME CodeInv, [Next]_vars, NEW r \in Requests, NEW u \in Users
      PROVE  Obeys(r, u)
  <2>0. account \in [Users -> Account]
    BY <1>1 DEF CodeInv, TypeOK
  <2>1. CASE UNCHANGED account \/ UNCHANGED req
    BY <2>1
  <2>2. CASE \E s \in Requests, v \in Users : RegisterCommit(s, v)
    <3>1. PICK s \in Requests, v \in Users : RegisterCommit(s, v)
      BY <2>2
    <3>2. PICK k \in req[s].key :
             /\ Registrable(k[1], req[s].receipt)
             /\ account' = [account EXCEPT ![v] =
                  [exists |-> TRUE, mail |-> {k[1]},
                   verified |-> settings.required /\ req[s].receipt # NoReceipt]]
      BY <3>1 DEF RegisterCommit
    <3>3. /\ account'[v].mail = {k[1]}
          /\ account'[v].verified = (settings.required /\ req[s].receipt # NoReceipt)
          /\ v # u => account'[u] = account[u]
      BY <2>0, <3>2
    <3> QED
      BY <3>2, <3>3 DEF Registrable, MayRegister
  <2>3. CASE \E s \in Requests, v \in Users : VerifyEmailCommit(s, v)
    <3>1. PICK s \in Requests, v \in Users : VerifyEmailCommit(s, v)
      BY <2>3
    <3>2. account' = [account EXCEPT ![v] = [account[v] EXCEPT !.verified = TRUE]]
      BY <3>1 DEF VerifyEmailCommit
    <3>3. account'[u].exists = account[u].exists
      BY <2>0, <3>2 DEF Account
    <3> QED
      BY <3>3
  <2> QED
    BY <1>1, <2>1, <2>2, <2>3, Steps
       DEF Issue, IssueRefused, LoginCode, RegisterRead, VerifyEmailRead, Abandon, Verify, Cleanup,
           PutSettings, CreateUser, ChangeEmail, Tick, vars
<1>2. CodeInv /\ [Next]_vars
        => [\A r \in Requests, u \in Users : Obeys(r, u)]_vars
  BY <1>1
<1> QED
  BY <1>2, CodesInvariant, PTL DEF Spec, RegistrationPolicy

\* What disappears from Redis before its time was presented: cleaning up
\* compares the id of the receipt with that of the code.
THEOREM NewerCodesSpared == Spec => NewerCodeSpared
<1> DEFINE Spared(k) ==
       code[k] # NoCode /\ now' < code[k].until /\ code'[k] = NoCode => code[k].id \in matched'
<1>1. ASSUME CodeInv, [Next]_vars, NEW k \in Keys
      PROVE  Spared(k)
  <2>0. CASE UNCHANGED code
    BY <2>0
  <2>1. CASE \E l \in Keys : Issue(l)
    <3>1. PICK l \in Keys : Issue(l)
      BY <2>1
    <3>2. code'[l].id # 0 /\ (l # k => code'[k] = code[k])
      BY <1>1, <3>1, Issuing, Drawn
    <3> QED
      BY <3>2, Values
  <2>2. ASSUME NEW l \in Keys, Verifiable(l), CountError(l)
        PROVE  code[k] # NoCode => code'[k] # NoCode
    <3>0. code'[l] = [id |-> code[l].id, errors |-> code[l].errors + 1, until |-> code[l].until]
      BY <1>1, <2>2, ErrorCounted DEF Verifiable, Live
    <3>1. code'[l].id = code[l].id
      BY <3>0
    <3>2. code[l].id # 0
      BY <1>1, <2>2, LiveCode, Drawn DEF Verifiable, Live
    <3>3. l # k => code'[k] = code[k]
      BY <1>1, <2>2, ErrorCounted DEF Verifiable, Live
    <3> QED
      BY <3>1, <3>2, <3>3, Values
  <2>3. CASE \E l \in Keys : LoginCode(l)
    <3>1. PICK l \in Keys : LoginCode(l)
      BY <2>3
    <3>2. CASE code' = [code EXCEPT ![l] = NoCode] /\ matched' = matched \cup {code[l].id}
      BY <1>1, <3>2 DEF CodeInv, TypeOK
    <3> QED
      BY <2>2, <3>1, <3>2 DEF LoginCode
  <2>4. CASE \E r \in Requests : Verify(r)
    <3>1. PICK r \in Requests : Verify(r)
      BY <2>4
    <3>2. req[r].key \subseteq Keys
      BY <1>1, HeldReceipt DEF Request
    <3> QED
      BY <2>0, <2>2, <3>1, <3>2 DEF Verify
  <2>5. CASE \E r \in Requests : Cleanup(r)
    BY <1>1, <2>5, Cleaning
  <2>6. CASE Tick
    BY <2>6 DEF Tick
  <2> QED
    BY <1>1, <2>0, <2>1, <2>3, <2>4, <2>5, <2>6, Steps
       DEF IssueRefused, RegisterRead, VerifyEmailRead, Abandon, RegisterCommit, VerifyEmailCommit,
           PutSettings, CreateUser, ChangeEmail, vars
<1>2. CodeInv /\ [Next]_vars => [\A k \in Keys : Spared(k)]_vars
  BY <1>1
<1> QED
  BY <1>2, CodesInvariant, PTL DEF Spec, NewerCodeSpared

\* A code is verified only while fewer than MaxErrors wrong ones were tried.
THEOREM GuessesStayBounded == Spec => GuessesBounded
<1> DEFINE Bounded(i) ==
       /\ wrong'[i] <= MaxErrors
       /\ i \in matched' \ matched => wrong[i] < MaxErrors
<1>1. ASSUME CodeInv, [Next]_vars, NEW i \in 1 .. MaxCodes
      PROVE  Bounded(i)
  <2>1. wrong'[i] <= MaxErrors
    BY <1>1, CodeStep DEF CodeInv, Histories
  <2>2. ASSUME NEW k \in Keys, Verifiable(k), matched' = matched \cup {code[k].id} \/ matched' = matched
        PROVE  i \in matched' \ matched => wrong[i] < MaxErrors
    BY <1>1, <2>2 DEF Verifiable, CodeInv, CodesLive, Live
  <2>3. CASE \E k \in Keys : LoginCode(k)
    BY <2>1, <2>2, <2>3 DEF LoginCode
  <2>4. CASE \E r \in Requests : Verify(r)
    <3>1. PICK r \in Requests : Verify(r)
      BY <2>4
    <3>2. req[r].key \subseteq Keys
      BY <1>1, HeldReceipt DEF Request
    <3> QED
      BY <2>1, <2>2, <3>1, <3>2 DEF Verify
  <2>5. CASE UNCHANGED matched
    BY <2>1, <2>5
  <2> QED
    BY <1>1, <2>3, <2>4, <2>5, Steps
       DEF Issue, IssueRefused, RegisterRead, VerifyEmailRead, Abandon, RegisterCommit,
           VerifyEmailCommit, Cleanup, PutSettings, CreateUser, ChangeEmail, Tick, vars
<1>2. CodeInv /\ [Next]_vars => [\A i \in 1 .. MaxCodes : Bounded(i)]_vars
  BY <1>1
<1> QED
  BY <1>2, CodesInvariant, PTL DEF Spec, GuessesBounded

-----------------------------------------------------------------------------
(***************************************************************************)
(* A code is accepted again late or never                                  *)
(***************************************************************************)
\* A request keeps its receipt or gives it up.
Keeps(s) == req'[s].receipt = req[s].receipt \/ ~Has(s)'

\* What a request has afterwards it had before.
LEMMA StillHeld ==
    ASSUME CodeInv, CodeInv', NEW s \in Requests, Keeps(s)
    PROVE  req'[s].receipt.id # 0 =>
             Has(s) /\ Has(s)' /\ req'[s].receipt = req[s].receipt
<1>1. ~Has(s)' => req'[s].receipt.id = 0
  BY Values DEF Has
<1> QED
  BY <1>1, Values DEF Keeps, Has

\* A code that remains is one that was there.
Remains(l) == Live(l)' => /\ Live(l)
                          /\ code'[l].id = code[l].id /\ code'[l].until = code[l].until

\* 0 is the id of no code.
LEMMA IdsPositive ==
    ASSUME CodeInv
    PROVE  /\ \A k \in Keys : Live(k) => code[k].id # 0
           /\ \A r \in Requests : Has(r) => req[r].receipt.id # 0
<1>1. \A k \in Keys : Live(k) => code[k].id # 0
  BY LiveCode, Drawn
<1>2. \A r \in Requests : Has(r) => req[r].receipt.id # 0
  BY HeldReceipt, Drawn
<1> QED
  BY <1>1, <1>2

\* The same, after a step.
LEMMA IdsPositiveAfter ==
    ASSUME CodeInv'
    PROVE  /\ \A k \in Keys : Live(k)' => code'[k].id # 0
           /\ \A r \in Requests : Has(r)' => req'[r].receipt.id # 0
<1>1. drawn' \in Nat /\ matched' \subseteq 1 .. MaxCodes
  BY DEF CodeInv, TypeOK
<1>2. \A k \in Keys : Live(k)' => code'[k].id \in 1 .. drawn'
  BY DEF CodeInv, CodesLive
<1>3. \A r \in Requests : Has(r)' => req'[r].receipt.id \in matched'
  BY DEF CodeInv, Receipts
<1> QED
  BY <1>1, <1>2, <1>3, Numbers

\* Nothing is accepted, nothing is new.
LEMMA OnceKept ==
    ASSUME CodeInv, CodeInv', Once, UNCHANGED <<drawn, consumed, uses>>, now' >= now,
           \A l \in Keys : Remains(l),
           \A s \in Requests : Keeps(s)
    PROVE  Once'
<1>n. now \in Nat /\ now' \in Nat /\ \A r \in Requests : req[r].receipt.until \in Nat
  BY HeldReceipt DEF CodeInv, TypeOK
<1>h. \A s \in Requests : req'[s].receipt.id # 0 => Has(s) /\ Has(s)' /\ req'[s].receipt = req[s].receipt
  BY StillHeld
<1>1. ASSUME NEW k \in Keys, Live(k)'
      PROVE  OnceCode(k)'
  <2>1. Live(k) /\ code'[k].id = code[k].id /\ code'[k].until = code[k].until /\ code[k].id # 0
    BY <1>1, IdsPositive DEF Remains
  <2>2. OnceCode(k)
    BY <2>1 DEF Once
  <2> QED
    BY <1>n, <1>h, <2>1, <2>2, LiveCode, Numbers DEF OnceCode, Recorded
<1>2. ASSUME NEW r \in Requests, Has(r)'
      PROVE  OnceReceipt(r)'
  <2>1. Has(r) /\ req'[r].receipt = req[r].receipt /\ req[r].receipt.id # 0
    BY <1>2, <1>h, IdsPositiveAfter
  <2>2. OnceReceipt(r)
    BY <2>1 DEF Once
  <2> QED
    BY <1>n, <1>h, <2>1, <2>2, Numbers DEF OnceReceipt, Recorded
<1> QED
  BY <1>1, <1>2 DEF Once

\* A new code was neither used nor presented.
LEMMA OnceIssued ==
    ASSUME CodeInv, Once, NEW k \in Keys, Issue(k)
    PROVE  Once'
<1>0. /\ UNCHANGED <<now, consumed, uses, req>>
      /\ drawn' = drawn + 1 /\ drawn + 1 \in 1 .. MaxCodes /\ code'[k].id = drawn + 1
      /\ drawn \in Nat
      /\ \A l \in Keys : l # k => code'[l] = code[l]
  BY Issuing, Drawn
<1>1. \A r \in Requests : req[r].receipt.id # drawn + 1
  <2> SUFFICES ASSUME NEW r \in Requests PROVE req[r].receipt.id # drawn + 1
    OBVIOUS
  <2>1. req[r].receipt.id = 0 \/ req[r].receipt.id \in 1 .. drawn
    BY HeldReceipt
  <2> QED
    BY <1>0, <2>1
<1>2. uses[drawn + 1] = 0
  BY <1>0 DEF Once
<1>3. OnceCode(k)'
  BY <1>0, <1>1, <1>2 DEF OnceCode
<1>4. ASSUME NEW l \in Keys, l # k, Live(l)'
      PROVE  OnceCode(l)'
  <2>1. Live(l) /\ code'[l] = code[l]
    BY <1>0, <1>4 DEF Live
  <2>2. OnceCode(l)
    BY <2>1 DEF Once
  <2> QED
    BY <1>0, <2>1, <2>2 DEF OnceCode, Recorded
<1>5. \A i \in 1 .. MaxCodes : i > drawn' => uses'[i] = 0
  BY <1>0 DEF Once
<1>6. \A r \in Requests : Has(r)' => OnceReceipt(r)'
  BY <1>0 DEF Once, Has, OnceReceipt, Recorded
<1> QED
  BY <1>3, <1>4, <1>5, <1>6 DEF Once

\* Login uses the code and deletes it in one script; it leaves no receipt.
LEMMA OnceLogin ==
    ASSUME CodeInv, Once, NEW k \in Keys, LoginCode(k)
    PROVE  Once'
<1>0. /\ CodeInv' /\ UNCHANGED <<now, drawn, consumed, req>> /\ now \in Nat
      /\ Live(k) /\ k[2] = "login"
      /\ \A l \in Keys : Remains(l)
      /\ uses' = uses \/ (uses' = [uses EXCEPT ![code[k].id] = @ + 1] /\ ~Live(k)')
  BY LoggingIn, Drawn DEF Remains
<1>1. CASE uses' = uses
  BY <1>0, <1>1, OnceKept DEF Keeps
<1>2. CASE uses' = [uses EXCEPT ![code[k].id] = @ + 1] /\ ~Live(k)'
  <2>1. /\ OnceCode(k) /\ code[k].id \in 1 .. MaxCodes /\ code[k].id \in 1 .. drawn /\ drawn \in Nat
        /\ uses \in [1 .. MaxCodes -> Nat]
    BY <1>0, LiveCode, Drawn DEF Once, CodeInv, TypeOK
  <2>2. uses[code[k].id] = 0 /\ \A r \in Requests : req[r].receipt.id # code[k].id
    BY <1>0, <2>1 DEF OnceCode
  <2>3. \A i \in 1 .. MaxCodes : uses'[i] = IF i = code[k].id THEN 1 ELSE uses[i]
    BY <1>2, <2>1, <2>2
  <2>4. \A i \in 1 .. MaxCodes : i > drawn' => uses'[i] = 0
    BY <1>0, <2>1, <2>3 DEF Once
  <2>5. ASSUME NEW l \in Keys, Live(l)'
        PROVE  OnceCode(l)'
    <3>1. /\ Live(l) /\ code'[l].id = code[l].id /\ code'[l].until = code[l].until
          /\ l # k /\ code[l].id # code[k].id /\ code[l].id \in 1 .. MaxCodes
      BY <1>0, <1>2, <2>5, LiveCode DEF Remains, CodeInv, OneKey
    <3>2. OnceCode(l) /\ uses'[code[l].id] = uses[code[l].id]
      BY <2>3, <3>1 DEF Once
    <3> QED
      BY <1>0, <3>1, <3>2 DEF OnceCode, Recorded
  <2>6. ASSUME NEW r \in Requests, Has(r)'
        PROVE  OnceReceipt(r)'
    <3>1. Has(r) /\ req' = req
      BY <1>0, <2>6 DEF Has
    <3>2. req[r].receipt.id \in 1 .. MaxCodes /\ OnceReceipt(r)
      BY <3>1, HeldReceipt DEF Once
    <3>3. uses'[req[r].receipt.id] = uses[req[r].receipt.id]
      BY <2>2, <2>3, <3>2
    <3> QED
      BY <1>0, <3>1, <3>2, <3>3 DEF OnceReceipt, Recorded
  <2> QED
    BY <2>4, <2>5, <2>6 DEF Once
<1> QED
  BY <1>0, <1>1, <1>2

\* Two receipts of a code expire within MaxLatency of each other.
LEMMA OnceVerified ==
    ASSUME CodeInv, Once, NEW r \in Requests, Verify(r)
    PROVE  Once'
<1>0. /\ CodeInv' /\ UNCHANGED <<now, drawn, consumed, uses>> /\ now \in Nat
      /\ \A l \in Keys : Remains(l)
      /\ \A s \in Requests : s # r => req'[s] = req[s]
      /\ \/ ~Has(r)'
         \/ \E k \in Keys :
              /\ k[2] # "login" /\ Live(k) /\ code' = code
              /\ req'[r].receipt.id = code[k].id
              /\ req'[r].receipt.until \in (code[k].until - MaxLatency) .. code[k].until
  BY Verifying, Drawn DEF Remains
<1>1. CASE ~Has(r)'
  BY <1>0, <1>1, OnceKept DEF Keeps
<1>2. CASE Has(r)'
  <2>1. PICK k \in Keys :
           /\ k[2] # "login" /\ Live(k) /\ code' = code
           /\ req'[r].receipt.id = code[k].id
           /\ req'[r].receipt.until \in (code[k].until - MaxLatency) .. code[k].until
    BY <1>0, <1>2
  <2>2. OnceCode(k) /\ code[k].until \in Nat /\ code[k].id # 0
    BY <2>1, LiveCode, IdsPositive DEF Once
  <2>3. /\ req'[r].receipt.until \in (code[k].until - MaxLatency) .. code[k].until
        /\ req'[r].receipt.until \in Int
    BY <2>1, <2>2, Numbers
  <2>4. \A s \in Requests : req'[s].receipt.id = code[k].id
           => req'[s].receipt.until \in (code[k].until - MaxLatency) .. code[k].until
    BY <1>0, <2>2, <2>3 DEF OnceCode
  <2>5. ASSUME NEW l \in Keys, Live(l)'
        PROVE  OnceCode(l)'
    <3>1. Live(l) /\ OnceCode(l)
      BY <2>1, <2>5 DEF Live, Once
    <3>2. CASE l = k
      BY <1>0, <2>1, <2>2, <2>4, <3>2 DEF OnceCode, Recorded
    <3>3. CASE l # k
      <4>1. code[l].id # code[k].id
        BY <2>1, <3>1, <3>3 DEF CodeInv, OneKey
      <4> QED
        BY <1>0, <2>1, <3>1, <4>1 DEF OnceCode, Recorded
    <3> QED
      BY <3>2, <3>3
  <2>6. \A c \in consumed : c.until \in Nat
    BY DEF CodeInv, TypeOK, Receipt
  <2>7. OnceReceipt(r)'
    <3>1. uses[code[k].id] # 0 /\ req'[r].receipt.until >= now + MaxLatency
            => Recorded(code[k].id, code[k].until)
      BY <1>0, <2>2, <2>3, Numbers DEF OnceCode
    <3>2. uses[code[k].id] # 0 /\ req'[r].receipt.until >= now + MaxLatency =>
            \E c \in consumed : c.id = code[k].id /\ c.until >= req'[r].receipt.until - MaxLatency
      BY <2>2, <2>3, <2>6, <3>1, Numbers DEF Recorded
    <3>3. \A s \in Requests : req'[s].receipt.id = code[k].id
             => req'[s].receipt.until <= req'[r].receipt.until + MaxLatency
      BY <2>2, <2>3, <2>4, Numbers
    <3> QED
      BY <1>0, <2>1, <3>2, <3>3 DEF OnceReceipt, Recorded
  <2>8. ASSUME NEW s \in Requests, s # r, Has(s)'
        PROVE  OnceReceipt(s)'
    <3>1. Has(s) /\ req'[s] = req[s] /\ OnceReceipt(s)
      BY <1>0, <2>8 DEF Has, Once
    <3>2. ASSUME NEW t \in Requests, req'[t].receipt.id = req'[s].receipt.id
          PROVE  req'[t].receipt.until <= req'[s].receipt.until + MaxLatency
      <4>1. CASE t # r
        BY <1>0, <3>1, <3>2, <4>1 DEF OnceReceipt
      <4>2. CASE t = r
        <5>1. /\ req'[s].receipt.until \in (code[k].until - MaxLatency) .. code[k].until
              /\ req'[t].receipt.until \in (code[k].until - MaxLatency) .. code[k].until
          BY <2>1, <2>4, <3>2, <4>2
        <5> QED
          BY <2>2, <5>1, Numbers
      <4> QED
        BY <4>1, <4>2
    <3> QED
      BY <1>0, <3>1, <3>2 DEF OnceReceipt, Recorded
  <2> QED
    BY <1>0, <2>5, <2>7, <2>8 DEF Once
<1> QED
  BY <1>1, <1>2

\* The record of an accepted receipt serves for the other receipts of its code.
LEMMA OnceAccepted ==
    ASSUME CodeInv, CodeInv', Once, NEW r \in Requests, Accept(req[r].receipt),
           UNCHANGED <<now, code, drawn>>, \A s \in Requests : Keeps(s)
    PROVE  Once'
<1> DEFINE i == req[r].receipt.id
           u == req[r].receipt.until
           After(j, v) == \E c \in consumed' : c.id = j /\ c.until >= v - MaxLatency
<1>0. /\ Has(r) /\ u > now
      /\ consumed' = Kept \cup {req[r].receipt}
      /\ \A c \in Kept : c.id # i
      /\ uses'[i] = uses[i] + 1
      /\ \A j \in 1 .. MaxCodes : j # i => uses'[j] = uses[j]
  BY Accepted
<1>1. /\ i \in 1 .. MaxCodes /\ i \in 1 .. drawn /\ u \in Nat /\ now \in Nat /\ drawn \in Nat
      /\ \A c \in consumed : c.until \in Nat
  BY <1>0, HeldReceipt, Drawn DEF CodeInv, TypeOK, Receipt
<1>2. OnceReceipt(r)
  BY <1>0 DEF Once
<1> HIDE DEF i, u
<1>3. ASSUME NEW j, NEW v \in Nat, v >= now + MaxLatency, Recorded(j, v)
      PROVE  \E c \in Kept : c.id = j /\ c.until >= v - MaxLatency
  BY <1>1, <1>3, Numbers DEF Recorded, Kept
<1>4. \A j \in 1 .. MaxCodes : j # i => uses'[j] = uses[j]
  BY <1>0
<1>5. \A j \in 1 .. MaxCodes : j > drawn' => uses'[j] = 0
  BY <1>1, <1>4 DEF Once
<1>6. ASSUME NEW v \in Nat, v <= u + MaxLatency
      PROVE  After(i, v)
  <2>1. req[r].receipt \in consumed' /\ req[r].receipt.id = i /\ req[r].receipt.until >= v - MaxLatency
    BY <1>0, <1>1, <1>6, Numbers DEF i, u
  <2> QED
    BY <2>1
<1>7. ASSUME NEW j, NEW v \in Nat, v >= now + MaxLatency, Recorded(j, v)
      PROVE  After(j, v)
  <2>1. PICK c \in Kept : c.id = j /\ c.until >= v - MaxLatency
    BY <1>3, <1>7
  <2>2. c \in consumed'
    BY <1>0
  <2> QED
    BY <2>1, <2>2
<1>h. \A s \in Requests : req'[s].receipt.id # 0 => Has(s) /\ Has(s)' /\ req'[s].receipt = req[s].receipt
  BY StillHeld
<1>8. ASSUME NEW k \in Keys, Live(k)'
      PROVE  OnceCode(k)'
  <2>1. /\ Live(k) /\ OnceCode(k) /\ code' = code
        /\ code[k].until \in Nat /\ code[k].until > now
        /\ code[k].id \in 1 .. MaxCodes /\ code[k].id # 0
    BY <1>8, LiveCode, IdsPositive DEF Live, Once
  <2>2. uses'[code[k].id] # 0 /\ code[k].until >= now + MaxLatency
          => After(code[k].id, code[k].until)
    <3>1. CASE code[k].id = i
      <4>1. u \in (code[k].until - MaxLatency) .. code[k].until
        BY <2>1, <3>1 DEF OnceCode, i, u
      <4>2. code[k].until <= u + MaxLatency
        BY <1>1, <2>1, <4>1, Numbers
      <4> QED
        BY <1>6, <2>1, <3>1, <4>2
    <3>2. CASE code[k].id # i
      <4>1. uses'[code[k].id] # 0 /\ code[k].until >= now + MaxLatency
              => Recorded(code[k].id, code[k].until)
        BY <1>4, <2>1, <3>2 DEF OnceCode
      <4> QED
        BY <1>7, <2>1, <4>1
    <3> QED
      BY <3>1, <3>2
  <2>3. k[2] = "login" => /\ uses'[code[k].id] = 0
                          /\ \A s \in Requests : req'[s].receipt.id # code[k].id
    <3> SUFFICES ASSUME k[2] = "login"
                 PROVE  /\ uses'[code[k].id] = 0
                        /\ \A s \in Requests : req'[s].receipt.id # code[k].id
      OBVIOUS
    <3>1. code[k].id # i /\ uses[code[k].id] = 0 /\ \A s \in Requests : req[s].receipt.id # code[k].id
      BY <2>1 DEF OnceCode, i
    <3> QED
      BY <1>4, <1>h, <2>1, <3>1
  <2>4. \A s \in Requests : req'[s].receipt.id = code[k].id
           => req'[s].receipt.until \in (code[k].until - MaxLatency) .. code[k].until
    BY <1>h, <2>1 DEF OnceCode
  <2> QED
    BY <2>1, <2>2, <2>3, <2>4 DEF OnceCode, Recorded
<1>9. ASSUME NEW s \in Requests, Has(s)'
       PROVE  OnceReceipt(s)'
  <2>1. /\ Has(s) /\ req'[s].receipt = req[s].receipt /\ req[s].receipt.id # 0
        /\ OnceReceipt(s) /\ req[s].receipt.until \in Nat /\ req[s].receipt.id \in 1 .. MaxCodes
    BY <1>9, <1>h, IdsPositiveAfter, HeldReceipt DEF Once
  <2>2. uses'[req[s].receipt.id] # 0 /\ req[s].receipt.until >= now + MaxLatency
          => After(req[s].receipt.id, req[s].receipt.until)
    <3>1. CASE req[s].receipt.id = i
      <4>1. req[s].receipt.until <= u + MaxLatency
        BY <1>2, <3>1 DEF OnceReceipt, i, u
      <4> QED
        BY <1>6, <2>1, <3>1, <4>1
    <3>2. CASE req[s].receipt.id # i
      <4>1. uses'[req[s].receipt.id] # 0 /\ req[s].receipt.until >= now + MaxLatency
              => Recorded(req[s].receipt.id, req[s].receipt.until)
        BY <1>4, <2>1, <3>2 DEF OnceReceipt
      <4> QED
        BY <1>7, <2>1, <4>1
    <3> QED
      BY <3>1, <3>2
  <2>3. \A t \in Requests : req'[t].receipt.id = req'[s].receipt.id
           => req'[t].receipt.until <= req'[s].receipt.until + MaxLatency
    BY <1>h, <2>1 DEF OnceReceipt
  <2> QED
    BY <2>1, <2>2, <2>3 DEF OnceReceipt, Recorded
<1> QED
  BY <1>5, <1>8, <1>9 DEF Once

\* Every step keeps what is known of uses.
LEMMA OnceStep == OnceInv /\ [Next]_vars => OnceInv'
<1> SUFFICES ASSUME OnceInv, [Next]_vars PROVE Once'
  BY CodeStep DEF OnceInv
<1>0. CodeInv /\ Once /\ CodeInv' /\ now \in Nat
  BY CodeStep, Drawn DEF OnceInv
<1>1. CASE \E k \in Keys : Issue(k)
  BY <1>0, <1>1, OnceIssued
<1>2. CASE \E k \in Keys : LoginCode(k)
  BY <1>0, <1>2, OnceLogin
<1>3. CASE \E r \in Requests : Verify(r)
  BY <1>0, <1>3, OnceVerified
<1>4. CASE \E r \in Requests, u \in Users : RegisterCommit(r, u) \/ VerifyEmailCommit(r, u)
  <2>1. PICK r \in Requests : /\ UNCHANGED <<now, code, drawn>>
                              /\ UNCHANGED <<consumed, uses>> \/ Accept(req[r].receipt)
                              /\ \A s \in Requests : Keeps(s)
    BY <1>0, <1>4, Committing DEF Keeps
  <2>2. CASE Accept(req[r].receipt)
    BY <1>0, <2>1, <2>2, OnceAccepted
  <2>3. CASE UNCHANGED <<consumed, uses>>
    <3>1. \A l \in Keys : Remains(l)
      BY <2>1 DEF Remains, Live
    <3>2. now' >= now /\ UNCHANGED <<drawn, consumed, uses>>
      BY <1>0, <2>1, <2>3
    <3> QED
      BY <1>0, <2>1, <3>1, <3>2, OnceKept
  <2> QED
    BY <2>1, <2>2, <2>3
<1>5. CASE \E r \in Requests : Cleanup(r)
  <2>1. PICK r \in Requests : Cleanup(r)
    BY <1>5
  <2>2. /\ UNCHANGED <<drawn, consumed, uses>> /\ now' >= now
        /\ \A l \in Keys : Remains(l)
        /\ \A s \in Requests : Keeps(s)
    BY <1>0, <2>1, Cleaning DEF Remains, Keeps
  <2> QED
    BY <1>0, <2>2, OnceKept
<1>6. CASE Tick
  <2>1. /\ UNCHANGED <<drawn, consumed, uses>> /\ now' >= now
        /\ \A l \in Keys : Remains(l)
        /\ \A s \in Requests : Keeps(s)
    BY <1>0, <1>6, Ticking DEF Remains, Keeps
  <2> QED
    BY <1>0, <2>1, OnceKept
<1>7. CASE UNCHANGED <<now, code, drawn, consumed, uses>> /\ \A s \in Requests : Keeps(s)
  <2>1. \A l \in Keys : Remains(l)
    BY <1>7 DEF Remains, Live
  <2>2. now' >= now
    BY <1>0, <1>7
  <2> QED
    BY <1>0, <1>7, <2>1, <2>2, OnceKept
<1>8. CASE \E k \in Keys : IssueRefused(k)
  BY <1>7, <1>8 DEF IssueRefused, Keeps
<1>9. CASE \E r \in Requests : \/ \E m \in Mails : RegisterRead(r, m)
                               \/ \E u \in Users : VerifyEmailRead(r, u)
                               \/ Abandon(r)
  <2>1. PICK r \in Requests : \/ \E m \in Mails : RegisterRead(r, m)
                              \/ \E u \in Users : VerifyEmailRead(r, u)
                              \/ Abandon(r)
    BY <1>9
  <2>2. UNCHANGED <<now, code, drawn, consumed, uses>>
    BY <2>1 DEF RegisterRead, VerifyEmailRead, Abandon
  <2>3. \A s \in Requests : s # r => req'[s] = req[s]
    BY <1>0, <2>1 DEF RegisterRead, VerifyEmailRead, Abandon, Done, Become, CodeInv, TypeOK
  <2>4. req'[r].receipt = NoReceipt
    <3>1. req \in [Requests -> Request]
      BY <1>0 DEF CodeInv, TypeOK
    <3>2. CASE \E m \in Mails : RegisterRead(r, m)
      BY <3>1, <3>2 DEF RegisterRead, Become, Idle
    <3>3. CASE \E u \in Users : VerifyEmailRead(r, u)
      BY <3>1, <3>3 DEF VerifyEmailRead, Become, Idle
    <3>4. CASE Abandon(r)
      BY <3>1, <3>4 DEF Abandon, Done, Become, Idle
    <3> QED
      BY <2>1, <3>2, <3>3, <3>4
  <2> QED
    BY <1>7, <2>2, <2>3, <2>4 DEF Keeps, Has
<1>10. CASE \/ \E s \in Settings : PutSettings(s)
            \/ \E u \in Users, m \in Mails : CreateUser(u, m)
            \/ \E u \in Users, mail \in {{}} \cup {{m} : m \in Mails} : ChangeEmail(u, mail)
            \/ UNCHANGED vars
  BY <1>0, <1>7, <1>10, Editing DEF Keeps
<1> QED
  BY <1>1, <1>2, <1>3, <1>4, <1>5, <1>6, <1>8, <1>9, <1>10, Steps

\* A code whose use was recorded is accepted again, if at all, by a receipt that
\* has less than MaxLatency left: Register and VerifyEmail prune the record of a
\* use no sooner.
THEOREM SecondUsesLate == Spec => SecondUseLate
<1>1. Init => OnceInv
  <2>1. Init => CodeInv
    BY CodeInit
  <2>2. Init => Once
    BY Values DEF Init, Once, Live, Has
  <2> QED
    BY <2>1, <2>2 DEF OnceInv
<1>2. OnceInv /\ [Next]_vars =>
        [\A i \in 1 .. MaxCodes : uses[i] # 0 /\ uses'[i] # uses[i] =>
           \E c \in consumed' : c.id = i /\ c.until < now + MaxLatency]_vars
  <2> SUFFICES ASSUME OnceInv, [Next]_vars, NEW i \in 1 .. MaxCodes, uses[i] # 0, uses'[i] # uses[i]
               PROVE  \E c \in consumed' : c.id = i /\ c.until < now + MaxLatency
    BY DEF vars
  <2>0. CodeInv /\ Once /\ now \in Nat /\ uses \in [1 .. MaxCodes -> Nat]
    BY Drawn DEF OnceInv, CodeInv, TypeOK
  <2>1. ASSUME NEW k \in Keys, LoginCode(k) PROVE uses'[i] = uses[i]
    <3>1. /\ Live(k) /\ k[2] = "login"
          /\ uses' = uses \/ uses' = [uses EXCEPT ![code[k].id] = @ + 1]
      BY <2>0, <2>1, LoggingIn
    <3>2. uses[code[k].id] = 0
      BY <2>0, <3>1 DEF Once, OnceCode
    <3> QED
      BY <2>0, <3>1, <3>2
  <2>2. ASSUME NEW r \in Requests, NEW u \in Users, RegisterCommit(r, u) \/ VerifyEmailCommit(r, u)
        PROVE  \E c \in consumed' : c.id = i /\ c.until < now + MaxLatency
    <3>1. Accept(req[r].receipt)
      BY <2>0, <2>2, Committing
    <3>2. /\ Has(r) /\ consumed' = Kept \cup {req[r].receipt} /\ req[r].receipt.id = i
          /\ \A c \in Kept : c.id # i
      BY <2>0, <3>1, Accepted
    <3>3. /\ req[r].receipt.until \in Nat
          /\ \A c \in consumed : c.until \in Nat
      BY <2>0, HeldReceipt DEF CodeInv, TypeOK, Receipt
    <3>4. req[r].receipt.until < now + MaxLatency
      <4> SUFFICES ASSUME req[r].receipt.until >= now + MaxLatency PROVE FALSE
        BY <2>0, <3>3, Numbers
      <4>1. PICK c \in consumed : c.id = i /\ c.until >= req[r].receipt.until - MaxLatency
        <5>1. OnceReceipt(r)
          BY <2>0, <3>2 DEF Once
        <5>2. Recorded(i, req[r].receipt.until)
          BY <3>2, <5>1 DEF OnceReceipt
        <5> QED
          BY <5>2 DEF Recorded
      <4>2. c \in Kept
        <5>1. c.until \in Nat
          BY <3>3
        <5>2. c.until >= now
          BY <2>0, <3>3, <4>1, <5>1, Numbers
        <5> QED
          BY <5>2 DEF Kept
      <4> QED
        BY <3>2, <4>1, <4>2
    <3> QED
      BY <3>2, <3>4
  <2>3. CASE \/ \E k \in Keys : Issue(k) \/ IssueRefused(k)
             \/ \E r \in Requests : \/ \E m \in Mails : RegisterRead(r, m)
                                    \/ \E u \in Users : VerifyEmailRead(r, u)
                                    \/ Verify(r) \/ Cleanup(r) \/ Abandon(r)
             \/ \E s \in Settings : PutSettings(s)
             \/ \E u \in Users, m \in Mails : CreateUser(u, m)
             \/ \E u \in Users, mail \in {{}} \cup {{m} : m \in Mails} : ChangeEmail(u, mail)
             \/ Tick \/ UNCHANGED vars
    BY <2>3 DEF Issue, IssueRefused, RegisterRead, VerifyEmailRead, Verify, Cleanup, Abandon,
                PutSettings, CreateUser, ChangeEmail, Tick, vars
  <2> QED
    BY <2>1, <2>2, <2>3 DEF Next
<1> QED
  BY <1>1, <1>2, OnceStep, PTL DEF Spec, SecondUseLate
===============================================================================
