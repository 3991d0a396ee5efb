------------------------- MODULE AccessControlProofs -------------------------
(***************************************************************************)
(* Proofs about AccessControl, for any accounts, roles, permissions and    *)
(* requests.                                                               *)
(***************************************************************************)
EXTENDS AccessControl, TLAPS

State == Request \cup {New, Done}

\* Points of a request whose operation is not over, and of one that is past
\* Authorize.
Underway == {"active", "permit", "run", "delete", "insert", "cascade"}
Authorized == {"run", "delete", "insert", "cascade"}

(***************************************************************************)
(* EffectsAuthorized: Authorize finds the permission in one statement that *)
(* looks at the account as well, so it suffices that whoever is entitled   *)
(* now is recorded as entitled.                                            *)
(***************************************************************************)
EntitledNow == \A r \in Requests : Justified(r) => r \in entitled

\* TrailTruthful: a request reports success only if it was committed.
ReportsTruthful ==
    \A r \in Requests : req[r].at = "record" /\ req[r].result = "success" => r \in effective

(***************************************************************************)
(* SupersededGone: what a replacement has not seen, or will not delete, is *)
(* what overlapping requests asked for.                                    *)
(***************************************************************************)
\* What is known of a request q at its point.
Fits(q) ==
    /\ q.at \in Underway => q.came \subseteq q.asked
    /\ q.at \in Underway \ {"insert"} => q.gone = {}
    /\ q.at = "cascade" => q.op = "delete"
    /\ q.at = "delete" => granted[q.role] \subseteq q.rows \cup q.asked \cup q.met
    /\ q.at = "insert" => /\ q.rows \subseteq q.asked
                          /\ granted[q.role] \subseteq q.gone \cup q.asked \cup q.met

AllFit == \A r \in Requests : Fits(req[r])

\* Pending requests for one role have met.
AllMet ==
    \A r, s \in Requests :
        r # s /\ Pending(r) /\ Pending(s) /\ req[r].role = req[s].role =>
            req[s].asked \subseteq req[r].met

\* The types but that of the history of entitlement, which every step updates.
DataTypes ==
    /\ active \subseteq Users
    /\ userRoles \in [Users -> SUBSET Roles]
    /\ roles \subseteq Roles /\ dropped \subseteq Roles
    /\ granted \in [Roles -> SUBSET Permissions]
    /\ trail \subseteq Requests \X {"success", "failure"}
    /\ changes \in 0..MaxChanges
    /\ effective \subseteq Requests

CoreInv ==
    /\ DataTypes
    /\ req \in [Requests -> State]
    /\ ReportsTruthful /\ TrailTruthful
    /\ AllFit /\ AllMet

AccessInv == CoreInv /\ entitled \subseteq Requests /\ EntitledNow /\ EffectsAuthorized

\* What every step does: it gets past Authorize only who is entitled now, and
\* a replacement that it commits leaves what was asked for.
Passes(s) ==
    req'[s].at \in Authorized =>
        req[s].at \in Authorized \/ (req[s].at = "permit" /\ Justified(s))

Replaces(s) ==
    s \in effective' \ effective /\ req[s].op = "replace" =>
        granted'[req[s].role] \subseteq req[s].asked \cup req[s].met

StepOK == CoreInv' /\ \A s \in Requests : Passes(s) /\ Replaces(s)

-----------------------------------------------------------------------------
(***************************************************************************)
(* Requests                                                                *)
(***************************************************************************)
\* A request that is neither new nor done is a record with all fields.
LEMMA Begun ==
    ASSUME NEW q \in State, q.at \notin {"new", "done"}
    PROVE  q \in Request
  BY DEF State, New, Done

LEMMA NoRequest == New \notin Request /\ Done \notin Request /\ New.at = "new" /\ Done.at = "done"
  BY DEF New, Done, Request

\* The updates of a request that the actions make.
LEMMA Updates ==
    ASSUME NEW q \in Request, NEW P \in SUBSET Permissions, NEW G \in SUBSET Permissions,
           NEW a \in {"active", "permit", "run", "delete", "insert", "cascade", "record"},
           NEW v \in {"success", "failure"}
    PROVE  /\ [q EXCEPT !.at = a] \in Request
           /\ [q EXCEPT !.at = a, !.rows = P] \in Request
           /\ [q EXCEPT !.at = a, !.gone = G, !.rows = P] \in Request
           /\ [q EXCEPT !.rows = P, !.came = G] \in Request
           /\ [q EXCEPT !.rows = P] \in Request
           /\ [q EXCEPT !.met = P] \in Request
           /\ [q EXCEPT !.at = a, !.result = v, !.rows = {}, !.gone = {}, !.came = {}] \in Request
           /\ [q EXCEPT !.at = a, !.rows = {}, !.gone = {}, !.came = {}, !.result = v] \in Request
<1>1. [q EXCEPT !.at = a] \in Request
  BY DEF Request
<1>2. [q EXCEPT !.at = a, !.rows = P] \in Request
  BY DEF Request
<1>3. [q EXCEPT !.at = a, !.gone = G, !.rows = P] \in Request
  BY DEF Request
<1>4. [q EXCEPT !.rows = P, !.came = G] \in Request
  BY DEF Request
<1>5. [q EXCEPT !.rows = P] \in Request
  BY DEF Request
<1>6. [q EXCEPT !.met = P] \in Request
  BY DEF Request
<1>7. [q EXCEPT !.at = a, !.result = v, !.rows = {}, !.gone = {}, !.came = {}] \in Request
  BY DEF Request
<1>8. [q EXCEPT !.at = a, !.rows = {}, !.gone = {}, !.came = {}, !.result = v] \in Request
  BY DEF Request
<1> QED
  BY <1>1, <1>2, <1>3, <1>4, <1>5, <1>6, <1>7, <1>8

LEMMA Became ==
    ASSUME req \in [Requests -> State], NEW r \in Requests, NEW q \in State, Become(r, q)
    PROVE  /\ req' \in [Requests -> State]
           /\ req'[r] = q
           /\ \A s \in Requests \ {r} : req'[s] = req[s]
  BY DEF Become

-----------------------------------------------------------------------------
(***************************************************************************)
(* Three kinds of steps                                                    *)
(***************************************************************************)
\* A request becomes q and nothing is committed.
LEMMA Move ==
    ASSUME CoreInv, NEW r \in Requests, NEW q \in State,
           Become(r, q), UNCHANGED <<data, changes, effective>>,
           Fits(q),
           q.at \in Underway =>
             Pending(r) /\ q.role = req[r].role /\ q.asked = req[r].asked /\ q.met = req[r].met,
           q.at \in Authorized =>
             req[r].at \in Authorized \/ (req[r].at = "permit" /\ Justified(r)),
           q.at = "record" => q.result = "failure",
           \/ trail' = trail
           \/ \E v \in {"success", "failure"} :
                trail' = trail \cup {<<r, v>>} /\ (v = "success" => r \in effective)
    PROVE  StepOK
<1>1. /\ req' \in [Requests -> State]
      /\ req'[r] = q
      /\ \A s \in Requests \ {r} : req'[s] = req[s]
  BY Became DEF CoreInv
<1>2. DataTypes'
  BY DEF CoreInv, DataTypes, data
<1>3. ReportsTruthful'
  BY <1>1 DEF CoreInv, ReportsTruthful
<1>4. TrailTruthful'
  BY DEF CoreInv, TrailTruthful
<1>5. AllFit'
  <2> SUFFICES ASSUME NEW s \in Requests PROVE Fits(req[s])'
    BY DEF AllFit
  <2>1. CASE s = r
    BY <1>1, <2>1 DEF Fits, data
  <2>2. CASE s # r
    BY <1>1, <2>2 DEF CoreInv, AllFit, Fits, data
  <2> QED
    BY <2>1, <2>2
<1>6. AllMet'
  <2> SUFFICES ASSUME NEW s \in Requests, NEW t \in Requests, s # t,
                      Pending(s)', Pending(t)', (req[s].role = req[t].role)'
               PROVE  (req[t].asked \subseteq req[s].met)'
    BY DEF AllMet
  <2>1. \A o \in Requests : Pending(o)' =>
          /\ Pending(o) /\ req'[o].role = req[o].role
          /\ req'[o].asked = req[o].asked /\ req'[o].met = req[o].met
    <3> SUFFICES ASSUME NEW o \in Requests, Pending(o)'
                 PROVE  /\ Pending(o) /\ req'[o].role = req[o].role
                        /\ req'[o].asked = req[o].asked /\ req'[o].met = req[o].met
      OBVIOUS
    <3>1. CASE o # r
      BY <1>1, <3>1 DEF Pending
    <3>2. CASE o = r
      <4>1. q \in Request /\ q.at \in Underway
        BY <1>1, <3>2, Begun DEF Pending, Request, Underway
      <4> QED
        BY <1>1, <3>2, <4>1
    <3> QED
      BY <3>1, <3>2
  <2> QED
    BY <2>1 DEF CoreInv, AllMet
<1>7. ASSUME NEW s \in Requests PROVE Passes(s) /\ Replaces(s)
  BY <1>1 DEF Passes, Replaces
<1> QED
  BY <1>1, <1>2, <1>3, <1>4, <1>5, <1>6, <1>7 DEF StepOK, CoreInv

\* Request r commits: its role gets no more than it asked for and loses what it
\* has deleted.
LEMMA Commit ==
    ASSUME CoreInv, NEW r \in Requests, NEW reply \in BOOLEAN, Committed(r, reply),
           req[r].at \in Underway, DataTypes',
           \A x \in Roles : x # req[r].role => granted'[x] \subseteq granted[x],
           granted'[req[r].role] \subseteq (granted[req[r].role] \ req[r].gone) \cup req[r].asked,
           req[r].op = "replace" => req[r].at = "insert"
    PROVE  StepOK
<1> DEFINE v == IF reply THEN "success" ELSE "failure"
           mine == [req[r] EXCEPT !.at = "record", !.rows = {}, !.gone = {}, !.came = {},
                                  !.result = v]
<1>0. /\ req \in [Requests -> State] /\ req[r] \in Request
      /\ Pending(r)
  BY Begun DEF CoreInv, Underway, Pending
<1>1. mine \in Request /\ mine.at = "record"
  <2>1. v \in {"success", "failure"}
    OBVIOUS
  <2> HIDE DEF v
  <2>2. mine \in Request
    BY <1>0, <2>1, Updates
  <2> QED
    BY <1>0, <2>2 DEF Request
<1>2. req'[r] = mine
  BY <1>0 DEF Committed
<1> HIDE DEF mine, v
<1>3. ASSUME NEW s \in Requests, s # r
      PROVE  /\ req'[s] \in State
             /\ req'[s].at = req[s].at
             /\ req[s].at # "delete" => req'[s] = req[s]
             /\ req[s].at = "delete" =>
                  /\ req[s] \in Request /\ req'[s] \in Request
                  /\ req'[s].role = req[s].role /\ req'[s].asked = req[s].asked
                  /\ req'[s].met = req[s].met /\ req'[s].came = req[s].came
                  /\ req'[s].gone = req[s].gone
                  /\ req'[s].rows = IF req[s].role = req[r].role THEN req[s].rows \ req[r].gone
                                                               ELSE req[s].rows
  <2>1. CASE s \in Others(r) /\ req[s].at = "delete"
    <3>1. req[s] \in Request
      BY <1>0, <2>1, Begun
    <3>2. req'[s] = [req[s] EXCEPT !.rows = @ \ req[r].gone]
      BY <1>3, <2>1 DEF Committed
    <3>3. req[s].rows \ req[r].gone \in SUBSET Permissions
      BY <3>1 DEF Request
    <3>4. req'[s] \in Request
      BY <3>1, <3>2, <3>3 DEF Request
    <3>5. req[s].role = req[r].role
      BY <2>1 DEF Others
    <3>6. /\ req'[s].at = req[s].at /\ req'[s].role = req[s].role
          /\ req'[s].asked = req[s].asked /\ req'[s].met = req[s].met
          /\ req'[s].came = req[s].came /\ req'[s].gone = req[s].gone
          /\ req'[s].rows = req[s].rows \ req[r].gone
      BY <3>1, <3>2 DEF Request
    <3> QED
      BY <2>1, <3>1, <3>4, <3>5, <3>6 DEF State
  <2>2. CASE ~(s \in Others(r) /\ req[s].at = "delete")
    <3>1. req'[s] = req[s]
      BY <1>3, <2>2 DEF Committed
    <3>2. req[s].at = "delete" => req[s].role # req[r].role /\ req[s] \in Request
      BY <1>0, <1>3, <2>2, Begun DEF Others, Pending
    <3> QED
      BY <1>0, <3>1, <3>2
  <2> QED
    BY <2>1, <2>2
<1>4. req' \in [Requests -> State]
  <2>1. \A s \in Requests : req'[s] \in State
    BY <1>1, <1>2, <1>3 DEF State
  <2> DEFINE f(q) == IF q = r
                       THEN [req[r] EXCEPT !.at = "record", !.rows = {}, !.gone = {}, !.came = {},
                                           !.result = IF reply THEN "success" ELSE "failure"]
                     ELSE IF q \in Others(r) /\ req[q].at = "delete"
                       THEN [req[q] EXCEPT !.rows = @ \ req[r].gone]
                     ELSE req[q]
  <2>2. req' = [q \in Requests |-> f(q)]
    BY DEF Committed
  <2> HIDE DEF f
  <2> QED
    BY <2>1, <2>2
<1>5. effective' = effective \cup {r} /\ trail' = trail
  BY DEF Committed
<1>6. ReportsTruthful' /\ TrailTruthful'
  <2>1. ReportsTruthful'
    <3> SUFFICES ASSUME NEW s \in Requests, req'[s].at = "record", req'[s].result = "success"
                 PROVE  s \in effective'
      BY DEF ReportsTruthful
    <3>1. CASE s = r
      BY <1>5, <3>1
    <3>2. CASE s # r
      BY <1>3, <1>5, <3>2 DEF CoreInv, ReportsTruthful
    <3> QED
      BY <3>1, <3>2
  <2> QED
    BY <1>5, <2>1 DEF CoreInv, TrailTruthful
<1>7. AllFit'
  <2> SUFFICES ASSUME NEW s \in Requests PROVE Fits(req[s])'
    BY DEF AllFit
  <2>1. CASE s = r
    BY <1>1, <1>2, <2>1 DEF Fits, Underway
  <2>2. CASE s # r /\ req[s].at \in {"delete", "insert"}
    <3>1. req[s] \in Request /\ Pending(s) /\ Fits(req[s])
      BY <1>0, <2>2, Begun DEF Pending, CoreInv, AllFit
    <3>2. req[s].role \in Roles
      BY <3>1 DEF Request
    <3>3. req[s].role = req[r].role => req[r].asked \subseteq req[s].met
      BY <1>0, <2>2, <3>1 DEF CoreInv, AllMet
    <3>4. CASE req[s].at = "delete"
      BY <1>3, <2>2, <3>1, <3>2, <3>3, <3>4 DEF Fits, Underway
    <3>5. CASE req[s].at = "insert"
      <4>1. req'[s] = req[s]
        BY <1>3, <2>2, <3>5
      <4> QED
        BY <4>1, <3>1, <3>2, <3>3, <3>5 DEF Fits, Underway
    <3> QED
      BY <2>2, <3>4, <3>5
  <2>3. CASE s # r /\ req[s].at \notin {"delete", "insert"}
    <3>1. req'[s] = req[s]
      BY <1>3, <2>3
    <3> QED
      BY <2>3, <3>1 DEF CoreInv, AllFit, Fits
  <2> QED
    BY <2>1, <2>2, <2>3
<1>8. AllMet'
  <2>1. \A s \in Requests : Pending(s)' =>
          /\ Pending(s) /\ req'[s].role = req[s].role
          /\ req'[s].asked = req[s].asked /\ req'[s].met = req[s].met
    <3> SUFFICES ASSUME NEW s \in Requests, Pending(s)'
                 PROVE  /\ Pending(s) /\ req'[s].role = req[s].role
                        /\ req'[s].asked = req[s].asked /\ req'[s].met = req[s].met
      OBVIOUS
    <3>1. s # r
      BY <1>1, <1>2 DEF Pending
    <3> QED
      BY <1>3, <3>1 DEF Pending
  <2> QED
    BY <2>1 DEF CoreInv, AllMet
<1>9. ASSUME NEW s \in Requests PROVE Passes(s) /\ Replaces(s)
  <2>1. Passes(s)
    BY <1>1, <1>2, <1>3 DEF Passes, Authorized
  <2>2. Replaces(s)
    <3> SUFFICES ASSUME s \in effective' \ effective, req[s].op = "replace"
                 PROVE  granted'[req[s].role] \subseteq req[s].asked \cup req[s].met
      BY DEF Replaces
    <3>1. s = r
      BY <1>5
    <3>2. Fits(req[r]) /\ req[r].at = "insert"
      BY <3>1 DEF CoreInv, AllFit
    <3> QED
      BY <3>1, <3>2 DEF Fits
  <2> QED
    BY <2>1, <2>2
<1> QED
  BY <1>4, <1>6, <1>7, <1>8, <1>9 DEF StepOK, CoreInv

\* A new request meets those that are under way for its role.
LEMMA Beginning ==
    ASSUME CoreInv, NEW r \in Requests, NEW u \in Users, NEW op \in Operations,
           NEW x \in Roles, NEW P \in SUBSET Permissions, Begin(r, u, op, x, P)
    PROVE  StepOK
<1> DEFINE q == [at |-> "active", actor |-> u, op |-> op, role |-> x, asked |-> P,
                 rows |-> {}, gone |-> {}, came |-> {}, result |-> "failure", met |-> {}]
           M == UNION {req[o].asked : o \in {o \in Requests : Meets(o, q)}}
           mine == [q EXCEPT !.met = M]
<1>0. req \in [Requests -> State] /\ req[r] = New
  BY DEF CoreInv, Begin
<1>1. \A o \in Requests : Pending(o) => req[o] \in Request
  BY <1>0, Begun DEF Pending
<1>2. M \in SUBSET Permissions
  BY <1>1 DEF Meets, Request
<1>3. /\ mine \in Request
      /\ mine.at = "active" /\ mine.role = x /\ mine.asked = P /\ mine.met = M
      /\ mine.came = {} /\ mine.gone = {}
  <2>1. q \in Request
    BY DEF Request
  <2> HIDE DEF M
  <2> QED
    BY <1>2, <2>1 DEF Request
<1>4. req'[r] = mine
  BY DEF Begin
<1>5. ASSUME NEW s \in Requests, s # r
      PROVE  IF Pending(s) /\ req[s].role = x
               THEN req'[s] = [req[s] EXCEPT !.met = @ \cup P]
               ELSE req'[s] = req[s]
  BY <1>5 DEF Begin, Meets
<1>6. \A o \in Requests : Pending(o) /\ req[o].role = x => req[o].asked \subseteq M
  BY DEF Meets
<1> HIDE DEF mine, M
<1>7. ASSUME NEW s \in Requests, s # r
      PROVE  /\ req'[s] \in State
             /\ req'[s].at = req[s].at
             /\ req'[s] = req[s] \/ Pending(s)
             /\ Pending(s) =>
                  /\ req[s] \in Request /\ req'[s] \in Request
                  /\ req'[s].op = req[s].op /\ req'[s].role = req[s].role
                  /\ req'[s].asked = req[s].asked /\ req'[s].rows = req[s].rows
                  /\ req'[s].gone = req[s].gone /\ req'[s].came = req[s].came
                  /\ req[s].met \subseteq req'[s].met
                  /\ req[s].role = x => P \subseteq req'[s].met
  <2>1. CASE Pending(s) /\ req[s].role = x
    <3>1. req[s] \in Request /\ req'[s] = [req[s] EXCEPT !.met = @ \cup P]
      BY <1>1, <1>5, <1>7, <2>1
    <3>2. req'[s] \in Request
      BY <3>1 DEF Request
    <3>3. /\ req'[s].at = req[s].at
          /\ req'[s].op = req[s].op /\ req'[s].role = req[s].role
          /\ req'[s].asked = req[s].asked /\ req'[s].rows = req[s].rows
          /\ req'[s].gone = req[s].gone /\ req'[s].came = req[s].came
          /\ req'[s].met = req[s].met \cup P
      BY <3>1 DEF Request
    <3> QED
      BY <2>1, <3>1, <3>2, <3>3 DEF State
  <2>2. CASE ~(Pending(s) /\ req[s].role = x)
    <3>1. req'[s] = req[s]
      BY <1>5, <1>7, <2>2
    <3> QED
      BY <1>0, <1>1, <2>2, <3>1
  <2> QED
    BY <2>1, <2>2
<1>8. req' \in [Requests -> State]
  <2>1. \A s \in Requests : req'[s] \in State
    BY <1>3, <1>4, <1>7 DEF State
  <2> DEFINE f(s) == IF s = r
                       THEN [q EXCEPT !.met = UNION {req[o].asked : o \in {o \in Requests : Meets(o, q)}}]
                     ELSE IF Meets(s, q) THEN [req[s] EXCEPT !.met = @ \cup P]
                     ELSE req[s]
  <2>2. req' = [s \in Requests |-> f(s)]
    BY DEF Begin
  <2> HIDE DEF f
  <2> QED
    BY <2>1, <2>2
<1>9. UNCHANGED <<data, trail, changes, effective>>
  BY DEF Begin
<1>10. DataTypes' /\ TrailTruthful'
  BY <1>9 DEF CoreInv, DataTypes, TrailTruthful, data
<1>11. ReportsTruthful'
  <2> SUFFICES ASSUME NEW s \in Requests, req'[s].at = "record", req'[s].result = "success"
               PROVE  s \in effective'
    BY DEF ReportsTruthful
  <2>1. s # r
    BY <1>3, <1>4
  <2>2. req'[s] = req[s]
    BY <1>7, <2>1 DEF Pending
  <2> QED
    BY <1>9, <2>2 DEF CoreInv, ReportsTruthful
<1>12. AllFit'
  <2> SUFFICES ASSUME NEW s \in Requests PROVE Fits(req[s])'
    BY DEF AllFit
  <2>0. granted' = granted
    BY <1>9 DEF data
  <2>1. CASE s = r
    BY <1>3, <1>4, <2>1 DEF Fits
  <2>2. CASE s # r /\ req'[s] = req[s]
    BY <2>0, <2>2 DEF CoreInv, AllFit, Fits
  <2>3. CASE s # r /\ Pending(s)
    <3>1. Fits(req[s])
      BY DEF CoreInv, AllFit
    <3> QED
      BY <1>7, <2>0, <2>3, <3>1 DEF Fits
  <2> QED
    BY <1>7, <2>1, <2>2, <2>3
<1>13. AllMet'
  <2> SUFFICES ASSUME NEW s \in Requests, NEW t \in Requests, s # t,
                      Pending(s)', Pending(t)', (req[s].role = req[t].role)'
               PROVE  (req[t].asked \subseteq req[s].met)'
    BY DEF AllMet
  <2>1. \A o \in Requests : o # r /\ Pending(o)' => Pending(o)
    BY <1>7 DEF Pending
  <2>2. CASE s = r
    BY <1>3, <1>4, <1>6, <1>7, <2>1, <2>2
  <2>3. CASE t = r
    BY <1>3, <1>4, <1>7, <2>1, <2>3
  <2>4. CASE s # r /\ t # r
    <3>1. req[t].asked \subseteq req[s].met
      BY <1>7, <2>1, <2>4 DEF CoreInv, AllMet
    <3> QED
      BY <1>7, <2>1, <2>4, <3>1
  <2> QED
    BY <2>2, <2>3, <2>4
<1>14. ASSUME NEW s \in Requests PROVE Passes(s) /\ Replaces(s)
  <2>1. s # r => req'[s].at = req[s].at
    BY <1>7
  <2> QED
    BY <1>3, <1>4, <1>9, <2>1 DEF Passes, Replaces, Authorized
<1> QED
  BY <1>8, <1>10, <1>11, <1>12, <1>13, <1>14 DEF StepOK, CoreInv

-----------------------------------------------------------------------------
(***************************************************************************)
(* Every step is of one of these kinds, or changes no request              *)
(***************************************************************************)
\* The request ends with an error, or with the answer of Authorize.
LEMMA Failing ==
    ASSUME CoreInv, NEW r \in Requests, Pending(r), Fail(r)
    PROVE  StepOK
<1> DEFINE q == [req[r] EXCEPT !.at = "record", !.result = "failure",
                               !.rows = {}, !.gone = {}, !.came = {}]
<1>1. req[r] \in Request
  BY Begun DEF CoreInv, Pending
<1>2. q \in Request /\ q.at = "record" /\ q.result = "failure"
  BY <1>1 DEF Request
<1>3. Become(r, q) /\ UNCHANGED <<data, trail, changes, effective>>
  BY DEF Fail
<1>4. q \in State
  BY <1>2 DEF State
<1> HIDE DEF q
<1> QED
  BY <1>2, <1>3, <1>4, Move DEF Fits, Underway, Authorized

LEMMA Ending ==
    ASSUME CoreInv, NEW r \in Requests, Become(r, Done),
           UNCHANGED <<data, changes, effective>>,
           \/ trail' = trail
           \/ \E v \in {"success", "failure"} :
                trail' = trail \cup {<<r, v>>} /\ (v = "success" => r \in effective)
    PROVE  StepOK
<1>1. Done \in State /\ Done.at = "done"
  BY NoRequest DEF State
<1>2. Fits(Done)
  BY <1>1 DEF Fits, Underway
<1> QED
  BY <1>1, <1>2, Move DEF Underway, Authorized

\* Authorization.
LEMMA Authorizing ==
    ASSUME CoreInv, NEW r \in Requests, RequireActiveUser(r) \/ Authorize(r)
    PROVE  StepOK
<1>0. req[r] \in Request /\ Pending(r) /\ Fits(req[r])
  BY Begun DEF CoreInv, AllFit, RequireActiveUser, Authorize, Pending
<1>1. CASE RequireActiveUser(r) /\ req[r].actor \in active
  <2> DEFINE q == [req[r] EXCEPT !.at = "permit"]
  <2>1. q \in Request
    BY <1>0 DEF Request
  <2>2. /\ q.at = "permit" /\ q.role = req[r].role /\ q.asked = req[r].asked
        /\ q.met = req[r].met /\ q.came = req[r].came /\ q.gone = req[r].gone
    BY <1>0 DEF Request
  <2>3. Become(r, q) /\ UNCHANGED <<data, trail, changes, effective>>
    BY <1>1 DEF RequireActiveUser
  <2> HIDE DEF q
  <2>4. Fits(q)
    BY <1>0, <1>1, <2>2 DEF Fits, RequireActiveUser, Underway
  <2>5. q \in State
    BY <2>1 DEF State
  <2> QED
    BY <1>0, <2>2, <2>3, <2>4, <2>5, Move DEF Authorized
<1>2. CASE Authorize(r) /\ HasPermission(UserPermissions(req[r].actor), Required)
  <2> DEFINE q == [req[r] EXCEPT !.at = "run"]
  <2>1. q \in Request
    BY <1>0 DEF Request
  <2>2. /\ q.at = "run" /\ q.role = req[r].role /\ q.asked = req[r].asked
        /\ q.met = req[r].met /\ q.came = req[r].came /\ q.gone = req[r].gone
    BY <1>0 DEF Request
  <2>3. Become(r, q) /\ UNCHANGED <<data, trail, changes, effective>>
    BY <1>2 DEF Authorize
  <2> HIDE DEF q
  <2>4. Fits(q)
    BY <1>0, <1>2, <2>2 DEF Fits, Authorize, Underway
  <2>5. q \in State
    BY <2>1 DEF State
  <2>6. req[r].at = "permit" /\ Justified(r)
    BY <1>0, <1>2 DEF Authorize, Justified, UserPermissions, HasPermission
  <2> QED
    BY <1>0, <2>2, <2>3, <2>4, <2>5, <2>6, Move DEF Authorized
<1>3. CASE Deny(r)
  BY <1>3, Ending DEF Deny
<1> QED
  BY <1>1, <1>2, <1>3 DEF RequireActiveUser, Authorize

\* Deletion of a role: its first statement.
LEMMA Deleting ==
    ASSUME CoreInv, NEW r \in Requests, DeleteRole(r)
    PROVE  StepOK
<1> DEFINE q == [req[r] EXCEPT !.at = "cascade"]
<1>0. req[r] \in Request /\ Pending(r) /\ Fits(req[r]) /\ req[r].at = "run" /\ req[r].op = "delete"
  BY Begun DEF CoreInv, AllFit, DeleteRole, Pending
<1>1. q \in Request
  BY <1>0 DEF Request
<1>2. /\ q.at = "cascade" /\ q.op = "delete" /\ q.role = req[r].role /\ q.asked = req[r].asked
      /\ q.met = req[r].met /\ q.came = req[r].came /\ q.gone = req[r].gone
  BY <1>0 DEF Request
<1>3. Become(r, q) /\ UNCHANGED <<data, trail, changes, effective>>
  BY DEF DeleteRole
<1> HIDE DEF q
<1>4. Fits(q)
  BY <1>0, <1>2 DEF Fits, Underway
<1>5. q \in State
  BY <1>1 DEF State
<1> QED
  BY <1>0, <1>2, <1>3, <1>4, <1>5, Move DEF Authorized

\* The statements of a replacement.  The DELETE sees all there is when it
\* starts; what comes later was asked for by a request it has met.
LEMMA Replacing ==
    ASSUME CoreInv, NEW r \in Requests,
           ReplaceBegin(r) \/ ReplaceDelete(r) \/ \E p \in Permissions : ReplaceInsert(r, p)
    PROVE  StepOK
<1>0. req[r] \in Request /\ Pending(r) /\ Fits(req[r])
  BY Begun DEF CoreInv, AllFit, ReplaceBegin, ReplaceDelete, ReplaceInsert, Pending
<1>g. req[r].role \in Roles /\ granted[req[r].role] \in SUBSET Permissions
  BY <1>0 DEF Request, CoreInv, DataTypes
<1>1. CASE ReplaceBegin(r)
  <2> DEFINE q == [req[r] EXCEPT !.at = "delete", !.rows = Superseded(r)]
  <2>0. Superseded(r) = granted[req[r].role]
    BY DEF Superseded
  <2>1. q \in Request
    BY <1>0, <1>g, <2>0 DEF Request
  <2>2. /\ q.at = "delete" /\ q.role = req[r].role /\ q.asked = req[r].asked
        /\ q.met = req[r].met /\ q.came = req[r].came /\ q.gone = req[r].gone
        /\ q.rows = granted[req[r].role]
    BY <1>0, <2>0 DEF Request
  <2>3. Become(r, q) /\ UNCHANGED <<data, trail, changes, effective>> /\ req[r].at = "run"
    BY <1>1 DEF ReplaceBegin
  <2> HIDE DEF q
  <2>4. Fits(q)
    BY <1>0, <2>2, <2>3 DEF Fits, Underway
  <2>5. q \in State
    BY <2>1 DEF State
  <2> QED
    BY <1>0, <2>2, <2>3, <2>4, <2>5, Move DEF Authorized
<1>2. CASE ReplaceDelete(r)
  <2> DEFINE G == req[r].rows \cap granted[req[r].role]
             q == [req[r] EXCEPT !.at = "insert", !.gone = G, !.rows = req[r].asked]
  <2>1. q \in Request
    BY <1>0, <1>g DEF Request
  <2>2. /\ q.at = "insert" /\ q.role = req[r].role /\ q.asked = req[r].asked
        /\ q.met = req[r].met /\ q.came = req[r].came /\ q.gone = G
        /\ q.rows = req[r].asked
    BY <1>0 DEF Request
  <2>3. Become(r, q) /\ UNCHANGED <<data, trail, changes, effective>> /\ req[r].at = "delete"
    BY <1>2 DEF ReplaceDelete
  <2> HIDE DEF q
  <2>4. Fits(q)
    BY <1>0, <2>2, <2>3 DEF Fits, Underway
  <2>5. q \in State
    BY <2>1 DEF State
  <2> QED
    BY <1>0, <2>2, <2>3, <2>4, <2>5, Move DEF Authorized
<1>3. ASSUME NEW p \in Permissions, ReplaceInsert(r, p) PROVE StepOK
  <2>1. CASE Fail(r)
    BY <1>0, <2>1, Failing
  <2>2. CASE ~Fail(r)
    <3> DEFINE C == IF p \in granted[req[r].role] \ req[r].gone THEN req[r].came
                                                             ELSE req[r].came \cup {p}
               q == [req[r] EXCEPT !.rows = @ \ {p}, !.came = C]
    <3>1. C \in SUBSET Permissions
      BY <1>0 DEF Request
    <3>2. Become(r, q) /\ UNCHANGED <<data, trail, changes, effective>>
          /\ req[r].at = "insert" /\ p \in req[r].rows
      <4>1. Become(r, [req[r] EXCEPT !.rows = @ \ {p},
                         !.came = IF p \in granted[req[r].role] \ req[r].gone THEN @ ELSE @ \cup {p}])
            /\ UNCHANGED <<data, trail, changes, effective>>
            /\ req[r].at = "insert" /\ p \in req[r].rows
        BY <1>3, <2>2 DEF ReplaceInsert
      <4>2. q = [req[r] EXCEPT !.rows = @ \ {p},
                    !.came = IF p \in granted[req[r].role] \ req[r].gone THEN @ ELSE @ \cup {p}]
        BY <1>0 DEF Request
      <4> QED
        BY <4>1, <4>2
    <3>3. C \subseteq req[r].came \cup {p}
      OBVIOUS
    <3> HIDE DEF C
    <3>4. q \in Request
      BY <1>0, <3>1 DEF Request
    <3>5. /\ q.at = "insert" /\ q.role = req[r].role /\ q.asked = req[r].asked
          /\ q.met = req[r].met /\ q.came = C /\ q.gone = req[r].gone
          /\ q.rows = req[r].rows \ {p}
      BY <1>0, <3>2 DEF Request
    <3> HIDE DEF q
    <3>6. Fits(q)
      BY <1>0, <3>2, <3>3, <3>5 DEF Fits, Underway
    <3>7. q \in State
      BY <3>4 DEF State
    <3> QED
      BY <1>0, <3>2, <3>5, <3>6, <3>7, Move DEF Authorized
  <2> QED
    BY <2>1, <2>2
<1> QED
  BY <1>1, <1>2, <1>3

\* The steps that commit.
LEMMA Committing ==
    ASSUME CoreInv, NEW r \in Requests, NEW reply \in BOOLEAN,
           \/ CreateRole(r, reply) \/ GrantPermission(r, reply)
           \/ Cascade(r, reply) \/ ReplaceCommit(r, reply)
    PROVE  StepOK
<1>0. req[r].at \in Underway /\ Committed(r, reply)
  BY DEF CreateRole, GrantPermission, Cascade, ReplaceCommit, Underway
<1>1. req[r] \in Request /\ Fits(req[r])
  BY <1>0, Begun DEF CoreInv, AllFit, Underway
<1>2. /\ req[r].role \in Roles /\ req[r].asked \subseteq Permissions
      /\ req[r].came \subseteq req[r].asked
  BY <1>0, <1>1 DEF Request, Fits
<1>3. trail' = trail /\ changes' = changes /\ effective' = effective \cup {r}
  BY <1>0 DEF Committed
<1>t. DataTypes
  BY DEF CoreInv
<1>4. CASE CreateRole(r, reply)
  <2>1. granted' = granted /\ req[r].at = "run" /\ req[r].op = "create"
    BY <1>4 DEF CreateRole
  <2>2. DataTypes'
    BY <1>2, <1>3, <1>4, <1>t DEF CreateRole, DataTypes
  <2> QED
    BY <1>0, <1>1, <2>1, <2>2, Commit DEF Fits
<1>5. CASE GrantPermission(r, reply)
  <2>1. /\ granted' = [granted EXCEPT ![req[r].role] = @ \cup req[r].asked]
        /\ req[r].at = "run" /\ req[r].op = "grant"
    BY <1>5 DEF GrantPermission
  <2>2. DataTypes'
    BY <1>2, <1>3, <1>5, <1>t DEF GrantPermission, DataTypes
  <2>3. req[r].gone = {}
    BY <1>1, <2>1 DEF Fits, Underway
  <2> QED
    BY <1>0, <1>2, <1>t, <2>1, <2>2, <2>3, Commit DEF DataTypes
<1>6. CASE Cascade(r, reply)
  <2>1. /\ granted' = [granted EXCEPT ![req[r].role] = {}]
        /\ req[r].op = "delete"
    BY <1>1, <1>6 DEF Cascade, Fits
  <2>2. DataTypes'
    BY <1>2, <1>3, <1>6, <1>t DEF Cascade, DataTypes
  <2> QED
    BY <1>0, <1>2, <1>t, <2>1, <2>2, Commit DEF DataTypes
<1>7. CASE ReplaceCommit(r, reply)
  <2>1. /\ granted' = [granted EXCEPT ![req[r].role] = (@ \ req[r].gone) \cup req[r].came]
        /\ req[r].at = "insert"
    BY <1>7 DEF ReplaceCommit
  <2>2. DataTypes'
    BY <1>2, <1>3, <1>7, <1>t DEF ReplaceCommit, DataTypes
  <2> QED
    BY <1>0, <1>2, <1>t, <2>1, <2>2, Commit DEF DataTypes
<1> QED
  BY <1>4, <1>5, <1>6, <1>7

\* User management, and rest: no request takes a step.
LEMMA Managing ==
    ASSUME CoreInv, DataTypes', UNCHANGED <<granted, req, trail, effective>>
    PROVE  StepOK
<1>1. ReportsTruthful' /\ TrailTruthful'
  BY DEF CoreInv, ReportsTruthful, TrailTruthful
<1>2. AllFit' /\ AllMet'
  BY DEF CoreInv, AllFit, Fits, AllMet, Pending
<1>3. ASSUME NEW s \in Requests PROVE Passes(s) /\ Replaces(s)
  BY DEF Passes, Replaces
<1> QED
  BY <1>1, <1>2, <1>3 DEF StepOK, CoreInv

LEMMA StepKeeps ==
    ASSUME CoreInv, Step
    PROVE  StepOK
<1>1. ASSUME NEW r \in Requests, Proceed(r) PROVE StepOK
  <2>1. CASE Refuse(r) \/ DetectDeadlock(r)
    BY <1>1, <2>1, Failing DEF Refuse, DetectDeadlock, Pending
  <2>2. CASE Record(r)
    <3>1. Result(r) \in {"success", "failure"} /\ (Result(r) = "success" => r \in effective)
      <4>1. req[r] \in Request
        BY <2>2, Begun DEF Record, CoreInv
      <4> QED
        BY <2>2, <4>1 DEF Record, Result, Request, CoreInv, ReportsTruthful
    <3> HIDE DEF Result
    <3> QED
      BY <2>2, <3>1, Ending DEF Record
  <2>3. CASE \E reply \in BOOLEAN :
               \/ CreateRole(r, reply) \/ GrantPermission(r, reply)
               \/ Cascade(r, reply) \/ ReplaceCommit(r, reply)
    BY <2>3, Committing
  <2>4. CASE RequireActiveUser(r) \/ Authorize(r)
    BY <2>4, Authorizing
  <2>5. CASE DeleteRole(r)
    BY <2>5, Deleting
  <2>6. CASE ReplaceBegin(r) \/ ReplaceDelete(r) \/ \E p \in Permissions : ReplaceInsert(r, p)
    BY <2>6, Replacing
  <2> QED
    BY <1>1, <2>1, <2>2, <2>3, <2>4, <2>5, <2>6 DEF Proceed
<1>2. ASSUME NEW r \in Requests, NEW u \in Users, NEW op \in Operations, NEW x \in Roles,
             NEW P \in Asked(op), Begin(r, u, op, x, P)
      PROVE  StepOK
  <2>1. P \in SUBSET Permissions
    BY DEF Asked, Operations
  <2> QED
    BY <1>2, <2>1, Beginning
<1>3. ASSUME NEW u \in Users, SetUserActive(u) \/ \E R \in SUBSET Roles : ReplaceUserRoles(u, R)
      PROVE  StepOK
  <2>t. DataTypes
    BY DEF CoreInv
  <2>a. ASSUME NEW A, NEW R, Manage(A, R), A \subseteq Users, R \in [Users -> SUBSET Roles]
        PROVE  DataTypes'
    BY <2>t, <2>a, ChangesAssumption DEF DataTypes, Manage
  <2>1. DataTypes'
    <3>1. CASE SetUserActive(u)
      <4>1. (IF u \in active THEN active \ {u} ELSE active \cup {u}) \subseteq Users
        BY <2>t DEF DataTypes
      <4> QED
        BY <2>t, <2>a, <3>1, <4>1 DEF DataTypes, SetUserActive
    <3>2. ASSUME NEW R \in SUBSET Roles, ReplaceUserRoles(u, R) PROVE DataTypes'
      <4>1. [userRoles EXCEPT ![u] = R] \in [Users -> SUBSET Roles] /\ active \subseteq Users
        BY <2>t DEF DataTypes
      <4> QED
        BY <2>a, <3>2, <4>1 DEF ReplaceUserRoles
    <3> QED
      BY <1>3, <3>1, <3>2
  <2> QED
    BY <1>3, <2>1, Managing DEF SetUserActive, ReplaceUserRoles, Manage
<1>4. CASE UNCHANGED <<data, req, trail, changes, effective>>
  BY <1>4, Managing DEF CoreInv, DataTypes, data
<1> QED
  BY <1>1, <1>2, <1>3, <1>4 DEF Step

-----------------------------------------------------------------------------
(***************************************************************************)
(* Theorems                                                                *)
(***************************************************************************)
LEMMA Initially == Init => AccessInv
<1> SUFFICES ASSUME Init PROVE AccessInv
  OBVIOUS
<1>1. req = [r \in Requests |-> New] /\ trail = {} /\ entitled = {} /\ effective = {}
  BY DEF Init
<1>2. \A r \in Requests : req[r] = New /\ req[r].at = "new"
  BY <1>1, NoRequest
<1>3. DataTypes
  BY ChangesAssumption DEF Init, DataTypes
<1>4. req \in [Requests -> State] /\ entitled \subseteq Requests
  BY <1>1 DEF State
<1>5. ReportsTruthful /\ TrailTruthful
  BY <1>1, <1>2 DEF ReportsTruthful, TrailTruthful
<1>6. AllFit /\ AllMet
  BY <1>2 DEF AllFit, Fits, Underway, AllMet, Pending
<1>7. EntitledNow /\ EffectsAuthorized
  BY <1>2 DEF EntitledNow, EffectsAuthorized, Justified, Pending
<1> QED
  BY <1>3, <1>4, <1>5, <1>6, <1>7 DEF AccessInv, CoreInv

LEMMA Always == AccessInv /\ [Next]_vars => AccessInv'
<1> SUFFICES ASSUME AccessInv, [Next]_vars PROVE AccessInv'
  OBVIOUS
<1>1. CASE Next
  <2>1. StepOK
    BY <1>1, StepKeeps DEF Next, AccessInv
  <2>2. entitled' = {r \in Requests : Pending(r)' /\ (r \in entitled \/ Justified(r)')}
    BY <1>1 DEF Next
  <2>3. EntitledNow'
    BY <2>2 DEF EntitledNow, Justified
  <2>4. EffectsAuthorized'
    <3> SUFFICES ASSUME NEW r \in Requests, req'[r].at \in Authorized
                 PROVE  r \in entitled'
      BY DEF EffectsAuthorized, Authorized
    <3>1. r \in entitled
      BY <2>1 DEF StepOK, Passes, AccessInv, EntitledNow, EffectsAuthorized, Authorized
    <3>2. Pending(r)'
      BY DEF Pending, Authorized
    <3> QED
      BY <2>2, <3>1, <3>2
  <2>5. entitled' \subseteq Requests
    BY <2>2
  <2> QED
    BY <2>1, <2>3, <2>4, <2>5 DEF StepOK, AccessInv
<1>2. CASE UNCHANGED vars
  <2>1. CoreInv'
    BY <1>2, Managing DEF vars, AccessInv, CoreInv, DataTypes, StepOK
  <2>2. (entitled \subseteq Requests)' /\ EntitledNow' /\ EffectsAuthorized'
    BY <1>2 DEF vars, AccessInv, EntitledNow, EffectsAuthorized, Justified, Pending, HasPermission
  <2> QED
    BY <2>1, <2>2 DEF AccessInv
<1> QED
  BY <1>1, <1>2

LEMMA Invariance == Spec => []AccessInv
  BY Initially, Always, PTL DEF Spec

\* Accounts, roles, grants, requests and the trail keep their types.
THEOREM TypeCorrect == Spec => []TypeOK
<1>1. AccessInv => TypeOK
  BY DEF AccessInv, CoreInv, DataTypes, TypeOK, State
<1> QED
  BY <1>1, Invariance, PTL

\* Nobody gets past Authorize who was not, at one moment of the request, active
\* and holder of the permission.
THEOREM OnlyEntitledPass == Spec => []EffectsAuthorized
<1>1. AccessInv => EffectsAuthorized
  BY DEF AccessInv
<1> QED
  BY <1>1, Invariance, PTL

\* auditedIAM.record never reports a success that was not committed.
THEOREM TrailsTruthful == Spec => []TrailTruthful
<1>1. AccessInv => TrailTruthful
  BY DEF AccessInv, CoreInv
<1> QED
  BY <1>1, Invariance, PTL

\* ReplaceRolePermissions leaves nothing of a request that was over before it
\* began.
THEOREM ReplacementsSupersede == Spec => SupersededGone
<1>1. AccessInv /\ [Next]_vars =>
        [\A r \in Requests : r \in effective' \ effective /\ req[r].op = "replace" =>
            granted'[req[r].role] \subseteq req[r].asked \cup req[r].met]_vars
  BY StepKeeps DEF AccessInv, Next, StepOK, Replaces
<1> QED
  BY <1>1, Invariance, PTL DEF Spec, SupersededGone
=============================================================================
