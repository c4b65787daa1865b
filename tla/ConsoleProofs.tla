---------------------------- MODULE ConsoleProofs ----------------------------
(***************************************************************************)
(* Proofs about the console for any number of threads, sessions, accounts  *)
(* and rows: the alert queue keeps one open alert a key, a SOC session has *)
(* shown its second factor, and an address listed as blocked is dropped.   *)
(* Every part changes under its own steps only, so each theorem follows    *)
(* one part and the others are stutters.                                   *)
(***************************************************************************)
EXTENDS Console, SequenceTheorems, FiniteSetTheorems, TLAPS

Statuses == {"new", "acknowledged", "case_opened", "closed", "false_positive"}
Alert == [key : Keys, status : Statuses, count : Nat, owner : BOOLEAN]

IsOpen(i) == alerts[i].status \notin Ended

\* The rows, and what a reporter remembers of one of them.
DeskType ==
    /\ alerts \in Seq(Alert)
    /\ DOMAIN found = Reporters
    /\ \A r \in Reporters : found[r] # None =>
          found[r] \in [key : Keys, id : 0..Len(alerts), count : Nat]

\* No two open alerts have the same key.
NoTwins ==
    \A i, j \in DOMAIN alerts :
        alerts[i].key = alerts[j].key /\ IsOpen(i) /\ IsOpen(j) => i = j

DeskInv == DeskType /\ NoTwins
-----------------------------------------------------------------------------
\* A step that rewrites one row, keeping its key, and opens it only if it was open
\* or its key had no open alert, keeps the rows apart.
LEMMA RewriteKeeps ==
  ASSUME DeskInv, NEW i \in DOMAIN alerts, NEW e \in Alert,
         alerts' = [alerts EXCEPT ![i] = e], found' = found,
         e.key = alerts[i].key,
         e.status \notin Ended => IsOpen(i) \/ Unique(alerts[i].key)
  PROVE  DeskInv'
<1>1. alerts \in Seq(Alert) /\ i \in 1..Len(alerts) /\ DOMAIN alerts = 1..Len(alerts)
  BY LenProperties DEF DeskInv, DeskType
<1>2. /\ alerts' \in Seq(Alert) /\ Len(alerts') = Len(alerts)
      /\ \A j \in 1..Len(alerts) : alerts'[j] = IF j = i THEN e ELSE alerts[j]
  BY <1>1, ExceptSeq
<1>3. DOMAIN alerts' = DOMAIN alerts
  BY <1>1, <1>2, LenProperties
<1>4. DeskType'
  BY <1>2 DEF DeskInv, DeskType
<1>5. NoTwins'
  <2> SUFFICES ASSUME NEW j \in DOMAIN alerts, NEW k \in DOMAIN alerts,
                      alerts'[j].key = alerts'[k].key, IsOpen(j)', IsOpen(k)'
               PROVE  j = k
    BY <1>3 DEF NoTwins
  <2>1. \A m \in DOMAIN alerts : alerts'[m].key = alerts[m].key
    BY <1>1, <1>2
  <2>2. \A m \in DOMAIN alerts : m # i /\ IsOpen(m)' => IsOpen(m)
    BY <1>1, <1>2 DEF IsOpen
  <2>3. IsOpen(i)' => e.status \notin Ended
    BY <1>1, <1>2 DEF IsOpen
  <2>4. ASSUME NEW m \in DOMAIN alerts, Unique(alerts[m].key) PROVE ~IsOpen(m)
    BY <2>4 DEF Unique, Open, IsOpen
  <2>5. ASSUME NEW m \in DOMAIN alerts, IsOpen(m), alerts[m].key = alerts[i].key,
               IsOpen(i)'
        PROVE  m = i
    BY <2>3, <2>4, <2>5 DEF DeskInv, NoTwins
  <2>6. QED
    BY <2>1, <2>2, <2>5 DEF DeskInv, NoTwins
<1>6. QED
  BY <1>4, <1>5 DEF DeskInv

\* A reporter reads: nothing of the queue changes, and what it remembers is a row.
LEMMA FindKeeps ==
  ASSUME DeskInv, NEW r \in Reporters, NEW k \in Keys, FindAlert(r, k)
  PROVE  DeskInv'
<1>1. alerts \in Seq(Alert) /\ DOMAIN alerts = 1..Len(alerts) /\ Len(alerts) \in Nat
  BY LenProperties DEF DeskInv, DeskType
<1>2. alerts' = alerts
  BY DEF FindAlert
<1>3. NoTwins'
  BY <1>2 DEF DeskInv, NoTwins, IsOpen
<1>4. DeskType'
  <2>1. CASE k \in suppressed
    BY <1>2, <2>1 DEF FindAlert, DeskInv, DeskType
  <2>2. CASE k \notin suppressed /\ Open(k) = {}
    <3> DEFINE f == [key |-> k, id |-> 0, count |-> 0]
    <3>1. f \in [key : Keys, id : 0..Len(alerts), count : Nat]
      BY <1>1
    <3>2. found' = [found EXCEPT ![r] = f]
      BY <2>2 DEF FindAlert
    <3>3. QED
      BY <1>2, <3>1, <3>2 DEF DeskInv, DeskType
  <2>3. CASE k \notin suppressed /\ Open(k) # {}
    <3> DEFINE n == CHOOSE i \in Open(k) : \A j \in Open(k) : j =< i
               f == [key |-> k, id |-> n, count |-> alerts[n].count]
    <3>1. PICK i \in Open(k) : TRUE
      BY <2>3
    <3>2. i \in 1..Len(alerts) /\ \A j \in Open(k) : j = i
      BY <1>1, <3>1 DEF Open, IsOpen, DeskInv, NoTwins
    <3>3. n \in Open(k)
      <4>1. \E m \in Open(k) : \A j \in Open(k) : j =< m
        BY <1>1, <3>1, <3>2
      <4>2. QED
        BY <4>1, Zenon
    <3> HIDE DEF n
    <3>4. n \in 1..Len(alerts) /\ alerts[n] \in Alert
      BY <1>1, <3>2, <3>3, ElementOfSeq
    <3>5. f \in [key : Keys, id : 0..Len(alerts), count : Nat]
      BY <1>1, <3>4 DEF Alert
    <3>6. found' = [found EXCEPT ![r] = f]
      BY <2>3 DEF FindAlert, n
    <3>7. QED
      BY <1>2, <3>5, <3>6 DEF DeskInv, DeskType
  <2>4. QED
    BY <2>1, <2>2, <2>3
<1>5. QED
  BY <1>3, <1>4 DEF DeskInv

\* A reporter writes: it raises the count of a row, open or not, or adds one if
\* the index allows it.
LEMMA WriteKeeps ==
  ASSUME DeskInv, NEW r \in Reporters, WriteAlert(r)
  PROVE  DeskInv'
<1>1. /\ alerts \in Seq(Alert) /\ DOMAIN alerts = 1..Len(alerts) /\ Len(alerts) \in Nat
      /\ \A i \in 1..Len(alerts) : alerts[i] \in Alert
  BY LenProperties, ElementOfSeq DEF DeskInv, DeskType
<1> DEFINE f == found[r]
<1>2. f \in [key : Keys, id : 0..Len(alerts), count : Nat]
  BY DEF WriteAlert, DeskInv, DeskType
<1>3. found' = [found EXCEPT ![r] = None]
  BY DEF WriteAlert
<1>4. ASSUME alerts' \in Seq(Alert), Len(alerts') >= Len(alerts) PROVE DeskType'
  <2>1. Len(alerts') \in Nat
    BY <1>4, LenProperties
  <2>2. DOMAIN found' = Reporters /\ \A x \in Reporters : found'[x] = IF x = r THEN None ELSE found[x]
    BY <1>3 DEF DeskInv, DeskType
  <2>3. ASSUME NEW x \in Reporters, found'[x] # None
        PROVE  found'[x] \in [key : Keys, id : 0..Len(alerts'), count : Nat]
    <3>1. found[x] \in [key : Keys, id : 0..Len(alerts), count : Nat] /\ found'[x] = found[x]
      BY <2>2, <2>3 DEF DeskInv, DeskType
    <3>2. QED
      BY <1>1, <1>4, <2>1, <3>1
  <2>4. QED
    BY <1>4, <2>2, <2>3 DEF DeskType
<1>5. CASE f.id # 0
  <2> DEFINE e == [alerts[f.id] EXCEPT !.count = f.count + 1]
  <2>1. f.id \in 1..Len(alerts) /\ f.count + 1 \in Nat
    BY <1>1, <1>2, <1>5
  <2>2. e \in Alert /\ e.key = alerts[f.id].key /\ e.status = alerts[f.id].status
    BY <1>1, <2>1 DEF Alert
  <2>3. alerts' = [alerts EXCEPT ![f.id] = e]
    BY <1>5 DEF WriteAlert
  <2> HIDE DEF e
  <2>4. /\ alerts' \in Seq(Alert) /\ Len(alerts') = Len(alerts)
        /\ \A j \in 1..Len(alerts) : alerts'[j] = IF j = f.id THEN e ELSE alerts[j]
    BY <1>1, <2>1, <2>2, <2>3, ExceptSeq
  <2>5. DOMAIN alerts' = DOMAIN alerts
    BY <1>1, <2>4, LenProperties
  <2>6. \A j \in DOMAIN alerts : alerts'[j].key = alerts[j].key /\ alerts'[j].status = alerts[j].status
    BY <1>1, <2>2, <2>4
  <2>7. NoTwins'
    BY <2>5, <2>6 DEF DeskInv, NoTwins, IsOpen
  <2>8. QED
    BY <1>1, <1>4, <2>4, <2>7 DEF DeskInv
<1>6. CASE f.id = 0 /\ Unique(f.key) /\ Len(alerts) < MaxAlerts
  <2> DEFINE e == [key |-> f.key, status |-> "new", count |-> 1, owner |-> FALSE]
  <2>1. e \in Alert /\ e.key = f.key
    BY <1>2 DEF Alert, Statuses
  <2>2. alerts' = Append(alerts, e)
    BY <1>6 DEF WriteAlert
  <2> HIDE DEF e
  <2>3. /\ alerts' \in Seq(Alert) /\ Len(alerts') = Len(alerts) + 1
        /\ DOMAIN alerts' = 1..Len(alerts) + 1
        /\ alerts'[Len(alerts) + 1] = e
        /\ \A j \in 1..Len(alerts) : alerts'[j] = alerts[j]
    BY <1>1, <2>1, <2>2, AppendProperties, LenProperties
  <2>4. \A j \in 1..Len(alerts) : alerts[j].key = f.key => ~IsOpen(j)
    BY <1>1, <1>6 DEF Unique, Open, IsOpen
  <2>5. NoTwins'
    <3> SUFFICES ASSUME NEW j \in 1..Len(alerts) + 1, NEW k \in 1..Len(alerts) + 1,
                        alerts'[j].key = alerts'[k].key, IsOpen(j)', IsOpen(k)'
                 PROVE  j = k
      BY <2>3 DEF NoTwins
    <3>1. \A m \in 1..Len(alerts) : IsOpen(m)' => IsOpen(m)
      BY <2>3 DEF IsOpen
    <3>2. CASE j \in 1..Len(alerts) /\ k \in 1..Len(alerts)
      BY <1>1, <2>3, <3>1, <3>2 DEF DeskInv, NoTwins
    <3>3. CASE j = Len(alerts) + 1 \/ k = Len(alerts) + 1
      BY <1>1, <2>1, <2>3, <2>4, <3>1, <3>3
    <3>4. QED
      BY <1>1, <3>2, <3>3
  <2>6. QED
    BY <1>1, <1>4, <2>3, <2>5 DEF DeskInv
<1>7. CASE f.id = 0 /\ ~(Unique(f.key) /\ Len(alerts) < MaxAlerts)
  <2>1. alerts' = alerts
    BY <1>7 DEF WriteAlert
  <2>2. QED
    BY <1>1, <1>4, <2>1 DEF DeskInv, NoTwins, IsOpen
<1>8. QED
  BY <1>5, <1>6, <1>7

\* Reports, analysts' clicks and cases, in any order, keep the rows apart.
LEMMA DeskInvInductive ==
  ASSUME DeskInv, AlertNext \/ CaseNext \/ UNCHANGED deskVars
  PROVE  DeskInv'
<1>1. /\ alerts \in Seq(Alert) /\ DOMAIN alerts = 1..Len(alerts)
      /\ \A i \in 1..Len(alerts) : alerts[i] \in Alert
  BY LenProperties, ElementOfSeq DEF DeskInv, DeskType
<1>2. ASSUME NEW i \in DOMAIN alerts, NEW s \in Statuses,
             alerts' = [alerts EXCEPT ![i].status = s], found' = found,
             s \notin Ended => (alerts[i].status \in Ended => Unique(alerts[i].key))
      PROVE  DeskInv'
  <2> DEFINE e == [alerts[i] EXCEPT !.status = s]
  <2>1. e \in Alert /\ e.key = alerts[i].key /\ e.status = s
    BY <1>1 DEF Alert
  <2>2. alerts' = [alerts EXCEPT ![i] = e]
    BY <1>2
  <2> HIDE DEF e
  <2>3. QED
    BY <1>2, <2>1, <2>2, RewriteKeeps DEF IsOpen
<1>3. ASSUME NEW i \in DOMAIN alerts,
             AcknowledgeAlert(i) \/ ReopenAlert(i) \/ LinkAlertToCase(i)
      PROVE  DeskInv'
  BY <1>2, <1>3
  DEF AcknowledgeAlert, ReopenAlert, LinkAlertToCase, OpenAgain, Statuses
<1>4. ASSUME NEW i \in DOMAIN alerts, CloseAlert(i) \/ MarkFalsePositive(i)
      PROVE  DeskInv'
  BY <1>2, <1>4 DEF CloseAlert, MarkFalsePositive, Statuses, Ended
<1>5. ASSUME NEW i \in DOMAIN alerts, AssignAlert(i) PROVE DeskInv'
  <2> DEFINE e == [alerts[i] EXCEPT !.owner = ~@]
  <2>1. e \in Alert /\ e.key = alerts[i].key /\ e.status = alerts[i].status
    BY <1>1 DEF Alert
  <2>2. alerts' = [alerts EXCEPT ![i] = e] /\ found' = found
    BY <1>5 DEF AssignAlert
  <2> HIDE DEF e
  <2>3. QED
    BY <2>1, <2>2, RewriteKeeps DEF IsOpen
<1>6. CASE CaseNext \/ UNCHANGED deskVars
  <2>1. UNCHANGED <<alerts, found>>
    BY <1>6 DEF CaseNext, CasesOpen, L1Escalate, L1Action, CaseAssign, CaseEscalate,
                CaseClose, AssistantAction, AlertsUnchanged, deskVars
  <2>2. QED
    BY <2>1 DEF DeskInv, DeskType, NoTwins, IsOpen
<1>7. QED
  BY <1>3, <1>4, <1>5, <1>6, FindKeeps, WriteKeeps DEF AlertNext

\* However reporters, the correlation engine and analysts interleave, no key has
\* two open alerts: what create_or_update_alert read is stale when it writes, and
\* the partial unique index is what keeps the rows apart.
THEOREM NoDuplicateAlerts == Spec => []OneOpenAlert
<1>1. Init => DeskInv
  <2>1. Init => alerts = <<>> /\ found = [r \in Reporters |-> None]
    BY DEF Init, DeskInit
  <2>2. <<>> \in Seq(Alert) /\ DOMAIN <<>> = {}
    OBVIOUS
  <2>3. QED
    BY <2>1, <2>2 DEF DeskInv, DeskType, NoTwins
<1>2. DeskInv /\ [Next]_consoleVars => DeskInv'
  <2>1. [Next]_consoleVars => AlertNext \/ CaseNext \/ UNCHANGED deskVars
    BY DEF Next, DeskStep, IdsBlockStep, SocBlockStep, AccessStep, IfaceStep,
           MigStep, SnapStep, consoleVars
  <2>2. QED
    BY <2>1, DeskInvInductive
<1>3. DeskInv => OneOpenAlert
  <2> SUFFICES ASSUME DeskInv, NEW k \in Keys PROVE Cardinality(Open(k)) =< 1
    BY DEF OneOpenAlert
  <2>1. CASE Open(k) = {}
    BY <2>1, FS_EmptySet
  <2>2. CASE Open(k) # {}
    <3>1. PICK i \in Open(k) : TRUE
      BY <2>2
    <3>2. Open(k) = {i}
      BY <3>1 DEF Open, DeskInv, NoTwins, IsOpen
    <3>3. QED
      BY <3>2, FS_Singleton
  <2>3. QED
    BY <2>1, <2>2
<1>4. QED
  BY <1>1, <1>2, <1>3, PTL DEF Spec
-----------------------------------------------------------------------------
Session == [admin : Accounts \cup {Nobody}, reauth : BOOLEAN,
            soc : Accounts \cup {Nobody}, pending : Accounts \cup {Nobody},
            overdue : BOOLEAN, enroll : Secrets \cup {""}]
Shown == [needed : BOOLEAN, password : BOOLEAN, code : BOOLEAN]

SessionType == sess \in [Browsers -> Session] /\ proof \in [Browsers -> Shown]

\* What a session rests on: a login that waits for its code gave the password,
\* and one that is complete gave what was needed when it began.
Earned(b) ==
    /\ sess[b].pending # Nobody => proof[b].password
    /\ sess[b].soc # Nobody =>
          proof[b].password /\ (proof[b].needed => proof[b].code)

AccessInv == SessionType /\ \A b \in Browsers : Earned(b)

\* A step that changes the session of one browser only.
LEMMA SessionKeeps ==
  ASSUME AccessInv, NEW b \in Browsers, NEW s \in Session, NEW p \in Shown,
         sess' = [sess EXCEPT ![b] = s], proof' = [proof EXCEPT ![b] = p],
         s.pending # Nobody => p.password,
         s.soc # Nobody => p.password /\ (p.needed => p.code)
  PROVE  AccessInv'
<1>1. SessionType'
  BY DEF AccessInv, SessionType
<1>2. ASSUME NEW x \in Browsers PROVE Earned(x)'
  <2>1. CASE x = b
    <3>1. sess'[x] = s /\ proof'[x] = p
      BY <2>1 DEF AccessInv, SessionType
    <3>2. QED
      BY <3>1 DEF Earned
  <2>2. CASE x # b
    <3>1. sess'[x] = sess[x] /\ proof'[x] = proof[x]
      BY <2>2 DEF AccessInv, SessionType
    <3>2. QED
      BY <3>1 DEF Earned, AccessInv
  <2>3. QED
    BY <2>1, <2>2
<1>3. QED
  BY <1>1, <1>2 DEF AccessInv

\* A step after which the login of the browser is what it was: other fields of the
\* session change, and a waiting login may be given up.
LEMMA SameLoginKeeps ==
  ASSUME AccessInv, NEW b \in Browsers, NEW s \in Session,
         sess' = [sess EXCEPT ![b] = s], proof' = proof,
         s.soc = sess[b].soc, s.pending \in {sess[b].pending, Nobody}
  PROVE  AccessInv'
<1>1. proof[b] \in Shown /\ proof' = [proof EXCEPT ![b] = proof[b]] /\ Earned(b)
  BY DEF AccessInv, SessionType
<1>2. QED
  BY <1>1, SessionKeeps DEF Earned

\* No step of an administrator or an analyst completes a login that is not earned.
LEMMA AccessInvInductive ==
  ASSUME AccessInv, AccessNext \/ UNCHANGED accessVars
  PROVE  AccessInv'
<1>0. ASSUME NEW b \in Browsers
      PROVE  sess[b] \in Session /\ proof[b] \in Shown /\ Earned(b)
  BY DEF AccessInv, SessionType
<1>n. NoSession \in Session /\ NoProof \in Shown
  BY DEF NoSession, NoProof, Session, Shown
<1>1. CASE UNCHANGED <<sess, proof>>
  BY <1>1 DEF AccessInv, SessionType, Earned
<1>2. ASSUME NEW b \in Browsers, NEW u \in Accounts, NEW right \in BOOLEAN,
             NEW enlisted \in BOOLEAN, NEW answered \in BOOLEAN,
             SocLogin(b, u, right, enlisted, answered)
      PROVE  AccessInv'
  <2> DEFINE p == [needed |-> answered /\ users[u].secret # "",
                   password |-> TRUE, code |-> FALSE]
  <2>1. p \in Shown
    BY DEF Shown, UserHasMfa
  <2>2. CASE UserHasMfa(u, answered) /\ proof' = [proof EXCEPT ![b] = p]
             /\ sess' = [sess EXCEPT ![b].pending = u, ![b].overdue = FALSE]
    <3> DEFINE s == [sess[b] EXCEPT !.pending = u, !.overdue = FALSE]
    <3>1. s \in Session /\ s.soc = sess[b].soc
      BY <1>0 DEF Session
    <3>2. sess' = [sess EXCEPT ![b] = s] /\ sess[b].soc = Nobody
      BY <1>2, <2>2 DEF SocLogin
    <3> HIDE DEF s
    <3>3. QED
      BY <2>1, <2>2, <3>1, <3>2, SessionKeeps
  <2>3. CASE ~UserHasMfa(u, answered) /\ proof' = [proof EXCEPT ![b] = p]
             /\ sess' = [sess EXCEPT ![b].soc = u]
    <3> DEFINE s == [sess[b] EXCEPT !.soc = u]
    <3>1. s \in Session
      BY <1>0 DEF Session
    <3>2. sess' = [sess EXCEPT ![b] = s]
      BY <2>3
    <3>3. ~p.needed /\ p.password
      BY <2>3 DEF UserHasMfa
    <3> HIDE DEF s, p
    <3>4. QED
      BY <2>1, <2>3, <3>1, <3>2, <3>3, SessionKeeps
  <2>4. QED
    BY <1>1, <1>2, <2>2, <2>3 DEF SocLogin
<1>3. ASSUME NEW b \in Browsers, NEW code, LoginMfa(b, code) PROVE AccessInv'
  <2> DEFINE u == sess[b].pending
  <2>0. u # Nobody /\ proof[b].password
    BY <1>0, <1>3 DEF LoginMfa, Earned
  <2>1. CASE /\ VerifyTotp(users[u].secret, code)
             /\ sess' = [sess EXCEPT ![b].soc = u, ![b].pending = Nobody]
             /\ proof' = [proof EXCEPT ![b].code = code # "" /\ code = users[u].secret]
    <3> DEFINE s == [sess[b] EXCEPT !.soc = u, !.pending = Nobody]
               p == [proof[b] EXCEPT !.code = code # "" /\ code = users[u].secret]
    <3>1. s \in Session /\ s.pending = Nobody
      BY <1>0 DEF Session
    <3>2. code # "" /\ code = users[u].secret
      BY <2>1 DEF VerifyTotp
    <3>3. p \in Shown /\ p.password /\ p.code
      BY <1>0, <2>0, <3>2 DEF Shown
    <3>4. sess' = [sess EXCEPT ![b] = s] /\ proof' = [proof EXCEPT ![b] = p]
      BY <2>1
    <3> HIDE DEF s, p
    <3>5. QED
      BY <3>1, <3>3, <3>4, SessionKeeps
  <2>2. CASE /\ sess' = [sess EXCEPT ![b].pending = Nobody, ![b].overdue = FALSE]
             /\ proof' = proof
    <3> DEFINE s == [sess[b] EXCEPT !.pending = Nobody, !.overdue = FALSE]
    <3>1. s \in Session /\ s.soc = sess[b].soc /\ s.pending = Nobody
      BY <1>0 DEF Session
    <3>2. sess' = [sess EXCEPT ![b] = s]
      BY <2>2
    <3> HIDE DEF s
    <3>3. QED
      BY <2>2, <3>1, <3>2, SameLoginKeeps
  <2>3. CASE sess' = [sess EXCEPT ![b].pending = Nobody] /\ proof' = proof
    <3> DEFINE s == [sess[b] EXCEPT !.pending = Nobody]
    <3>1. s \in Session /\ s.soc = sess[b].soc /\ s.pending = Nobody
      BY <1>0 DEF Session
    <3>2. sess' = [sess EXCEPT ![b] = s]
      BY <2>3
    <3> HIDE DEF s
    <3>3. QED
      BY <2>3, <3>1, <3>2, SameLoginKeeps
  <2>4. QED
    BY <1>1, <1>3, <2>1, <2>2, <2>3 DEF LoginMfa
<1>4. ASSUME NEW b \in Browsers, AdminLogout(b) \/ SessionDropped(b) PROVE AccessInv'
  <2>1. sess' = [sess EXCEPT ![b] = NoSession] /\ proof' = [proof EXCEPT ![b] = NoProof]
    BY <1>4 DEF AdminLogout, SessionDropped
  <2>2. NoSession.soc = Nobody /\ NoSession.pending = Nobody
    BY DEF NoSession
  <2>3. QED
    BY <1>n, <2>1, <2>2, SessionKeeps
<1>5. ASSUME NEW b \in Browsers, SocLogout(b) PROVE AccessInv'
  <2> DEFINE s == [NoSession EXCEPT !.admin = sess[b].admin, !.reauth = sess[b].reauth]
  <2>1. s \in Session /\ s.soc = Nobody /\ s.pending = Nobody
    BY <1>0 DEF NoSession, Session
  <2>2. sess' = [sess EXCEPT ![b] = s] /\ proof' = [proof EXCEPT ![b] = NoProof]
    BY <1>5 DEF SocLogout
  <2> HIDE DEF s
  <2>3. QED
    BY <1>n, <2>1, <2>2, SessionKeeps
<1>6. ASSUME NEW b \in Browsers, NEW u \in Accounts, NEW right \in BOOLEAN,
             NEW known \in BOOLEAN, AdminLogin(b, u, right, known)
      PROVE  AccessInv'
  <2> DEFINE s == [sess[b] EXCEPT !.admin = u]
  <2>1. s \in Session /\ s.soc = sess[b].soc /\ s.pending = sess[b].pending
    BY <1>0 DEF Session
  <2>2. proof' = proof /\ (sess' = sess \/ sess' = [sess EXCEPT ![b] = s])
    BY <1>6 DEF AdminLogin
  <2> HIDE DEF s
  <2>3. QED
    BY <1>1, <2>1, <2>2, SameLoginKeeps
<1>7. ASSUME NEW b \in Browsers, NEW x \in BOOLEAN,
             sess' = [sess EXCEPT ![b].reauth = x], proof' = proof
      PROVE  AccessInv'
  <2> DEFINE s == [sess[b] EXCEPT !.reauth = x]
  <2>1. s \in Session /\ s.soc = sess[b].soc /\ s.pending = sess[b].pending
    BY <1>0 DEF Session
  <2>2. sess' = [sess EXCEPT ![b] = s]
    BY <1>7
  <2> HIDE DEF s
  <2>3. QED
    BY <1>7, <2>1, <2>2, SameLoginKeeps
<1>8. ASSUME NEW b \in Browsers, NEW right \in BOOLEAN, NEW recent \in BOOLEAN,
             Reauth(b, right, recent)
      PROVE  AccessInv'
  <2> DEFINE x == IF UserLocked(sess[b].admin) /\ recent THEN FALSE
                  ELSE sess[b].reauth \/ right
  <2>1. x \in BOOLEAN
    OBVIOUS
  <2>2. sess' = [sess EXCEPT ![b].reauth = x] /\ proof' = proof
    BY <1>8 DEF Reauth
  <2> HIDE DEF x
  <2>3. QED
    BY <1>7, <2>1, <2>2
<1>9. ASSUME NEW b \in Browsers, ReauthStale(b) PROVE AccessInv'
  BY <1>7, <1>9 DEF ReauthStale
<1>10. ASSUME NEW b \in Browsers, PendingOverdue(b) PROVE AccessInv'
  <2> DEFINE s == [sess[b] EXCEPT !.overdue = TRUE]
  <2>1. s \in Session /\ s.soc = sess[b].soc /\ s.pending = sess[b].pending
    BY <1>0 DEF Session
  <2>2. sess' = [sess EXCEPT ![b] = s] /\ proof' = proof
    BY <1>10 DEF PendingOverdue
  <2> HIDE DEF s
  <2>3. QED
    BY <2>1, <2>2, SameLoginKeeps
<1>11. ASSUME NEW b \in Browsers, NEW e \in Secrets \cup {""},
              sess' = [sess EXCEPT ![b].enroll = e], proof' = proof
       PROVE  AccessInv'
  <2> DEFINE s == [sess[b] EXCEPT !.enroll = e]
  <2>1. s \in Session /\ s.soc = sess[b].soc /\ s.pending = sess[b].pending
    BY <1>0 DEF Session
  <2>2. sess' = [sess EXCEPT ![b] = s]
    BY <1>11
  <2> HIDE DEF s
  <2>3. QED
    BY <1>11, <2>1, <2>2, SameLoginKeeps
<1>12. ASSUME NEW b \in Browsers, NEW answered \in BOOLEAN,
              \/ EnrollVerify(b, answered)
              \/ \E secret \in Secrets : EnrollBegin(b, secret, answered)
       PROVE  AccessInv'
  BY <1>11, <1>12 DEF EnrollVerify, EnrollBegin
<1>13. CASE \/ WindowPasses \/ BlockTimePasses \/ UNCHANGED accessVars
            \/ \E b \in Browsers :
                  \/ \E u \in Members :
                        \/ AddUser(b, u, FALSE) \/ SocPortalAddUser(b, u)
                        \/ DeleteUser(b, u)
                        \/ AddGroupMember(b, u) \/ RemoveGroupMember(b, u)
                        \/ \E status \in {"active", "inactive"}, tier \in BOOLEAN :
                              EditUser(b, u, status, tier)
                  \/ \E code \in Codes : SecurityDisable(b, code)
  BY <1>1, <1>13
  DEF WindowPasses, BlockTimePasses, accessVars, AddUser, SocPortalAddUser, DeleteUser,
      AddGroupMember, RemoveGroupMember, GroupTier, EditUser, SecurityDisable
<1>14. Analysts \subseteq Accounts
  BY AccessAssumption DEF Accounts
<1>15. QED
  BY <1>2, <1>3, <1>4, <1>5, <1>6, <1>8, <1>9, <1>10, <1>12, <1>13, <1>14
  DEF AccessNext

\* A SOC session is earned, whatever other sessions enrol, disable, lock or let
\* lapse between its password and its code, for any number of accounts, browsers
\* and secrets.
THEOREM SessionsEarned == Spec => []SecondFactor
<1>1. Init => AccessInv
  <2> SUFFICES ASSUME Init PROVE AccessInv
    OBVIOUS
  <2>1. sess = [b \in Browsers |-> NoSession] /\ proof = [b \in Browsers |-> NoProof]
    BY DEF Init, AccessInit
  <2>2. NoSession \in Session /\ NoProof \in Shown
    BY DEF NoSession, NoProof, Session, Shown
  <2>3. NoSession.soc = Nobody /\ NoSession.pending = Nobody
    BY DEF NoSession
  <2>4. QED
    BY <2>1, <2>2, <2>3 DEF AccessInv, SessionType, Earned
<1>2. AccessInv /\ [Next]_consoleVars => AccessInv'
  <2>1. [Next]_consoleVars => AccessNext \/ UNCHANGED accessVars
    BY DEF Next, DeskStep, IdsBlockStep, SocBlockStep, AccessStep, IfaceStep,
           MigStep, SnapStep, consoleVars
  <2>2. QED
    BY <2>1, AccessInvInductive
<1>3. AccessInv => SecondFactor
  BY DEF AccessInv, Earned, SecondFactor
<1>4. QED
  BY <1>1, <1>2, <1>3, PTL DEF Spec
-----------------------------------------------------------------------------
BlockType ==
    /\ clock \in Nat \ {0}
    /\ rows \in [Attackers -> Nat] /\ entry \in [Attackers -> Nat]
    /\ DOMAIN missing = Attackers

\* A row never ends later than a whole Ttl from now, and an address that has no
\* reason to be missing is either over or there for as long as its row says.
HeldInv ==
    \A ip \in Attackers :
        /\ rows[ip] =< clock + Ttl
        /\ missing[ip] = "no" => \/ rows[ip] =< clock
                                 \/ entry[ip] # 0 /\ rows[ip] =< entry[ip] + Ttl

IdsBlockInv == BlockType /\ HeldInv

\* Alerts, unblocks, the expirer and the clock, in any order, keep it.
LEMMA IdsBlockInvInductive ==
  ASSUME IdsBlockInv, IdsBlockNext \/ UNCHANGED idsBlockVars
  PROVE  IdsBlockInv'
<1>0. Ttl \in Nat
  BY BlockingAssumption
<1> USE <1>0 DEF IdsBlockInv, BlockType, HeldInv
<1>1. ASSUME NEW ip \in Attackers, MaybeBlock(ip) PROVE IdsBlockInv'
  BY <1>1 DEF MaybeBlock, Because
<1>2. ASSUME NEW ip \in Attackers, NEW ok \in BOOLEAN, PfAdd(ip, ok)
      PROVE  IdsBlockInv'
  <2>1. CASE ok /\ entry[ip] = 0
    BY <1>2, <2>1 DEF PfAdd, Because
  <2>2. CASE ~(ok /\ entry[ip] = 0)
    BY <1>2, <2>2 DEF PfAdd, Because
  <2>3. QED
    BY <2>1, <2>2
<1>3. ASSUME NEW ip \in Attackers, Unblock(ip) PROVE IdsBlockInv'
  BY <1>3 DEF Unblock
<1>4. ASSUME NEW ip \in Attackers, NEW ok \in BOOLEAN, PfDelete(ip, ok)
      PROVE  IdsBlockInv'
  <2>1. CASE ok
    BY <1>4, <2>1 DEF PfDelete, Because
  <2>2. CASE ~ok
    BY <1>4, <2>2 DEF PfDelete, Because
  <2>3. QED
    BY <2>1, <2>2
<1>5. ASSUME NEW ok \in BOOLEAN, ExpireTable(ok) PROVE IdsBlockInv'
  <2>1. /\ UNCHANGED <<clock, rows, missing>>
        /\ \A ip \in Attackers :
              entry'[ip] \in Nat /\ (entry'[ip] = entry[ip] \/ clock - entry[ip] > Ttl)
    BY <1>5 DEF ExpireTable, TooOld
  <2>2. entry' \in [Attackers -> Nat]
    BY <1>5 DEF ExpireTable
  <2>3. ASSUME NEW ip \in Attackers
        PROVE  /\ rows[ip] =< clock + Ttl
               /\ missing[ip] = "no" => \/ rows[ip] =< clock
                                        \/ entry'[ip] # 0 /\ rows[ip] =< entry'[ip] + Ttl
    <3>1. /\ clock \in Nat /\ rows[ip] \in Nat /\ entry[ip] \in Nat /\ entry'[ip] \in Nat
          /\ entry'[ip] = entry[ip] \/ clock - entry[ip] > Ttl
          /\ rows[ip] =< clock + Ttl
          /\ missing[ip] = "no" => \/ rows[ip] =< clock
                                   \/ entry[ip] # 0 /\ rows[ip] =< entry[ip] + Ttl
      BY <2>1
    <3>2. QED
      BY <3>1
  <2>4. QED
    BY <2>1, <2>2, <2>3
<1>6. CASE ExpireRows
  BY <1>6 DEF ExpireRows
<1>7. CASE Pass
  BY <1>7 DEF Pass
<1>8. CASE RebootIds
  BY <1>8 DEF RebootIds
<1>9. CASE UNCHANGED idsBlockVars
  BY <1>9 DEF idsBlockVars
<1>10. QED
  BY <1>1, <1>2, <1>3, <1>4, <1>5, <1>6, <1>7, <1>8, <1>9 DEF IdsBlockNext
-----------------------------------------------------------------------------
Fields == {"op", "ip", "rec", "stage", "ips", "solo"}

SocType ==
    /\ DOMAIN told = Targets
    /\ DOMAIN job = Staff /\ \A s \in Staff : DOMAIN job[s] = Fields

\* A request that runs alone is the only one under way.
Alone(s) == job[s] # Nowhere /\ job[s].solo =>
    \A t \in Staff \ {s} : job[t] = Nowhere

\* What a request that runs alone knows of its push: the row is as it wrote it,
\* what it read is still what is listed, and the file is what it read.
PushKnown(s) == job[s].solo =>
    /\ job[s].stage \in {"push", "file", "replace"} =>
          /\ job[s].op \in {"block", "unblock"}
          /\ job[s].op = "block" <=> job[s].ip \in listed
    /\ job[s].stage \in {"file", "replace"} => job[s].ips = listed
    /\ job[s].stage = "replace" => socFile = listed

Truthful(ip) ==
    /\ told[ip] = "blocked" => ip \in listed \cap socTable
    /\ told[ip] = "open" => ip \notin listed \cup socTable

SocBlockInv ==
    /\ SocType
    /\ \A s \in Staff : Alone(s) /\ PushKnown(s)
    /\ \A ip \in Targets : Truthful(ip)

\* A request begins: it is alone if nobody else is under way, and nobody else is
\* from then on.
LEMMA BeginAlone ==
  ASSUME SocType, \A t \in Staff : Alone(t), NEW s \in Staff, NEW j,
         DOMAIN j = Fields, Begin(s, j)
  PROVE  /\ DOMAIN job' = Staff /\ \A t \in Staff : DOMAIN job'[t] = Fields
         /\ \A t \in Staff : Alone(t)'
         /\ \A t \in Staff : t # s => ~job'[t].solo \/ job'[t] = Nowhere
         /\ job'[s] = [j EXCEPT !.solo = (Busy = {})]
<1>1. job'[s] = [j EXCEPT !.solo = (Busy = {})] /\ DOMAIN job' = Staff
  BY DEF Begin
<1>2. ASSUME NEW t \in Staff, t # s
      PROVE  \/ t \in Busy /\ job'[t] = [job[t] EXCEPT !.solo = FALSE]
             \/ t \notin Busy /\ job[t] = Nowhere /\ job'[t] = Nowhere
  BY <1>2 DEF Begin, Busy
<1>3. DOMAIN Nowhere = Fields
  BY DEF Nowhere, Fields
<1>4. \A t \in Staff : DOMAIN job'[t] = Fields
  BY <1>1, <1>2, <1>3 DEF SocType
<1>5. ASSUME NEW t \in Staff, t # s PROVE ~job'[t].solo \/ job'[t] = Nowhere
  BY <1>2, <1>5 DEF SocType, Fields
<1>6. job'[s].solo <=> Busy = {}
  BY <1>1 DEF Fields
<1>7. ASSUME NEW t \in Staff PROVE Alone(t)'
  BY <1>2, <1>5, <1>6 DEF Alone
<1>8. QED
  BY <1>1, <1>4, <1>5, <1>7

\* A step of request s that changes its own job only, and not whether it is alone.
LEMMA StageAlone ==
  ASSUME SocType, \A t \in Staff : Alone(t), NEW s \in Staff, NEW j,
         job' = [job EXCEPT ![s] = j], DOMAIN j = Fields,
         job[s] # Nowhere, j = Nowhere \/ j.solo = job[s].solo
  PROVE  /\ DOMAIN job' = Staff /\ \A t \in Staff : DOMAIN job'[t] = Fields
         /\ \A t \in Staff : Alone(t)'
         /\ \A t \in Staff : t # s => job'[t] = job[t] /\ (~job[t].solo \/ job[t] = Nowhere)
         /\ job'[s] = j
<1>1. DOMAIN job' = Staff /\ job'[s] = j /\ \A t \in Staff : t # s => job'[t] = job[t]
  BY DEF SocType
<1>2. \A t \in Staff : DOMAIN job'[t] = Fields
  BY <1>1 DEF SocType
<1>3. \A t \in Staff : t # s => ~job[t].solo \/ job[t] = Nowhere
  BY DEF Alone
<1>4. \A t \in Staff : Alone(t)'
  BY <1>1, <1>3 DEF Alone
<1>5. QED
  BY <1>1, <1>2, <1>3, <1>4

\* Of a request that is disturbed, or none, nothing is claimed.
LEMMA QuietPush ==
  ASSUME NEW s \in Staff, ~job'[s].solo \/ job'[s] = Nowhere
  PROVE  PushKnown(s)'
BY DEF PushKnown, Nowhere

\* A row written by request s, alone or not, withdraws what was told of it.
LEMMA RowWritten ==
  ASSUME SocType, \A ip \in Targets : Truthful(ip),
         NEW op, NEW x, WriteListed(op, x), socTable' = socTable
  PROVE  DOMAIN told' = Targets /\ \A ip \in Targets : Truthful(ip)'
<1>1. DOMAIN told' = Targets
  BY DEF WriteListed, SocType
<1>2. ASSUME NEW ip \in Targets PROVE Truthful(ip)'
  <2>1. CASE ip = x
    BY <2>1 DEF WriteListed, SocType, Truthful
  <2>2. CASE ip # x
    BY <2>2 DEF WriteListed, SocType, Truthful
  <2>3. QED
    BY <2>1, <2>2
<1>3. QED
  BY <1>1, <1>2

\* Every request of staff, playbook and restart keeps what was told true.
LEMMA SocBlockInvInductive ==
  ASSUME SocBlockInv, SocBlockNext \/ UNCHANGED socBlockVars
  PROVE  SocBlockInv'
<1>n. DOMAIN Nowhere = Fields /\ Nowhere.stage = "idle" /\ Nowhere.op = "none" /\ Nowhere.solo
  BY DEF Nowhere, Fields
<1>i. /\ SocType /\ \A s \in Staff : Alone(s)
      /\ \A ip \in Targets : Truthful(ip)
  BY DEF SocBlockInv
<1>j. ASSUME NEW s \in Staff PROVE DOMAIN job[s] = Fields /\ PushKnown(s)
  BY DEF SocBlockInv, SocType
<1>1. ASSUME NEW s \in Staff, NEW ip \in Targets, ActionBlockIp(s, ip)
      PROVE  SocBlockInv'
  <2> DEFINE j == [Nowhere EXCEPT !.op = "block", !.ip = ip, !.stage = "push"]
  <2>1. DOMAIN j = Fields /\ j.op = "block" /\ j.ip = ip /\ j.stage = "push"
    BY DEF Nowhere, Fields
  <2>2. Begin(s, j) /\ WriteListed("block", ip) /\ UNCHANGED <<socTable, socFile>>
    BY <1>1 DEF ActionBlockIp
  <2> HIDE DEF j
  <2>3. /\ DOMAIN job' = Staff /\ \A t \in Staff : DOMAIN job'[t] = Fields
        /\ \A t \in Staff : Alone(t)'
        /\ \A t \in Staff : t # s => ~job'[t].solo \/ job'[t] = Nowhere
        /\ job'[s] = [j EXCEPT !.solo = (Busy = {})]
    BY <1>i, <2>1, <2>2, BeginAlone
  <2>4. job'[s].op = "block" /\ job'[s].ip = ip /\ job'[s].stage = "push" /\ ip \in listed'
    BY <2>1, <2>2, <2>3 DEF Fields, WriteListed
  <2>5. PushKnown(s)'
    BY <2>4 DEF PushKnown
  <2>6. DOMAIN told' = Targets /\ \A x \in Targets : Truthful(x)'
    BY <1>i, <2>2, RowWritten
  <2>7. QED
    BY <2>3, <2>5, <2>6, QuietPush DEF SocBlockInv, SocType
<1>2. ASSUME NEW s \in Staff, NEW j, job' = [job EXCEPT ![s] = j], DOMAIN j = Fields,
             job[s] # Nowhere, j = Nowhere \/ j.solo = job[s].solo,
             UNCHANGED <<socTable, told, listed>>, PushKnown(s)'
      PROVE  SocBlockInv'
  <2>1. /\ DOMAIN job' = Staff /\ \A t \in Staff : DOMAIN job'[t] = Fields
        /\ \A t \in Staff : Alone(t)'
        /\ \A t \in Staff : t # s => job'[t] = job[t] /\ (~job[t].solo \/ job[t] = Nowhere)
    BY <1>i, <1>2, StageAlone
  <2>2. \A ip \in Targets : Truthful(ip)'
    BY <1>i, <1>2 DEF Truthful
  <2>3. QED
    BY <1>2, <1>i, <2>1, <2>2, QuietPush DEF SocBlockInv, SocType
<1>3. ASSUME NEW s \in Staff, PushRead(s) PROVE SocBlockInv'
  <2> DEFINE j == [job[s] EXCEPT !.stage = "file", !.ips = listed]
  <2>1. /\ DOMAIN j = Fields /\ j.op = job[s].op /\ j.ip = job[s].ip /\ j.stage = "file"
        /\ j.ips = listed /\ j.solo = job[s].solo
    BY <1>j DEF Fields
  <2>2. /\ job' = [job EXCEPT ![s] = j] /\ job[s].stage = "push"
        /\ UNCHANGED <<socTable, told, listed>>
    BY <1>3 DEF PushRead
  <2> HIDE DEF j
  <2>3. job'[s] = j /\ job[s] # Nowhere
    BY <1>i, <1>n, <2>2 DEF SocType
  <2>4. job'[s].solo => /\ job[s].op \in {"block", "unblock"}
                        /\ job[s].op = "block" <=> job[s].ip \in listed
    BY <1>j, <2>1, <2>2, <2>3 DEF PushKnown
  <2>5. PushKnown(s)'
    BY <2>1, <2>2, <2>3, <2>4 DEF PushKnown
  <2>6. QED
    BY <1>2, <2>1, <2>2, <2>3, <2>5
<1>4. ASSUME NEW s \in Staff, PushFile(s) PROVE SocBlockInv'
  <2> DEFINE j == [job[s] EXCEPT !.stage = "replace"]
  <2>1. /\ DOMAIN j = Fields /\ j.op = job[s].op /\ j.ip = job[s].ip /\ j.stage = "replace"
        /\ j.ips = job[s].ips /\ j.solo = job[s].solo
    BY <1>j DEF Fields
  <2>2. /\ job' = [job EXCEPT ![s] = j] /\ job[s].stage = "file" /\ socFile' = job[s].ips
        /\ UNCHANGED <<socTable, told, listed>>
    BY <1>4 DEF PushFile, Goto
  <2> HIDE DEF j
  <2>3. job'[s] = j /\ job[s] # Nowhere
    BY <1>i, <1>n, <2>2 DEF SocType
  <2>4. job'[s].solo => /\ job[s].op \in {"block", "unblock"}
                        /\ job[s].op = "block" <=> job[s].ip \in listed
                        /\ job[s].ips = listed
    BY <1>j, <2>1, <2>2, <2>3 DEF PushKnown
  <2>5. PushKnown(s)'
    BY <2>1, <2>2, <2>3, <2>4 DEF PushKnown
  <2>6. QED
    BY <1>2, <2>1, <2>2, <2>3, <2>5
<1>5. ASSUME NEW s \in Staff, NEW ok \in BOOLEAN, PushReplace(s, ok) PROVE SocBlockInv'
  <2>1. /\ job' = [job EXCEPT ![s] = Nowhere] /\ job[s].stage = "replace"
        /\ UNCHANGED <<listed, socFile>> /\ socTable' = IF ok THEN socFile ELSE socTable
    BY <1>5 DEF PushReplace, Finish
  <2>2. job[s] # Nowhere
    BY <1>n, <2>1
  <2>3. /\ DOMAIN job' = Staff /\ \A t \in Staff : DOMAIN job'[t] = Fields
        /\ \A t \in Staff : Alone(t)'
        /\ \A t \in Staff : t # s => job'[t] = job[t] /\ (~job[t].solo \/ job[t] = Nowhere)
        /\ job'[s] = Nowhere
    BY <1>i, <1>n, <2>1, <2>2, StageAlone
  <2>4. DOMAIN told' = Targets /\ \A ip \in Targets : Truthful(ip)'
    <3>1. CASE ~job[s].solo
      <4>1. told' = [ip \in Targets |-> "nothing"]
        BY <1>5, <3>1 DEF PushReplace
      <4>2. QED
        BY <4>1 DEF Truthful
    <3>2. CASE job[s].solo /\ ~ok
      <4>1. told' = told
        BY <1>5, <3>2 DEF PushReplace
      <4>2. QED
        BY <1>i, <2>1, <3>2, <4>1 DEF Truthful, SocType
    <3>3. CASE job[s].solo /\ ok
      <4>1. told' = [told EXCEPT ![job[s].ip] =
                        IF job[s].op = "block" THEN "blocked" ELSE "open"]
        BY <1>5, <3>3 DEF PushReplace
      <4>2. socTable' = listed /\ (job[s].op = "block" <=> job[s].ip \in listed)
        BY <1>j, <2>1, <3>3 DEF PushKnown
      <4>3. DOMAIN told' = Targets
        BY <1>i, <4>1 DEF SocType
      <4>4. ASSUME NEW ip \in Targets PROVE Truthful(ip)'
        <5>1. CASE ip = job[s].ip
          BY <1>i, <2>1, <4>1, <4>2, <5>1 DEF Truthful, SocType
        <5>2. CASE ip # job[s].ip
          BY <1>i, <2>1, <4>1, <4>2, <5>2 DEF Truthful, SocType
        <5>3. QED
          BY <5>1, <5>2
      <4>5. QED
        BY <4>3, <4>4
    <3>4. QED
      BY <3>1, <3>2, <3>3
  <2>5. QED
    BY <2>3, <2>4, QuietPush DEF SocBlockInv, SocType
<1>6. ASSUME NEW s \in Staff, NEW i, NEW op, NEW expect, Review(s, i, op, expect)
      PROVE  SocBlockInv'
  <2> DEFINE j == [Nowhere EXCEPT !.op = op, !.rec = i, !.stage = "decided"]
  <2>1. DOMAIN j = Fields /\ j.stage = "decided"
    BY DEF Nowhere, Fields
  <2>2. Begin(s, j) /\ UNCHANGED <<listed, socTable, socFile, told>>
    BY <1>6 DEF Review
  <2> HIDE DEF j
  <2>3. /\ DOMAIN job' = Staff /\ \A t \in Staff : DOMAIN job'[t] = Fields
        /\ \A t \in Staff : Alone(t)'
        /\ \A t \in Staff : t # s => ~job'[t].solo \/ job'[t] = Nowhere
        /\ job'[s] = [j EXCEPT !.solo = (Busy = {})]
    BY <1>i, <2>1, <2>2, BeginAlone
  <2>4. job'[s].stage = "decided"
    BY <2>1, <2>3 DEF Fields
  <2>5. PushKnown(s)'
    BY <2>4 DEF PushKnown
  <2>6. DOMAIN told' = Targets /\ \A x \in Targets : Truthful(x)'
    BY <1>i, <2>2 DEF SocType, Truthful
  <2>7. QED
    BY <2>3, <2>5, <2>6, QuietPush DEF SocBlockInv, SocType
<1>7. ASSUME NEW s \in Staff, NEW stage \in {"send", "apply"}, Goto(s, stage),
             job[s] # Nowhere, UNCHANGED <<listed, socTable, socFile, told>>
      PROVE  SocBlockInv'
  <2> DEFINE j == [job[s] EXCEPT !.stage = stage]
  <2>1. DOMAIN j = Fields /\ j.stage = stage /\ j.solo = job[s].solo
    BY <1>j DEF Fields
  <2>2. job' = [job EXCEPT ![s] = j]
    BY <1>7 DEF Goto
  <2> HIDE DEF j
  <2>3. PushKnown(s)'
    BY <1>i, <2>1, <2>2 DEF PushKnown, SocType
  <2>4. QED
    BY <1>2, <1>7, <2>1, <2>2, <2>3
<1>8. ASSUME NEW s \in Staff, Finish(s), job[s] # Nowhere,
             UNCHANGED <<listed, socTable, socFile, told>>
      PROVE  SocBlockInv'
  <2>1. job' = [job EXCEPT ![s] = Nowhere]
    BY <1>8 DEF Finish
  <2>2. PushKnown(s)'
    BY <1>i, <1>n, <2>1 DEF PushKnown, SocType
  <2>3. QED
    BY <1>2, <1>8, <1>n, <2>1, <2>2
<1>9. ASSUME NEW s \in Staff, SocApprove(s) \/ CoreApprove(s) PROVE SocBlockInv'
  <2>1. job[s] # Nowhere
    BY <1>9, <1>n DEF SocApprove, CoreApprove
  <2>2. QED
    BY <1>7, <1>8, <1>9, <2>1 DEF SocApprove, CoreApprove
<1>10. ASSUME NEW s \in Staff, NEW op \in {"soc_reject", "core_reject"}, NEW status,
              Reject(s, op, status)
       PROVE  SocBlockInv'
  <2>1. job[s] # Nowhere
    BY <1>10, <1>n DEF Reject
  <2>2. QED
    BY <1>8, <1>10, <2>1 DEF Reject
<1>11. ASSUME NEW s \in Staff, ApplyAction(s) PROVE SocBlockInv'
  <2> DEFINE r == recs[job[s].rec]
  <2>0. job[s].stage = "apply" /\ UNCHANGED <<socTable, socFile>> /\ job[s] # Nowhere
    BY <1>11, <1>n DEF ApplyAction
  <2>1. CASE /\ r.op \in {"block", "unblock"} /\ WriteListed(r.op, r.ip)
             /\ job' = [job EXCEPT ![s].op = r.op, ![s].ip = r.ip, ![s].stage = "push"]
    <3> DEFINE j == [job[s] EXCEPT !.op = r.op, !.ip = r.ip, !.stage = "push"]
    <3>1. /\ DOMAIN j = Fields /\ j.op = r.op /\ j.ip = r.ip /\ j.stage = "push"
          /\ j.solo = job[s].solo
      BY <1>j DEF Fields
    <3>2. job' = [job EXCEPT ![s] = j]
      BY <2>1
    <3> HIDE DEF j
    <3>3. /\ DOMAIN job' = Staff /\ \A t \in Staff : DOMAIN job'[t] = Fields
          /\ \A t \in Staff : Alone(t)'
          /\ \A t \in Staff : t # s => job'[t] = job[t] /\ (~job[t].solo \/ job[t] = Nowhere)
          /\ job'[s] = j
      BY <1>i, <2>0, <3>1, <3>2, StageAlone
    <3>4. r.op = "block" <=> r.ip \in listed'
      BY <2>1 DEF WriteListed
    <3>5. PushKnown(s)'
      BY <2>1, <3>1, <3>3, <3>4 DEF PushKnown
    <3>6. DOMAIN told' = Targets /\ \A ip \in Targets : Truthful(ip)'
      BY <1>i, <2>0, <2>1, RowWritten
    <3>7. QED
      BY <3>3, <3>5, <3>6, QuietPush DEF SocBlockInv, SocType
  <2>2. CASE Finish(s) /\ UNCHANGED <<listed, told>>
    BY <1>8, <2>0, <2>2
  <2>3. QED
    BY <1>11, <2>1, <2>2 DEF ApplyAction
<1>12. ASSUME NEW ip \in Targets, PlaybookBlock(ip) PROVE SocBlockInv'
  <2>1. UNCHANGED <<listed, socFile, job>> /\ socTable' = socTable \cup {ip}
    BY <1>12 DEF PlaybookBlock
  <2>2. told' = [told EXCEPT ![ip] = IF told[ip] = "open" THEN "nothing" ELSE told[ip]]
    BY <1>12 DEF PlaybookBlock
  <2>3. ASSUME NEW x \in Targets PROVE Truthful(x)'
    BY <1>i, <2>1, <2>2 DEF Truthful, SocType
  <2>4. DOMAIN told' = Targets
    BY <1>i, <2>2 DEF SocType
  <2>5. QED
    BY <1>i, <1>j, <2>1, <2>3, <2>4 DEF SocBlockInv, SocType, Alone, PushKnown
<1>13. CASE WorkerDies \/ RebootSoc
  <2>1. job' = [s \in Staff |-> Nowhere]
    BY <1>13 DEF WorkerDies, RebootSoc
  <2>2. \A s \in Staff : job'[s] = Nowhere
    BY <2>1
  <2>3. DOMAIN told' = Targets /\ \A ip \in Targets : Truthful(ip)'
    BY <1>13, <1>i DEF WorkerDies, RebootSoc, Truthful, SocType
  <2>4. QED
    BY <1>n, <2>1, <2>2, <2>3, QuietPush DEF SocBlockInv, SocType, Alone
<1>14. ASSUME UNCHANGED <<listed, socTable, socFile, job, told>> PROVE SocBlockInv'
  BY <1>14, <1>i, <1>j DEF SocBlockInv, SocType, Alone, PushKnown, Truthful
<1>15. ASSUME NEW ip \in Targets, NEW op, CreateRecommendation(op, ip)
       PROVE  SocBlockInv'
  BY <1>14, <1>15 DEF CreateRecommendation
<1>16. CASE UNCHANGED socBlockVars
  BY <1>14, <1>16 DEF socBlockVars
<1>17. CASE SocBlockNext
  BY <1>1, <1>3, <1>4, <1>5, <1>6, <1>9, <1>10, <1>11, <1>12, <1>13, <1>15, <1>17, Zenon
  DEF SocBlockNext
<1>18. QED
  BY <1>16, <1>17

\* What is listed as blocked is dropped, but for the named gaps: the row of an IDS
\* block whose add put the address into the table never outlives the address's
\* stay there, unless a late unblock or a restart took it out, and an answer an
\* undisturbed request gave stays true until somebody changes the address, for any
\* number of addresses, requests and recommendations and any length of a block.
THEOREM ListedIsDropped == Spec => []BlockedWhileListed
<1> DEFINE Inv == IdsBlockInv /\ SocBlockInv
<1>1. Init => Inv
  <2> SUFFICES ASSUME Init PROVE Inv
    OBVIOUS
  <2>1. IdsBlockInv
    BY BlockingAssumption DEF Init, IdsBlockInit, IdsBlockInv, BlockType, HeldInv
  <2>2. SocBlockInv
    <3>1. /\ listed = {} /\ socTable = {} /\ job = [s \in Staff |-> Nowhere]
          /\ told = [ip \in Targets |-> "nothing"]
      BY DEF Init, SocBlockInit
    <3>2. DOMAIN Nowhere = Fields /\ Nowhere.stage = "idle"
      BY DEF Nowhere, Fields
    <3>3. QED
      BY <3>1, <3>2 DEF SocBlockInv, SocType, Alone, PushKnown, Truthful
  <2>3. QED
    BY <2>1, <2>2
<1>2. Inv /\ [Next]_consoleVars => Inv'
  <2>1. [Next]_consoleVars => /\ IdsBlockNext \/ UNCHANGED idsBlockVars
                              /\ SocBlockNext \/ UNCHANGED socBlockVars
    BY DEF Next, DeskStep, IdsBlockStep, SocBlockStep, AccessStep, IfaceStep,
           MigStep, SnapStep, consoleVars, blockVars
  <2>2. QED
    BY <2>1, IdsBlockInvInductive, SocBlockInvInductive
<1>3. Inv => BlockedWhileListed
  <2> SUFFICES ASSUME Inv PROVE BlockedWhileListed
    OBVIOUS
  <2>1. ASSUME NEW ip \in Attackers, IsActive(ip), entry[ip] = 0
        PROVE  missing[ip] # "no"
    BY <2>1 DEF IdsBlockInv, BlockType, HeldInv, IsActive
  <2>2. QED
    BY <2>1 DEF BlockedWhileListed, SocBlockInv, Truthful
<1>4. QED
  BY <1>1, <1>2, <1>3, PTL DEF Spec
=============================================================================
