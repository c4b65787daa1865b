------------------------ MODULE CaptivePortalProofs ------------------------
(***************************************************************************)
(* Proofs about CaptivePortal for any number of workers, clients, vouchers *)
(* and any bounds: the type invariant, that a voucher is never used up for *)
(* nothing unless its redemption was cut short, and what an undisturbed    *)
(* reconcile, logout and redemption leave behind.                          *)
(***************************************************************************)
EXTENDS CaptivePortal, TLAPS

\* The state of a worker between two handlers is a job.
LEMMA IdleJobType == IdleJob \in Job /\ IdleJob.vch = NoVoucher /\ IdleJob.pc = "idle"
<1>1. (CHOOSE m \in Macs : TRUE) \in Macs /\ (CHOOSE i \in Ips : TRUE) \in Ips
  BY ConstantsAssumption
<1>2. QED
  BY <1>1 DEF IdleJob, Job, PCs, Tables

\* The job part of every handler step is well typed.
LEMMA GotoType ==
  ASSUME NEW w \in Workers, NEW j \in Job, TypeOK, Goto(w, j)
  PROVE  job' \in [Workers -> Job] /\ solo' \in Workers \cup {NoOne}
BY DEF TypeOK, Goto

\* A handler that goes on after a failed command stays well typed.
LEMMA GotoFailedType ==
  ASSUME NEW w \in Workers, NEW j \in Job, TypeOK, GotoFailed(w, j)
  PROVE  /\ job' \in [Workers -> Job] /\ solo' \in Workers \cup {NoOne}
         /\ events' \in 0..MaxEvents
BY ConstantsAssumption DEF TypeOK, GotoFailed, Event

\* A worker that begins a handler has a well-typed job.
LEMMA BeginType ==
  ASSUME NEW w \in Workers, NEW j \in Job, TypeOK, Begin(w, j)
  PROVE  job' \in [Workers -> Job] /\ solo' \in Workers \cup {NoOne}
BY DEF TypeOK, Begin

\* A remembered row and a row to be written are well typed.
LEMMA RowTypes ==
  ASSUME TypeOK
  PROVE  /\ \A m \in Macs : sess[m] # NoSession =>
              /\ Snap(m) \in Snapshot
              /\ sess[m] \in Session
         /\ \A t \in Tables : ActiveIps(t) \in SUBSET Ips
         /\ \A ids : MarkOut(ids) => sess' \in [Macs -> Session \cup {NoSession}]
<1>1. ASSUME NEW m \in Macs, sess[m] # NoSession
      PROVE  Snap(m) \in Snapshot /\ sess[m] \in Session
  BY <1>1 DEF TypeOK, Snap, Snapshot, Session
<1>2. ASSUME NEW t \in Tables PROVE ActiveIps(t) \in SUBSET Ips
  BY <1>1 DEF TypeOK, ActiveIps, Active, Live, Session
<1>3. ASSUME NEW ids, MarkOut(ids)
      PROVE  sess' \in [Macs -> Session \cup {NoSession}]
  BY <1>1, <1>3 DEF TypeOK, MarkOut, WithId, Session
<1>4. QED
  BY <1>1, <1>2, <1>3

\* logout_session works on a row it found.
LEMMA LogoutJobType ==
  ASSUME TypeOK, NEW r, r.id \in Nat, WithId({r.id}) # {},
         NEW rest \in SUBSET Snapshot
  PROVE  LogoutJob(r, rest) \in Job
<1> DEFINE m == CHOOSE x \in Macs : x \in WithId({r.id})
<1>1. m \in Macs /\ m \in WithId({r.id})
  BY DEF WithId
<1>2. sess[m] \in Session
  BY <1>1, RowTypes DEF WithId
<1>3. QED
  BY <1>1, <1>2, IdleJobType DEF LogoutJob, Job, PCs, Session, Tables

\* Requests and sweeps start a well-typed job.
LEMMA ArriveType ==
  ASSUME NEW w \in Workers, TypeOK, Arrive(w)
  PROVE  TypeOK'
<1> USE IdleJobType, ConstantsAssumption DEF Tables
<1>1. CASE PortalLogin(w)
  <2>1. PICK m \in Macs, i \in Ips, su \in BOOLEAN :
          Request(w, [IdleJob EXCEPT !.pc = "upsert", !.kind = "login",
                                     !.mac = m, !.ip = i, !.su = su])
    BY <1>1 DEF PortalLogin
  <2>2. [IdleJob EXCEPT !.pc = "upsert", !.kind = "login",
                        !.mac = m, !.ip = i, !.su = su] \in Job
    BY DEF Job, PCs
  <2>3. QED
    BY <1>1, <2>1, <2>2, BeginType
       DEF PortalLogin, Request, Event, TypeOK, db, runtime, history
<1>2. CASE RedeemVoucher(w)
  <2>1. PICK v \in Vouchers, m \in Macs, i \in Ips :
          Request(w, [IdleJob EXCEPT !.pc = "upsert", !.kind = "login",
                                     !.mac = m, !.ip = i, !.vch = v])
    BY <1>2 DEF RedeemVoucher
  <2>2. [IdleJob EXCEPT !.pc = "upsert", !.kind = "login",
                        !.mac = m, !.ip = i, !.vch = v] \in Job
    BY DEF Job, PCs
  <2>3. QED
    BY <1>2, <2>1, <2>2, BeginType
       DEF RedeemVoucher, Request, Event, TypeOK, db, runtime, history
<1>3. CASE StartLogout(w)
  <2>1. PICK m \in Macs : sess[m] # NoSession /\ Request(w, LogoutJob(Snap(m), {}))
    BY <1>3 DEF StartLogout
  <2>2. LogoutJob(Snap(m), {}) \in Job
    <3>1. Snap(m).id \in Nat /\ Snap(m).id = sess[m].id
      BY <2>1, RowTypes DEF Snap, Snapshot
    <3>2. m \in WithId({Snap(m).id})
      BY <2>1, <3>1 DEF WithId
    <3>3. QED
      BY <3>1, <3>2, LogoutJobType
  <2>3. QED
    BY <1>3, <2>1, <2>2, BeginType
       DEF StartLogout, Request, Event, TypeOK, db, runtime, history
<1>4. CASE StartLogoutAll(w)
  <2>1. {Snap(m) : m \in Active} \in SUBSET Snapshot
    BY RowTypes DEF Active, Live
  <2>2. [IdleJob EXCEPT !.pc = "read", !.kind = "logout",
                        !.todo = {Snap(m) : m \in Active}] \in Job
    BY <2>1 DEF Job, PCs
  <2>3. QED
    BY <1>4, <2>2, BeginType
       DEF StartLogoutAll, Request, Event, TypeOK, db, runtime, history
<1>5. {Snap(m) : m \in Expired} \in SUBSET Snapshot
       /\ {sess[m].id : m \in Expired} \in SUBSET Nat
  BY RowTypes DEF Expired, Live, Session
<1>6. CASE StartExpire(w)
  <2>1. [IdleJob EXCEPT !.pc = "next", !.kind = "expire",
                        !.todo = {Snap(m) : m \in Expired},
                        !.all = {sess[m].id : m \in Expired}] \in Job
    BY <1>5 DEF Job, PCs
  <2>2. QED
    BY <1>6, <2>1, BeginType
       DEF StartExpire, TypeOK, db, runtime, history
<1>7. CASE StartReconcile(w)
  <2>1. [IdleJob EXCEPT !.pc = IF Expired = {} THEN "active" ELSE "next",
                        !.kind = "reconcile",
                        !.todo = {Snap(m) : m \in Expired},
                        !.all = {sess[m].id : m \in Expired}] \in Job
    BY <1>5 DEF Job, PCs
  <2>2. QED
    BY <1>7, <2>1, BeginType
       DEF StartReconcile, TypeOK, db, runtime, history
<1>8. QED
  BY <1>1, <1>2, <1>3, <1>4, <1>6, <1>7 DEF Arrive

\* The steps of a sign-in keep every variable in its type.
LEMMA SignInType ==
  ASSUME NEW w \in Workers, TypeOK,
         \/ UpsertSession(w) \/ PfAdd(w) \/ PfAddFails(w) \/ DeleteSession(w)
         \/ UndoRedemption(w) \/ PfAdminAdd(w) \/ GrantExemption(w)
  PROVE  TypeOK'
<1> DEFINE j == job[w]
<1> USE IdleJobType, ConstantsAssumption DEF Tables
<1>1. j \in Job /\ j.mac \in Macs /\ j.ip \in Ips
  BY DEF TypeOK, Job
<1>2. \A pc \in PCs : [j EXCEPT !.pc = pc] \in Job
  BY <1>1 DEF Job
<1>3. Granted(j) \in Job
  BY <1>2 DEF Granted, PCs
<1>4. CASE UpsertSession(w)
  <2>1. [j EXCEPT !.pc = "pf_add"] \in Job
    BY <1>2 DEF PCs
  <2>2. [id |-> IF sess[j.mac] = NoSession THEN nextId ELSE sess[j.mac].id,
         ip |-> j.ip, su |-> j.su, exp |-> now + Duration,
         out |-> FALSE] \in Session
    BY <1>1, RowTypes DEF TypeOK, Session, Job
  <2>3. sess' \in [Macs -> Session \cup {NoSession}] /\ nextId' \in Nat
    BY <1>1, <1>4, <2>2 DEF UpsertSession, TypeOK
  <2>4. voucher' \in [Vouchers -> VoucherRow]
    BY <1>4 DEF UpsertSession, TypeOK, VoucherRow
  <2>5. QED
    BY <1>4, <2>1, <2>3, <2>4, GotoType
       DEF UpsertSession, TypeOK, runtime, history
<1>5. CASE PfAdd(w)
  <2>1. tables' \in [Tables -> SUBSET Ips] /\ uses' \in [Vouchers -> Nat]
    BY <1>1, <1>5 DEF PfAdd, TypeOK
  <2>2. QED
    BY <1>3, <1>5, <2>1, GotoType DEF PfAdd, TypeOK, db
<1>6. CASE PfAddFails(w)
  <2>1. [j EXCEPT !.pc = "delete"] \in Job
    BY <1>2 DEF PCs
  <2>2. tables' \in [Tables -> SUBSET Ips] /\ events' \in 0..MaxEvents
    BY <1>1, <1>6 DEF PfAddFails, Event, TypeOK
  <2>3. QED
    BY <1>6, <2>1, <2>2, GotoType DEF PfAddFails, TypeOK, db, history
<1>7. CASE DeleteSession(w)
  <2>1. (IF j.vch = NoVoucher THEN IdleJob ELSE [j EXCEPT !.pc = "unredeem"]) \in Job
    BY <1>2 DEF PCs
  <2>2. sess' \in [Macs -> Session \cup {NoSession}]
    BY <1>1, <1>7 DEF DeleteSession, TypeOK
  <2>3. QED
    BY <1>7, <2>1, <2>2, GotoType DEF DeleteSession, TypeOK, runtime, history
<1>8. CASE UndoRedemption(w)
  <2>1. voucher' \in [Vouchers -> VoucherRow]
    BY <1>8 DEF UndoRedemption, TypeOK, VoucherRow
  <2>2. QED
    BY <1>8, <2>1, GotoType DEF UndoRedemption, TypeOK, runtime, history
<1>9. CASE PfAdminAdd(w)
  <2>1. tables' \in [Tables -> SUBSET Ips]
    BY <1>1, <1>9 DEF PfAdminAdd, TypeOK
  <2>2. /\ job' \in [Workers -> Job] /\ solo' \in Workers \cup {NoOne}
        /\ events' \in 0..MaxEvents
    BY <1>3, <1>9, GotoType, GotoFailedType DEF PfAdminAdd, TypeOK
  <2>3. QED
    BY <1>9, <2>1, <2>2 DEF PfAdminAdd, TypeOK, db, history
<1>10. CASE GrantExemption(w)
  <2>1. [j EXCEPT !.pc = "gen", !.ret = "end"] \in Job
    BY <1>1 DEF Job, PCs
  <2>2. hosts' \in [Ips -> Exemption]
    BY <1>1, <1>10 DEF GrantExemption, TypeOK, Exemption
  <2>3. QED
    BY <1>10, <2>1, <2>2, GotoType DEF GrantExemption, TypeOK, runtime, history
<1>11. QED
  BY <1>4, <1>5, <1>6, <1>7, <1>8, <1>9, <1>10

\* So do the steps of a logout and of an expiry.
LEMMA SignOutType ==
  ASSUME NEW w \in Workers, TypeOK,
         \/ ReadSession(w) \/ MarkLoggedOut(w) \/ NextExpired(w) \/ PfDelete(w)
         \/ ClearExemption(w) \/ MarkAllExpired(w) \/ GenerateUnbound(w)
         \/ LoadUnbound(w)
  PROVE  TypeOK'
<1> DEFINE j == job[w]
<1> USE IdleJobType, ConstantsAssumption DEF Tables
<1>1. j \in Job /\ j.ip \in Ips /\ j.todo \in SUBSET Snapshot
       /\ j.conf \in SUBSET Ips
  BY DEF TypeOK, Job
<1>2. \A pc \in PCs : [j EXCEPT !.pc = pc] \in Job
  BY <1>1 DEF Job
<1>3. CASE ReadSession(w)
  <2>1. PICK r \in j.todo :
          Goto(w, IF WithId({r.id}) # {} THEN LogoutJob(r, j.todo \ {r})
                  ELSE IF j.todo = {r} THEN IdleJob
                  ELSE [j EXCEPT !.todo = @ \ {r}])
    BY <1>3 DEF ReadSession
  <2>2. r \in Snapshot /\ r.id \in Nat /\ (j.todo \ {r}) \in SUBSET Snapshot
    BY <1>1 DEF Snapshot
  <2>3. [j EXCEPT !.todo = @ \ {r}] \in Job
    BY <1>1, <2>2 DEF Job
  <2>4. (IF WithId({r.id}) # {} THEN LogoutJob(r, j.todo \ {r})
         ELSE IF j.todo = {r} THEN IdleJob
         ELSE [j EXCEPT !.todo = @ \ {r}]) \in Job
    BY <2>2, <2>3, LogoutJobType
  <2>5. QED
    BY <1>3, <2>1, <2>4, GotoType
       DEF ReadSession, TypeOK, db, runtime, history
<1>4. CASE MarkLoggedOut(w)
  <2>1. [j EXCEPT !.pc = "pf_del"] \in Job
    BY <1>2 DEF PCs
  <2>2. QED
    BY <1>4, <2>1, RowTypes, GotoType
       DEF MarkLoggedOut, TypeOK, runtime, history
<1>5. CASE NextExpired(w)
  <2>1. \A r \in j.todo : [j EXCEPT !.pc = "pf_del", !.todo = @ \ {r},
                                    !.ip = r.ip, !.su = r.su] \in Job
    <3>1. "pf_del" \in PCs
      BY DEF PCs
    <3>2. \A r \in j.todo : /\ r.ip \in Ips /\ r.su \in BOOLEAN
                           /\ j.todo \ {r} \in SUBSET Snapshot
      BY <1>1 DEF Snapshot
    <3>3. QED
      BY <1>1, <3>1, <3>2 DEF Job
  <2>2. [j EXCEPT !.pc = "mark_all"] \in Job
    BY <1>2 DEF PCs
  <2>3. QED
    BY <1>5, <2>1, <2>2, GotoType DEF NextExpired, TypeOK, db, runtime, history
<1>6. CASE PfDelete(w)
  <2>1. [j EXCEPT !.pc = IF j.pc = "pf_del" /\ j.su THEN "admin_del"
                         ELSE "clear"] \in Job
    BY <1>2 DEF PCs
  <2>2. tables' \in [Tables -> SUBSET Ips]
    BY <1>6 DEF PfDelete, TypeOK
  <2>3. /\ job' \in [Workers -> Job] /\ solo' \in Workers \cup {NoOne}
        /\ events' \in 0..MaxEvents
    BY <1>6, <2>1, GotoType, GotoFailedType DEF PfDelete, TypeOK
  <2>4. QED
    BY <1>6, <2>2, <2>3 DEF PfDelete, TypeOK, db, history
<1>7. CASE ClearExemption(w)
  <2>1. /\ [j EXCEPT !.pc = "gen", !.ret = "end"] \in Job
        /\ \A b \in BOOLEAN :
             [j EXCEPT !.pc = IF b THEN "gen" ELSE "next", !.ret = "next"] \in Job
    <3>1. {"gen", "next"} \subseteq PCs
      BY DEF PCs
    <3>2. QED
      BY <1>1, <3>1 DEF Job
  <2>2. hosts' \in [Ips -> Exemption]
    BY <1>1, <1>7 DEF ClearExemption, TypeOK, Exemption
  <2>3. (IF j.kind = "logout" THEN [j EXCEPT !.pc = "gen", !.ret = "end"]
         ELSE [j EXCEPT !.pc = IF hosts[j.ip] = "captive" THEN "gen" ELSE "next",
                        !.ret = "next"]) \in Job
    BY <2>1
  <2>4. QED
    BY <1>7, <2>2, <2>3, GotoType DEF ClearExemption, TypeOK, runtime, history
<1>8. CASE MarkAllExpired(w)
  <2>1. [j EXCEPT !.pc = "gen", !.ret = "end"] \in Job
    BY <1>1 DEF Job, PCs
  <2>2. QED
    BY <1>8, <2>1, RowTypes, GotoType
       DEF MarkAllExpired, TypeOK, runtime, history
<1>9. CASE GenerateUnbound(w)
  <2>1. [j EXCEPT !.pc = "load", !.conf = ExemptIps] \in Job
    BY <1>1 DEF Job, PCs, ExemptIps
  <2>2. QED
    BY <1>9, <2>1, GotoType DEF GenerateUnbound, TypeOK, db, runtime, history
<1>10. CASE LoadUnbound(w)
  <2>1. \A pc \in PCs : [[j EXCEPT !.conf = {}] EXCEPT !.pc = pc] \in Job
    BY <1>1 DEF Job
  <2>2. Return(j) \in Job
    BY <2>1 DEF Return, PCs
  <2>3. /\ job' \in [Workers -> Job] /\ solo' \in Workers \cup {NoOne}
        /\ events' \in 0..MaxEvents
    BY <1>10, <2>2, GotoType, GotoFailedType DEF LoadUnbound, TypeOK
  <2>4. QED
    BY <1>1, <1>10, <2>3 DEF LoadUnbound, TypeOK, db, history
<1>11. QED
  BY <1>3, <1>4, <1>5, <1>6, <1>7, <1>8, <1>9, <1>10

\* So do the steps of a reconcile.
LEMMA ReconcileType ==
  ASSUME NEW w \in Workers, TypeOK,
         \/ ReadActive(w) \/ TruncateFile(w) \/ FlushFile(w) \/ ReplaceTable(w)
  PROVE  TypeOK'
<1> DEFINE j == job[w]
<1> USE IdleJobType, ConstantsAssumption DEF Tables
<1>1. j \in Job /\ j.tbl \in Tables /\ j.ips \in [Tables -> SUBSET Ips]
  BY DEF TypeOK, Job
<1>2. \A pc \in PCs : [j EXCEPT !.pc = pc] \in Job
  BY <1>1 DEF Job
<1>3. CASE ReadActive(w)
  <2>1. [IdleJob EXCEPT !.pc = "truncate", !.kind = "reconcile",
                        !.ips = [t \in Tables |-> ActiveIps(t)]] \in Job
    BY RowTypes DEF Job, PCs
  <2>2. QED
    BY <1>3, <2>1, GotoType DEF ReadActive, TypeOK, db, runtime, history
<1>4. CASE TruncateFile(w)
  <2>1. [j EXCEPT !.pc = "flush"] \in Job
    BY <1>2 DEF PCs
  <2>2. files' \in [Tables -> SUBSET Ips]
    BY <1>4 DEF TruncateFile, TypeOK
  <2>3. QED
    BY <1>4, <2>1, <2>2, GotoType DEF TruncateFile, TypeOK, db, history
<1>5. CASE FlushFile(w)
  <2>1. [j EXCEPT !.pc = "replace"] \in Job
    BY <1>2 DEF PCs
  <2>2. files' \in [Tables -> SUBSET Ips]
    BY <1>1, <1>5 DEF FlushFile, TypeOK
  <2>3. QED
    BY <1>5, <2>1, <2>2, GotoType DEF FlushFile, TypeOK, db, history
<1>6. CASE ReplaceTable(w)
  <2>1. (IF j.tbl = "auth" THEN [j EXCEPT !.pc = "truncate", !.tbl = "admin"]
         ELSE IdleJob) \in Job
    BY <1>1 DEF Job, PCs
  <2>2. tables' \in [Tables -> SUBSET Ips]
    BY <1>1, <1>6 DEF ReplaceTable, TypeOK
  <2>3. /\ job' \in [Workers -> Job] /\ solo' \in Workers \cup {NoOne}
        /\ events' \in 0..MaxEvents
    BY <1>6, <2>1, GotoType, GotoFailedType DEF ReplaceTable, TypeOK
  <2>4. QED
    BY <1>6, <2>2, <2>3 DEF ReplaceTable, TypeOK, db, history
<1>7. QED
  BY <1>3, <1>4, <1>5, <1>6

-----------------------------------------------------------------------------
\* Every reachable state is well typed: what every handler writes to the
\* database, the PF tables, the files and its own locals stays in its type.
THEOREM TypeCorrect == Spec => []TypeOK
<1>1. Init => TypeOK
  <2> SUFFICES ASSUME Init PROVE TypeOK
    OBVIOUS
  <2>1. voucher \in [Vouchers -> VoucherRow]
    BY DEF Init, VoucherRow
  <2>2. QED
    BY <2>1, IdleJobType, ConstantsAssumption DEF Init, TypeOK, Exemption, Tables
<1>2. TypeOK /\ [Next]_vars => TypeOK'
  <2> SUFFICES ASSUME TypeOK, [Next]_vars PROVE TypeOK'
    OBVIOUS
  <2>1. ASSUME NEW w \in Workers, Handler(w) PROVE TypeOK'
    BY <2>1, SignInType, SignOutType, ReconcileType DEF Handler
  <2>2. ASSUME NEW w \in Workers, Arrive(w) PROVE TypeOK'
    BY <2>2, ArriveType
  <2>3. ASSUME NEW w \in Workers, Abort(w) PROVE TypeOK'
    BY <2>3, IdleJobType, ConstantsAssumption
       DEF Abort, Event, TypeOK, Redeeming, db, runtime
  <2>4. CASE VoucherAdmin
    <3>1. voucher' \in [Vouchers -> VoucherRow]
      <4>1. PICK v \in Vouchers :
              GenerateVoucher(v) \/ DeleteVoucher(v) \/ DisableVoucher(v)
        BY <2>4 DEF VoucherAdmin
      <4>2. voucher \in [Vouchers -> VoucherRow]
        BY DEF TypeOK
      <4>3. CASE GenerateVoucher(v)
        BY <4>2, <4>3 DEF GenerateVoucher, VoucherRow
      <4>4. CASE DeleteVoucher(v)
        BY <4>2, <4>4 DEF DeleteVoucher, VoucherRow
      <4>5. CASE DisableVoucher(v)
        BY <4>2, <4>5 DEF DisableVoucher, VoucherRow
      <4>6. QED
        BY <4>1, <4>3, <4>4, <4>5
    <3>2. QED
      BY <2>4, <3>1, ConstantsAssumption
         DEF VoucherAdmin, Event, TypeOK, runtime, history
  <2>5. CASE Tick
    BY <2>5, ConstantsAssumption DEF Tick, TypeOK, db, runtime, history
  <2>6. CASE Reboot
    BY <2>6, IdleJobType, ConstantsAssumption
       DEF Reboot, Event, TypeOK, Redeeming, Tables, db
  <2>7. CASE UNCHANGED vars
    BY <2>7 DEF vars, TypeOK, db, runtime, history
  <2>8. QED
    BY <2>1, <2>2, <2>3, <2>4, <2>5, <2>6, <2>7 DEF Next
<1>3. QED
  BY <1>1, <1>2, PTL DEF Spec

-----------------------------------------------------------------------------
(* VoucherNeverWasted is inductive together with TypeOK.  A voucher becomes *)
(* redeemed in UpsertSession, which puts its handler among the redeeming    *)
(* ones; that handler leaves them by counting a use, by taking the mark     *)
(* back, or by an abort that records the loss.                              *)

InFlight == {"pf_add", "delete", "unredeem"}

\* The redeeming handlers, one worker at a time.
LEMMA RedeemingDef ==
  ASSUME NEW v \in Vouchers
  PROVE  v \in Redeeming(Workers) <=>
           \E w \in Workers : job[w].vch = v /\ job[w].pc \in InFlight
BY DEF Redeeming, InFlight

\* The same in the next state.
LEMMA RedeemingDefPrime ==
  ASSUME NEW v \in Vouchers
  PROVE  v \in Redeeming(Workers)' <=>
           \E w \in Workers : job'[w].vch = v /\ job'[w].pc \in InFlight
BY DEF Redeeming, InFlight

\* A step that leaves vouchers and their history alone keeps the invariant if
\* the handler that moves was not redeeming.
LEMMA NotRedeeming ==
  ASSUME TypeOK, VoucherNeverWasted, NEW w \in Workers,
         job[w].pc \notin InFlight,
         UNCHANGED <<voucher, history>>,
         \A x \in Workers \ {w} : job'[x] = job[x]
  PROVE  VoucherNeverWasted'
<1> SUFFICES ASSUME NEW v \in Vouchers, voucher'[v].state = "redeemed"
             PROVE  uses'[v] > 0 \/ v \in Redeeming(Workers)' \/ v \in lost'
  BY DEF VoucherNeverWasted
<1>1. voucher' = voucher /\ uses' = uses /\ lost' = lost
  BY DEF history
<1>2. uses[v] > 0 \/ v \in Redeeming(Workers) \/ v \in lost
  BY <1>1 DEF VoucherNeverWasted
<1>3. ASSUME v \in Redeeming(Workers) PROVE v \in Redeeming(Workers)'
  <2>1. PICK x \in Workers : job[x].vch = v /\ job[x].pc \in InFlight
    BY <1>3, RedeemingDef
  <2>2. x # w /\ job'[x] = job[x]
    BY <2>1
  <2>3. QED
    BY <2>1, <2>2, RedeemingDefPrime
<1>4. QED
  BY <1>1, <1>2, <1>3

\* The steps that handle a redemption, and the end of one.
LEMMA RedemptionSteps ==
  ASSUME TypeOK, VoucherNeverWasted, NEW w \in Workers,
         \/ UpsertSession(w) \/ PfAdd(w) \/ PfAddFails(w) \/ DeleteSession(w)
         \/ UndoRedemption(w)
  PROVE  VoucherNeverWasted'
<1> DEFINE j == job[w]
<1> SUFFICES ASSUME NEW v \in Vouchers, voucher'[v].state = "redeemed"
             PROVE  uses'[v] > 0 \/ v \in Redeeming(Workers)' \/ v \in lost'
  BY DEF VoucherNeverWasted
<1>1. j \in Job /\ job \in [Workers -> Job] /\ uses[v] \in Nat /\ v # NoVoucher
      /\ voucher[v] \in VoucherRow
  BY ConstantsAssumption DEF TypeOK
<1>2. \A x \in Workers \ {w} : job'[x] = job[x]
  BY <1>1 DEF UpsertSession, PfAdd, PfAddFails, DeleteSession, UndoRedemption, Goto
<1>3. ASSUME v # j.vch, voucher'[v] = voucher[v], uses'[v] = uses[v], lost' = lost
      PROVE  uses'[v] > 0 \/ v \in Redeeming(Workers)' \/ v \in lost'
  <2>1. uses[v] > 0 \/ v \in Redeeming(Workers) \/ v \in lost
    BY <1>3 DEF VoucherNeverWasted
  <2>2. ASSUME v \in Redeeming(Workers) PROVE v \in Redeeming(Workers)'
    <3>1. PICK x \in Workers : job[x].vch = v /\ job[x].pc \in InFlight
      BY <2>2, RedeemingDef
    <3>2. job'[x] = job[x]
      BY <1>2, <1>3, <3>1
    <3>3. QED
      BY <3>1, <3>2, RedeemingDefPrime
  <2>3. QED
    BY <1>3, <2>1, <2>2
<1>4. ASSUME j.vch = v, NEW pc \in InFlight, job'[w] = [j EXCEPT !.pc = pc]
      PROVE  v \in Redeeming(Workers)'
  <2>1. job'[w].vch = v /\ job'[w].pc = pc
    BY <1>1, <1>4 DEF Job
  <2>2. QED
    BY <1>4, <2>1, RedeemingDefPrime
<1>5. CASE UpsertSession(w)
  <2>1. job'[w] = [j EXCEPT !.pc = "pf_add"]
    BY <1>1, <1>5 DEF UpsertSession, Goto
  <2>2. v # j.vch => voucher'[v] = voucher[v]
    BY <1>5 DEF UpsertSession
  <2>3. uses' = uses /\ lost' = lost
    BY <1>5 DEF UpsertSession, history
  <2>4. QED
    BY <1>3, <1>4, <2>1, <2>2, <2>3 DEF InFlight
<1>6. CASE PfAdd(w)
  <2>1. /\ uses'[v] = (IF v = j.vch THEN uses[v] + 1 ELSE uses[v])
        /\ voucher' = voucher /\ lost' = lost
    BY <1>6 DEF PfAdd, db
  <2>2. CASE v = j.vch
    BY <1>1, <2>1, <2>2
  <2>3. CASE v # j.vch
    BY <1>3, <2>1, <2>3
  <2>4. QED
    BY <2>2, <2>3
<1>7. CASE PfAddFails(w)
  <2>1. job'[w] = [j EXCEPT !.pc = "delete"]
    BY <1>1, <1>7 DEF PfAddFails, Goto
  <2>2. voucher' = voucher /\ uses' = uses /\ lost' = lost
    BY <1>7 DEF PfAddFails, db, history
  <2>3. QED
    BY <1>3, <1>4, <2>1, <2>2 DEF InFlight
<1>8. CASE DeleteSession(w)
  <2>1. j.vch = v => job'[w] = [j EXCEPT !.pc = "unredeem"]
    BY <1>1, <1>8 DEF DeleteSession, Goto
  <2>2. voucher' = voucher /\ uses' = uses /\ lost' = lost
    BY <1>8 DEF DeleteSession, history
  <2>3. QED
    BY <1>3, <1>4, <2>1, <2>2 DEF InFlight
<1>9. CASE UndoRedemption(w)
  <2>1. /\ voucher'[v] = IF v = j.vch /\ voucher[v].state = "redeemed"
                         THEN [voucher[v] EXCEPT !.state = "unused"]
                         ELSE voucher[v]
        /\ uses' = uses /\ lost' = lost
    BY <1>9 DEF UndoRedemption, history
  <2>2. v # j.vch
    BY <1>1, <2>1 DEF VoucherRow
  <2>3. QED
    BY <1>3, <2>1, <2>2
<1>10. QED
  BY <1>5, <1>6, <1>7, <1>8, <1>9

\* However the handlers of any number of workers overlap, no voucher is used up
\* without a client having been let in for it, except by an interruption
\* between the commit of the redemption and its end.
THEOREM VouchersNotWasted == Spec => []VoucherNeverWasted
<1>1. Init => VoucherNeverWasted
  BY DEF Init, VoucherNeverWasted
<1>2. TypeOK /\ TypeOK' /\ VoucherNeverWasted /\ [Next]_vars => VoucherNeverWasted'
  <2> SUFFICES ASSUME TypeOK, TypeOK', VoucherNeverWasted, [Next]_vars
               PROVE  VoucherNeverWasted'
    OBVIOUS
  <2>1. ASSUME NEW w \in Workers, Handler(w) PROVE VoucherNeverWasted'
    <3>1. CASE \/ UpsertSession(w) \/ PfAdd(w) \/ PfAddFails(w)
               \/ DeleteSession(w) \/ UndoRedemption(w)
      BY <3>1, RedemptionSteps
    <3>2. CASE \/ PfAdminAdd(w) \/ GrantExemption(w) \/ ReadSession(w)
               \/ MarkLoggedOut(w) \/ NextExpired(w)
      <4>1. /\ job[w].pc \notin InFlight /\ UNCHANGED <<voucher, history>>
            /\ \A x \in Workers \ {w} : job'[x] = job[x]
        BY <3>2 DEF PfAdminAdd, GrantExemption, ReadSession, MarkLoggedOut,
             NextExpired, Goto, GotoFailed, InFlight, db, history, TypeOK
      <4>2. QED
        BY <4>1, NotRedeeming
    <3>3. CASE \/ PfDelete(w) \/ ClearExemption(w) \/ MarkAllExpired(w)
               \/ GenerateUnbound(w) \/ LoadUnbound(w)
      <4>1. /\ job[w].pc \notin InFlight /\ UNCHANGED <<voucher, history>>
            /\ \A x \in Workers \ {w} : job'[x] = job[x]
        BY <3>3 DEF PfDelete, ClearExemption, MarkAllExpired, GenerateUnbound,
             LoadUnbound, Goto, GotoFailed, InFlight, db, history, TypeOK
      <4>2. QED
        BY <4>1, NotRedeeming
    <3>4. CASE \/ ReadActive(w) \/ TruncateFile(w) \/ FlushFile(w)
               \/ ReplaceTable(w)
      <4>1. /\ job[w].pc \notin InFlight /\ UNCHANGED <<voucher, history>>
            /\ \A x \in Workers \ {w} : job'[x] = job[x]
        BY <3>4 DEF ReadActive, TruncateFile, FlushFile, ReplaceTable, Goto,
             GotoFailed, InFlight, db, history, TypeOK
      <4>2. QED
        BY <4>1, NotRedeeming
    <3>5. QED
      BY <2>1, <3>1, <3>2, <3>3, <3>4 DEF Handler
  <2>2. ASSUME NEW w \in Workers, Arrive(w) PROVE VoucherNeverWasted'
    <3>1. /\ job[w].pc \notin InFlight /\ UNCHANGED <<voucher, history>>
          /\ \A x \in Workers \ {w} : job'[x] = job[x]
      BY <2>2 DEF Arrive, PortalLogin, RedeemVoucher, StartLogout,
           StartLogoutAll, StartExpire, StartReconcile, Request, Begin, Idle,
           InFlight, db, TypeOK
    <3>2. QED
      BY <3>1, NotRedeeming
  <2>3. ASSUME NEW w \in Workers, Abort(w) PROVE VoucherNeverWasted'
    <3> SUFFICES ASSUME NEW v \in Vouchers, voucher'[v].state = "redeemed"
                 PROVE  uses'[v] > 0 \/ v \in Redeeming(Workers)' \/ v \in lost'
      BY DEF VoucherNeverWasted
    <3>1. voucher' = voucher /\ uses' = uses /\ lost' = lost \cup Redeeming({w})
          /\ \A x \in Workers \ {w} : job'[x] = job[x]
      BY <2>3 DEF Abort, db, TypeOK
    <3>2. ASSUME v \in Redeeming(Workers)
          PROVE  v \in Redeeming(Workers)' \/ v \in lost'
      <4>1. PICK x \in Workers : job[x].vch = v /\ job[x].pc \in InFlight
        BY <3>2, RedeemingDef
      <4>2. CASE x = w
        BY <3>1, <4>1, <4>2 DEF Redeeming, InFlight
      <4>3. CASE x # w
        BY <3>1, <4>1, <4>3, RedeemingDefPrime
      <4>4. QED
        BY <4>2, <4>3
    <3>3. QED
      BY <3>1, <3>2 DEF VoucherNeverWasted
  <2>4. CASE VoucherAdmin
    <3> SUFFICES ASSUME NEW v \in Vouchers, voucher'[v].state = "redeemed"
                 PROVE  uses'[v] > 0 \/ v \in Redeeming(Workers)' \/ v \in lost'
      BY DEF VoucherNeverWasted
    <3>1. job' = job /\ uses' = uses /\ lost' = lost
      BY <2>4 DEF VoucherAdmin, history
    <3>2. voucher[v].state = "redeemed"
      BY <2>4 DEF VoucherAdmin, GenerateVoucher, DeleteVoucher, DisableVoucher,
                  TypeOK, VoucherRow
    <3>3. QED
      BY <3>1, <3>2 DEF VoucherNeverWasted, Redeeming
  <2>5. CASE Tick \/ UNCHANGED vars
    <3>1. UNCHANGED <<voucher, job, uses, lost>>
      BY <2>5 DEF Tick, vars, db, history
    <3>2. QED
      BY <3>1 DEF VoucherNeverWasted, Redeeming
  <2>6. CASE Reboot
    BY <2>6 DEF Reboot, VoucherNeverWasted, db
  <2>7. QED
    BY <2>1, <2>2, <2>3, <2>4, <2>5, <2>6 DEF Next
<1>3. QED
  BY <1>1, <1>2, TypeCorrect, PTL DEF Spec

-----------------------------------------------------------------------------
(* Where a handler can be, and what the one that runs alone has done: the   *)
(* three action properties are read off its last steps.                     *)

SignIn == {"upsert", "pf_add", "pf_admin", "delete", "unredeem", "grant"}
Sweeps == {"expire", "reconcile"}

\* The labels a handler of each kind passes through, and where it returns to.
Place(j) ==
    /\ j.pc \in SignIn => j.kind = "login"
    /\ j.kind = "login" => j.pc \in SignIn \cup {"gen", "load"}
    /\ j.pc \in {"read", "mark"} => j.kind = "logout"
    /\ j.pc \in {"next", "mark_all"} => j.kind \in Sweeps
    /\ j.pc \in {"pf_del", "admin_del", "clear"} => j.kind \in Sweeps \cup {"logout"}
    /\ j.ret = "next" => j.kind \in Sweeps
    /\ j.vch # NoVoucher => j.kind = "login"

Placed == \A w \in Workers : Place(job[w])

\* A worker between two handlers.
LEMMA IdlePlace == Place(IdleJob) /\ IdleJob.kind = "none" /\ IdleJob.ret = "end"
BY DEF Place, IdleJob, SignIn, Sweeps

\* What a step of a handler does to the worker's locals; the others keep theirs.
LEMMA HandlerPlace ==
  ASSUME TypeOK, NEW w \in Workers, Place(job[w]), Handler(w)
  PROVE  Place(job'[w]) /\ \A x \in Workers \ {w} : job'[x] = job[x]
<1> DEFINE j == job[w]
           k == job'[w]
<1>1. j \in Job /\ job \in [Workers -> Job]
  BY DEF TypeOK
<1>2. \A x \in Workers \ {w} : job'[x] = job[x]
  BY <1>1 DEF Handler, UpsertSession, PfAdd, PfAddFails, DeleteSession, UndoRedemption,
     PfAdminAdd, GrantExemption, ReadSession, MarkLoggedOut, NextExpired, PfDelete,
     ClearExemption, MarkAllExpired, GenerateUnbound, LoadUnbound, ReadActive,
     TruncateFile, FlushFile, ReplaceTable, Goto, GotoFailed
<1>3. CASE UpsertSession(w) \/ PfAddFails(w)
  <2>1. k = [j EXCEPT !.pc = "pf_add"] \/ k = [j EXCEPT !.pc = "delete"]
    BY <1>1, <1>3 DEF UpsertSession, PfAddFails, Goto
  <2>2. j.kind = "login"
    BY <1>3 DEF UpsertSession, PfAddFails, Place, SignIn
  <2>3. k.kind = "login" /\ k.pc \in {"pf_add", "delete"} /\ k.ret = j.ret
    BY <1>1, <2>1, <2>2 DEF Job
  <2>4. QED
    BY <1>2, <2>2, <2>3 DEF Place, SignIn, Sweeps
<1>4. CASE DeleteSession(w) \/ UndoRedemption(w)
  <2>1. k = [j EXCEPT !.pc = "unredeem"] \/ k = IdleJob
    BY <1>1, <1>4 DEF DeleteSession, UndoRedemption, Goto
  <2>2. j.kind = "login"
    BY <1>4 DEF DeleteSession, UndoRedemption, Place, SignIn
  <2>3. (k.kind = "login" /\ k.pc = "unredeem" /\ k.ret = j.ret) \/ k = IdleJob
    BY <1>1, <2>1, <2>2 DEF Job
  <2>4. QED
    BY <1>2, <2>2, <2>3, IdlePlace DEF Place, SignIn, Sweeps
<1>5. CASE PfAdd(w) \/ PfAdminAdd(w)
  <2>1. k = Granted(j)
    BY <1>1, <1>5 DEF PfAdd, PfAdminAdd, Goto, GotoFailed
  <2>2. j.kind = "login"
    BY <1>5 DEF PfAdd, PfAdminAdd, Place, SignIn
  <2>3. k = [j EXCEPT !.pc = "pf_admin"] \/ k = [j EXCEPT !.pc = "grant"] \/ k = IdleJob
    BY <2>1 DEF Granted
  <2>4. \/ k.kind = "login" /\ k.pc \in {"pf_admin", "grant"} /\ k.ret = j.ret
        \/ k = IdleJob
    BY <1>1, <2>2, <2>3 DEF Job
  <2>5. QED
    BY <1>2, <2>2, <2>4, IdlePlace DEF Place, SignIn, Sweeps
<1>6. CASE GrantExemption(w)
  <2>1. k = [j EXCEPT !.pc = "gen", !.ret = "end"]
    BY <1>1, <1>6 DEF GrantExemption, Goto
  <2>2. j.kind = "login"
    BY <1>6 DEF GrantExemption, Place, SignIn
  <2>3. k.kind = "login" /\ k.pc = "gen" /\ k.ret = "end"
    BY <1>1, <2>1, <2>2 DEF Job
  <2>4. QED
    BY <1>2, <2>3 DEF Place, SignIn, Sweeps
<1>7. CASE ReadSession(w)
  <2>1. PICK r \in j.todo :
          \/ k = LogoutJob(r, j.todo \ {r}) \/ k = IdleJob
          \/ k = [j EXCEPT !.todo = @ \ {r}]
    BY <1>1, <1>7 DEF ReadSession, Goto
  <2>2. j.kind = "logout" /\ j.pc = "read" /\ j.vch = NoVoucher /\ j.ret # "next"
    BY <1>7 DEF ReadSession, Place, Sweeps
  <2>3. \/ k.kind = "logout" /\ k.pc = "mark" /\ k.vch = NoVoucher /\ k.ret = "end"
        \/ k = IdleJob
        \/ k.kind = j.kind /\ k.pc = j.pc /\ k.vch = j.vch /\ k.ret = j.ret
    <3>1. CASE k = LogoutJob(r, j.todo \ {r})
      BY <3>1 DEF LogoutJob, IdleJob
    <3>2. CASE k = [j EXCEPT !.todo = @ \ {r}]
      BY <1>1, <3>2 DEF Job
    <3>3. QED
      BY <2>1, <3>1, <3>2
  <2>4. QED
    BY <1>2, <2>2, <2>3, IdlePlace DEF Place, SignIn, Sweeps
<1>8. CASE MarkLoggedOut(w) \/ PfDelete(w)
  <2>1. /\ \E pc \in {"pf_del", "admin_del", "clear"} : k = [j EXCEPT !.pc = pc]
        /\ j.pc \in {"mark", "pf_del", "admin_del"}
    BY <1>1, <1>8 DEF MarkLoggedOut, PfDelete, Goto, GotoFailed
  <2>2. /\ k.pc \in {"pf_del", "admin_del", "clear"}
        /\ k.kind = j.kind /\ k.vch = j.vch /\ k.ret = j.ret
    BY <1>1, <2>1 DEF Job
  <2>3. j.kind \in Sweeps \cup {"logout"} /\ j.vch = NoVoucher
    BY <2>1 DEF Place, SignIn, Sweeps
  <2>4. QED
    BY <1>2, <2>2, <2>3 DEF Place, SignIn, Sweeps
<1>9. CASE NextExpired(w)
  <2>1. \/ \E r \in j.todo : k = [j EXCEPT !.pc = "pf_del", !.todo = @ \ {r},
                                           !.ip = r.ip, !.su = r.su]
        \/ k = [j EXCEPT !.pc = "mark_all"]
    BY <1>1, <1>9 DEF NextExpired, Goto
  <2>2. /\ k.pc \in {"pf_del", "mark_all"}
        /\ k.kind = j.kind /\ k.vch = j.vch /\ k.ret = j.ret
    BY <1>1, <2>1 DEF Job
  <2>3. j.kind \in Sweeps
    BY <1>9 DEF NextExpired, Place
  <2>4. QED
    BY <1>2, <2>2, <2>3 DEF Place, SignIn, Sweeps
<1>10. CASE ClearExemption(w)
  <2>1. j.kind # "login" /\ j.pc = "clear" /\ j.vch = NoVoucher
    BY <1>10 DEF ClearExemption, Place, SignIn
  <2>2. \/ j.kind = "logout" /\ k = [j EXCEPT !.pc = "gen", !.ret = "end"]
        \/ /\ j.kind # "logout"
           /\ \E pc \in {"gen", "next"} : k = [j EXCEPT !.pc = pc, !.ret = "next"]
    BY <1>1, <1>10 DEF ClearExemption, Goto
  <2>3. /\ k.kind = j.kind /\ k.vch = j.vch
        /\ \/ j.kind = "logout" /\ k.pc = "gen" /\ k.ret = "end"
           \/ j.kind # "logout" /\ k.pc \in {"gen", "next"} /\ k.ret = "next"
    BY <1>1, <2>2 DEF Job
  <2>4. QED
    BY <1>2, <2>1, <2>3 DEF Place, SignIn, Sweeps
<1>11. CASE MarkAllExpired(w)
  <2>1. k = [j EXCEPT !.pc = "gen", !.ret = "end"]
    BY <1>1, <1>11 DEF MarkAllExpired, Goto
  <2>2. k.kind = j.kind /\ k.pc = "gen" /\ k.ret = "end" /\ k.vch = j.vch
    BY <1>1, <2>1 DEF Job
  <2>3. j.kind \in Sweeps
    BY <1>11 DEF MarkAllExpired, Place
  <2>4. QED
    BY <1>2, <2>2, <2>3 DEF Place, SignIn, Sweeps
<1>12. CASE GenerateUnbound(w)
  <2>1. k = [j EXCEPT !.pc = "load", !.conf = ExemptIps] /\ j.pc = "gen"
    BY <1>1, <1>12 DEF GenerateUnbound, Goto
  <2>2. k.kind = j.kind /\ k.pc = "load" /\ k.ret = j.ret /\ k.vch = j.vch
    BY <1>1, <2>1 DEF Job
  <2>3. QED
    BY <1>2, <2>1, <2>2 DEF Place, SignIn, Sweeps
<1>13. CASE LoadUnbound(w)
  <2> DEFINE r == [j EXCEPT !.conf = {}]
  <2>1. k = Return(j) /\ j.pc = "load"
    BY <1>1, <1>13 DEF LoadUnbound, Goto, GotoFailed
  <2>2. \/ j.ret = "next" /\ k = [r EXCEPT !.pc = "next"]
        \/ j.kind = "logout" /\ k = [r EXCEPT !.pc = "read"]
        \/ j.kind = "reconcile" /\ k = [r EXCEPT !.pc = "active"]
        \/ k = IdleJob
    BY <2>1 DEF Return
  <2>3. \/ j.ret = "next" /\ k.pc = "next" /\ k.kind = j.kind /\ k.ret = j.ret /\ k.vch = j.vch
        \/ j.kind = "logout" /\ k.pc = "read" /\ k.kind = j.kind /\ k.ret = j.ret /\ k.vch = j.vch
        \/ j.kind = "reconcile" /\ k.pc = "active" /\ k.kind = j.kind /\ k.ret = j.ret
           /\ k.vch = j.vch
        \/ k = IdleJob
    BY <1>1, <2>2 DEF Job
  <2>4. QED
    BY <1>2, <2>1, <2>3, IdlePlace DEF Place, SignIn, Sweeps
<1>14. CASE ReadActive(w)
  <2>1. k = [IdleJob EXCEPT !.pc = "truncate", !.kind = "reconcile",
                            !.ips = [t \in Tables |-> ActiveIps(t)]]
    BY <1>1, <1>14 DEF ReadActive, Goto
  <2>2. k.pc = "truncate" /\ k.kind = "reconcile" /\ k.ret = "end" /\ k.vch = NoVoucher
    BY <2>1 DEF IdleJob
  <2>3. QED
    BY <1>2, <2>2 DEF Place, SignIn, Sweeps
<1>15. CASE TruncateFile(w) \/ FlushFile(w) \/ ReplaceTable(w)
  <2>1. /\ j.pc \in {"truncate", "flush", "replace"}
        /\ \/ \E pc \in {"flush", "replace"} : k = [j EXCEPT !.pc = pc]
           \/ k = [j EXCEPT !.pc = "truncate", !.tbl = "admin"]
           \/ k = IdleJob
    BY <1>1, <1>15 DEF TruncateFile, FlushFile, ReplaceTable, Goto, GotoFailed
  <2>2. \/ /\ k.pc \in {"truncate", "flush", "replace"}
           /\ k.kind = j.kind /\ k.ret = j.ret /\ k.vch = j.vch
        \/ k = IdleJob
    BY <1>1, <2>1 DEF Job
  <2>3. QED
    BY <1>2, <2>1, <2>2, IdlePlace DEF Place, SignIn, Sweeps
<1>16. QED
  BY <1>3, <1>4, <1>5, <1>6, <1>7, <1>8, <1>9, <1>10, <1>11, <1>12, <1>13, <1>14, <1>15
     DEF Handler

\* What a handler begins with: a voucher it has just read as unused, if any.
LEMMA ArriveIs ==
  ASSUME TypeOK, NEW w \in Workers, Arrive(w)
  PROVE  /\ \A x \in Workers \ {w} : job'[x] = job[x]
         /\ job'[w].pc \in {"upsert", "mark", "read", "next", "active"}
         /\ Place(job'[w])
         /\ job'[w].vch \in Vouchers =>
               job'[w].pc = "upsert" /\ voucher'[job'[w].vch].state = "unused"
<1> DEFINE k == job'[w]
<1>1. /\ job \in [Workers -> Job] /\ IdleJob \in Job
      /\ IdleJob.vch = NoVoucher /\ IdleJob.ret = "end" /\ NoVoucher \notin Vouchers
  BY IdleJobType, IdlePlace, ConstantsAssumption DEF TypeOK
<1>2. \A x \in Workers \ {w} : job'[x] = job[x]
  BY <1>1 DEF Arrive, PortalLogin, RedeemVoucher, StartLogout, StartLogoutAll,
     StartExpire, StartReconcile, Request, Begin
<1>3. CASE PortalLogin(w)
  <2>1. PICK m \in Macs, i \in Ips, su \in BOOLEAN :
          k = [IdleJob EXCEPT !.pc = "upsert", !.kind = "login",
                              !.mac = m, !.ip = i, !.su = su]
    BY <1>1, <1>3 DEF PortalLogin, Request, Begin
  <2>2. k.pc = "upsert" /\ k.kind = "login" /\ k.ret = "end" /\ k.vch = NoVoucher
    BY <1>1, <2>1 DEF Job
  <2>3. QED
    BY <1>1, <1>2, <2>2 DEF Place, SignIn
<1>4. CASE RedeemVoucher(w)
  <2>0. PICK v \in Vouchers, m \in Macs, i \in Ips :
          /\ voucher[v].state = "unused"
          /\ Request(w, [IdleJob EXCEPT !.pc = "upsert", !.kind = "login",
                                        !.mac = m, !.ip = i, !.vch = v])
    BY <1>4 DEF RedeemVoucher
  <2>1. k = [IdleJob EXCEPT !.pc = "upsert", !.kind = "login",
                            !.mac = m, !.ip = i, !.vch = v]
    BY <1>1, <2>0 DEF Request, Begin
  <2>2. k.pc = "upsert" /\ k.kind = "login" /\ k.ret = "end" /\ k.vch = v
    BY <1>1, <2>1 DEF Job
  <2>3. voucher' = voucher
    BY <1>4 DEF RedeemVoucher, db
  <2>4. QED
    BY <1>2, <2>0, <2>2, <2>3 DEF Place, SignIn
<1>5. CASE StartLogout(w)
  <2>1. PICK m \in Macs : k = LogoutJob(Snap(m), {})
    BY <1>1, <1>5 DEF StartLogout, Request, Begin
  <2>2. k.pc = "mark" /\ k.kind = "logout" /\ k.ret = "end" /\ k.vch = NoVoucher
    BY <2>1 DEF LogoutJob, IdleJob
  <2>3. QED
    BY <1>1, <1>2, <2>2 DEF Place, SignIn
<1>6. CASE StartLogoutAll(w)
  <2>1. k = [IdleJob EXCEPT !.pc = "read", !.kind = "logout",
                            !.todo = {Snap(m) : m \in Active}]
    BY <1>1, <1>6 DEF StartLogoutAll, Request, Begin
  <2>2. k.pc = "read" /\ k.kind = "logout" /\ k.ret = "end" /\ k.vch = NoVoucher
    BY <2>1 DEF IdleJob
  <2>3. QED
    BY <1>1, <1>2, <2>2 DEF Place, SignIn
<1>7. CASE StartExpire(w) \/ StartReconcile(w)
  <2>1. \E pc \in {"next", "active"}, kind \in Sweeps :
          k = [IdleJob EXCEPT !.pc = pc, !.kind = kind,
                              !.todo = {Snap(m) : m \in Expired},
                              !.all = {sess[m].id : m \in Expired}]
    BY <1>1, <1>7 DEF StartExpire, StartReconcile, Begin, Sweeps
  <2>2. k.pc \in {"next", "active"} /\ k.kind \in Sweeps /\ k.ret = "end" /\ k.vch = NoVoucher
    BY <2>1 DEF IdleJob
  <2>3. QED
    BY <1>1, <1>2, <2>2 DEF Place, SignIn, Sweeps
<1>8. QED
  BY <1>3, <1>4, <1>5, <1>6, <1>7 DEF Arrive

\* Every handler is where its kind can be.
LEMMA PlacedHolds == Spec => []Placed
<1>1. Init => Placed
  BY IdlePlace DEF Init, Placed
<1>2. TypeOK /\ Placed /\ [Next]_vars => Placed'
  <2> SUFFICES ASSUME TypeOK, Placed, [Next]_vars PROVE Placed'
    OBVIOUS
  <2>1. ASSUME NEW w \in Workers, Handler(w) \/ Arrive(w) PROVE Placed'
    BY <2>1, HandlerPlace, ArriveIs DEF Placed
  <2>2. ASSUME NEW w \in Workers, Abort(w) PROVE Placed'
    <3>1. \A x \in Workers : job'[x] \in {job[x], IdleJob}
      BY <2>2 DEF Abort, TypeOK
    <3>2. QED
      BY <3>1, IdlePlace DEF Placed
  <2>3. CASE VoucherAdmin \/ Tick \/ Reboot \/ UNCHANGED vars
    <3>1. \A x \in Workers : job'[x] \in {job[x], IdleJob}
      BY <2>3 DEF VoucherAdmin, Tick, Reboot, vars
    <3>2. QED
      BY <3>1, IdlePlace DEF Placed
  <2>4. QED
    BY <2>1, <2>2, <2>3 DEF Next
<1>3. QED
  BY <1>1, <1>2, TypeCorrect, PTL DEF Spec

\* A worker that runs alone after a step has taken that step itself, and either went on
\* with a handler it ran alone from its start or began one.
LEMMA SoloMove ==
  ASSUME TypeOK, Next, NEW w \in Workers, solo' = w
  PROVE  Arrive(w) \/ (Handler(w) /\ solo = w)
<1>1. solo' # NoOne
  BY ConstantsAssumption
<1>2. ASSUME NEW x \in Workers, Handler(x) PROVE x = w /\ solo = w
  BY <1>1, <1>2 DEF Handler, UpsertSession, PfAdd, PfAddFails, DeleteSession, UndoRedemption,
     PfAdminAdd, GrantExemption, ReadSession, MarkLoggedOut, NextExpired, PfDelete,
     ClearExemption, MarkAllExpired, GenerateUnbound, LoadUnbound, ReadActive,
     TruncateFile, FlushFile, ReplaceTable, Goto, GotoFailed
<1>3. ASSUME NEW x \in Workers, Arrive(x) PROVE x = w
  BY <1>1, <1>3 DEF Arrive, PortalLogin, RedeemVoucher, StartLogout, StartLogoutAll,
     StartExpire, StartReconcile, Request, Begin
<1>4. ~VoucherAdmin /\ ~Tick /\ ~Reboot /\ \A x \in Workers : ~Abort(x)
  BY <1>1 DEF VoucherAdmin, Tick, Reboot, Abort
<1>5. QED
  BY <1>2, <1>3, <1>4 DEF Next

-----------------------------------------------------------------------------
(* Reconcile. *)

Replacing == {"truncate", "flush", "replace"}

\* j: the locals of the worker that runs alone; f, p: the files and the PF tables; a:
\* the active addresses.  What it read is still so, the file it is about to load holds
\* that, and the first table is done when it comes to the second.
SweepAt(j, f, p, a) ==
    j.pc \in Replacing =>
      /\ j.ips = a
      /\ j.pc = "replace" => f[j.tbl] = a[j.tbl]
      /\ j.tbl = "admin" => p["auth"] = a["auth"]

Wanted == [t \in Tables |-> ActiveIps(t)]

SweepInv == \A w \in Workers : solo = w => SweepAt(job[w], files, tables, Wanted)

\* Which steps lead to the files of a reconcile, to the end of a sign-out and to Unbound.
LEMMA Labels ==
  ASSUME TypeOK, NEW w \in Workers, Handler(w)
  PROVE  /\ job'[w].pc \in Replacing =>
               ReadActive(w) \/ TruncateFile(w) \/ FlushFile(w) \/ ReplaceTable(w)
         /\ job'[w].pc \in {"admin_del", "clear"} => PfDelete(w)
         /\ job'[w].pc = "gen" => GrantExemption(w) \/ ClearExemption(w) \/ MarkAllExpired(w)
         /\ job'[w].pc = "load" => GenerateUnbound(w)
         /\ job'[w].pc \in SignIn => \/ UpsertSession(w) \/ PfAdd(w) \/ PfAddFails(w)
                                    \/ DeleteSession(w) \/ PfAdminAdd(w)
<1> DEFINE j == job[w]
           k == job'[w]
<1>1. j \in Job /\ job \in [Workers -> Job] /\ IdleJob.pc = "idle"
  BY IdleJobType DEF TypeOK
<1>2. CASE UpsertSession(w) \/ PfAddFails(w) \/ DeleteSession(w)
  <2>1. k = IdleJob \/ \E pc \in {"pf_add", "delete", "unredeem"} : k = [j EXCEPT !.pc = pc]
    BY <1>1, <1>2 DEF UpsertSession, PfAddFails, DeleteSession, Goto
  <2>2. k.pc \in {"idle", "pf_add", "delete", "unredeem"}
    BY <1>1, <2>1 DEF Job
  <2>3. QED
    BY <1>2, <2>2 DEF Replacing
<1>3. CASE PfAdd(w) \/ PfAdminAdd(w)
  <2>1. k = IdleJob \/ \E pc \in {"pf_admin", "grant"} : k = [j EXCEPT !.pc = pc]
    BY <1>1, <1>3 DEF PfAdd, PfAdminAdd, Granted, Goto, GotoFailed
  <2>2. k.pc \in {"idle", "pf_admin", "grant"}
    BY <1>1, <2>1 DEF Job
  <2>3. QED
    BY <1>3, <2>2 DEF Replacing
<1>4. CASE MarkLoggedOut(w) \/ PfDelete(w)
  <2>1. \/ k = [j EXCEPT !.pc = "pf_del"]
        \/ PfDelete(w) /\ \E pc \in {"admin_del", "clear"} : k = [j EXCEPT !.pc = pc]
    BY <1>1, <1>4 DEF MarkLoggedOut, PfDelete, Goto, GotoFailed
  <2>2. QED
    BY <1>1, <2>1 DEF Job, Replacing, SignIn
<1>5. CASE GrantExemption(w) \/ ClearExemption(w) \/ MarkAllExpired(w)
  <2>1. \E pc \in {"gen", "next"}, ret \in {"end", "next"} :
          k = [j EXCEPT !.pc = pc, !.ret = ret]
    BY <1>1, <1>5 DEF GrantExemption, ClearExemption, MarkAllExpired, Goto
  <2>2. k.pc \in {"gen", "next"}
    BY <1>1, <2>1 DEF Job
  <2>3. QED
    BY <1>5, <2>2 DEF Replacing, SignIn
<1>6. CASE ReadSession(w)
  <2>1. PICK r \in j.todo :
          \/ k = LogoutJob(r, j.todo \ {r}) \/ k = IdleJob
          \/ k = [j EXCEPT !.todo = @ \ {r}]
    BY <1>1, <1>6 DEF ReadSession, Goto
  <2>2. CASE k = LogoutJob(r, j.todo \ {r})
    BY <2>2 DEF LogoutJob, IdleJob, Replacing, SignIn
  <2>3. CASE k = [j EXCEPT !.todo = @ \ {r}]
    BY <1>1, <1>6, <2>3 DEF ReadSession, Job, Replacing, SignIn
  <2>4. QED
    BY <1>1, <2>1, <2>2, <2>3 DEF Replacing, SignIn
<1>7. CASE NextExpired(w)
  <2>1. \/ \E r \in j.todo : k = [j EXCEPT !.pc = "pf_del", !.todo = @ \ {r},
                                           !.ip = r.ip, !.su = r.su]
        \/ k = [j EXCEPT !.pc = "mark_all"]
    BY <1>1, <1>7 DEF NextExpired, Goto
  <2>2. QED
    BY <1>1, <2>1 DEF Job, Replacing, SignIn
<1>8. CASE GenerateUnbound(w)
  <2>1. k = [j EXCEPT !.pc = "load", !.conf = ExemptIps]
    BY <1>1, <1>8 DEF GenerateUnbound, Goto
  <2>2. k.pc = "load"
    BY <1>1, <2>1 DEF Job
  <2>3. QED
    BY <1>8, <2>2 DEF Replacing, SignIn
<1>9. CASE LoadUnbound(w)
  <2> DEFINE r == [j EXCEPT !.conf = {}]
  <2>1. k = IdleJob \/ \E pc \in {"next", "read", "active"} : k = [r EXCEPT !.pc = pc]
    BY <1>1, <1>9 DEF LoadUnbound, Return, Goto, GotoFailed
  <2>2. QED
    BY <1>1, <2>1 DEF Job, Replacing, SignIn
<1>10. CASE ReadActive(w)
  <2>1. k = [IdleJob EXCEPT !.pc = "truncate", !.kind = "reconcile",
                            !.ips = [t \in Tables |-> ActiveIps(t)]]
    BY <1>1, <1>10 DEF ReadActive, Goto
  <2>2. k.pc = "truncate"
    BY <2>1 DEF IdleJob
  <2>3. QED
    BY <1>10, <2>2 DEF SignIn
<1>11. CASE TruncateFile(w) \/ FlushFile(w) \/ ReplaceTable(w)
  <2>1. \/ \E pc \in {"flush", "replace"} : k = [j EXCEPT !.pc = pc]
        \/ k = [j EXCEPT !.pc = "truncate", !.tbl = "admin"]
        \/ k = IdleJob
    BY <1>1, <1>11 DEF TruncateFile, FlushFile, ReplaceTable, Goto, GotoFailed
  <2>2. k.pc \in {"truncate", "flush", "replace", "idle"}
    BY <1>1, <2>1 DEF Job
  <2>3. QED
    BY <1>11, <2>2 DEF SignIn
<1>12. CASE UndoRedemption(w)
  <2>1. k = IdleJob
    BY <1>1, <1>12 DEF UndoRedemption, Goto
  <2>2. QED
    BY <1>1, <2>1 DEF Replacing, SignIn
<1>13. QED
  BY <1>2, <1>3, <1>4, <1>5, <1>6, <1>7, <1>8, <1>9, <1>10, <1>11, <1>12 DEF Handler

\* A step of the worker that runs alone keeps what it has reconciled.
LEMMA SweepStep ==
  ASSUME TypeOK, NEW w \in Workers, SweepAt(job[w], files, tables, Wanted), Handler(w),
         solo' = w
  PROVE  SweepAt(job'[w], files', tables', Wanted')
<1> DEFINE j == job[w]
           k == job'[w]
<1>1. /\ j \in Job /\ job \in [Workers -> Job] /\ j.tbl \in Tables
      /\ files \in [Tables -> SUBSET Ips] /\ tables \in [Tables -> SUBSET Ips]
  BY DEF TypeOK, Job
<1>2. CASE ReadActive(w)
  <2>1. k = [IdleJob EXCEPT !.pc = "truncate", !.kind = "reconcile", !.ips = Wanted]
    BY <1>1, <1>2 DEF ReadActive, Goto, Wanted
  <2>2. k.pc = "truncate" /\ k.ips = Wanted /\ k.tbl = "auth"
    BY <2>1 DEF IdleJob
  <2>3. Wanted' = Wanted
    BY <1>2 DEF ReadActive, Wanted, ActiveIps, Active, Live, db
  <2>4. QED
    BY <2>2, <2>3 DEF SweepAt
<1>3. CASE TruncateFile(w)
  <2>1. k = [j EXCEPT !.pc = "flush"] /\ tables' = tables /\ j.pc = "truncate"
    BY <1>1, <1>3 DEF TruncateFile, Goto
  <2>2. k.pc = "flush" /\ k.ips = j.ips /\ k.tbl = j.tbl
    BY <1>1, <2>1 DEF Job
  <2>3. Wanted' = Wanted
    BY <1>3 DEF TruncateFile, Wanted, ActiveIps, Active, Live, db
  <2>4. QED
    BY <2>1, <2>2, <2>3 DEF SweepAt, Replacing
<1>4. CASE FlushFile(w)
  <2>1. /\ k = [j EXCEPT !.pc = "replace"] /\ tables' = tables /\ j.pc = "flush"
        /\ files'[j.tbl] = j.ips[j.tbl]
    BY <1>1, <1>4 DEF FlushFile, Goto
  <2>2. k.pc = "replace" /\ k.ips = j.ips /\ k.tbl = j.tbl
    BY <1>1, <2>1 DEF Job
  <2>3. Wanted' = Wanted
    BY <1>4 DEF FlushFile, Wanted, ActiveIps, Active, Live, db
  <2>4. QED
    BY <2>1, <2>2, <2>3 DEF SweepAt, Replacing
<1>5. CASE ReplaceTable(w)
  <2>1. /\ tables' = [tables EXCEPT ![j.tbl] = files[j.tbl]] /\ j.pc = "replace"
        /\ k = IF j.tbl = "auth" THEN [j EXCEPT !.pc = "truncate", !.tbl = "admin"] ELSE IdleJob
    BY <1>1, <1>5, ConstantsAssumption DEF ReplaceTable, Goto, GotoFailed
  <2>2. CASE j.tbl = "auth"
    <3>1. k = [j EXCEPT !.pc = "truncate", !.tbl = "admin"]
      BY <2>1, <2>2
    <3>2. k.pc = "truncate" /\ k.ips = j.ips /\ k.tbl = "admin"
      BY <1>1, <3>1 DEF Job
    <3>3. tables'["auth"] = Wanted["auth"]
      BY <1>1, <2>1, <2>2 DEF SweepAt, Replacing
    <3>4. Wanted' = Wanted
      BY <1>5 DEF ReplaceTable, Wanted, ActiveIps, Active, Live, db
    <3>5. QED
      BY <2>1, <3>2, <3>3, <3>4 DEF SweepAt, Replacing
  <2>3. CASE j.tbl # "auth"
    BY <2>1, <2>3, IdleJobType DEF SweepAt, Replacing
  <2>4. QED
    BY <2>2, <2>3
<1>6. CASE ~(ReadActive(w) \/ TruncateFile(w) \/ FlushFile(w) \/ ReplaceTable(w))
  BY <1>6, Labels DEF SweepAt
<1>7. QED
  BY <1>2, <1>3, <1>4, <1>5, <1>6

\* What an undisturbed reconcile has done so far.
LEMMA SweepInductive == Spec => []SweepInv
<1>1. Init => SweepInv
  BY ConstantsAssumption DEF Init, SweepInv
<1>2. TypeOK /\ SweepInv /\ [Next]_vars => SweepInv'
  <2> SUFFICES ASSUME TypeOK, SweepInv, [Next]_vars, NEW w \in Workers, solo' = w
               PROVE  SweepAt(job'[w], files', tables', Wanted')
    BY DEF SweepInv
  <2>1. CASE UNCHANGED vars
    <3>1. UNCHANGED <<solo, job, files, tables>> /\ Wanted' = Wanted
      BY <2>1 DEF vars, db, runtime, Wanted, ActiveIps, Active, Live
    <3>2. QED
      BY <3>1 DEF SweepInv
  <2>2. CASE Arrive(w)
    BY <2>2, ArriveIs DEF SweepAt, Replacing
  <2>3. CASE Handler(w) /\ solo = w
    BY <2>3, SweepStep DEF SweepInv
  <2>4. QED
    BY <2>1, <2>2, <2>3, SoloMove
<1>3. QED
  BY <1>1, <1>2, TypeCorrect, PTL DEF Spec

\* A reconcile that nothing disturbs leaves both PF tables equal to the addresses of the
\* active sessions, whatever it found in the tables and in the files.
THEOREM ReconcileIsExact == Spec => ReconcileExact
<1> DEFINE A == \A w \in Workers :
                  /\ job[w].pc = "replace" /\ job[w].tbl = "admin"
                  /\ job'[w].pc = "idle" /\ solo' = w
                  => \A t \in Tables : tables'[t] = ActiveIps(t)'
<1>1. TypeOK /\ SweepInv /\ [Next]_vars => [A]_vars
  <2> SUFFICES ASSUME TypeOK, SweepInv, Next, NEW w \in Workers,
                      job[w].pc = "replace", job[w].tbl = "admin",
                      job'[w].pc = "idle", solo' = w, NEW t \in Tables
               PROVE  tables'[t] = ActiveIps(t)'
    OBVIOUS
  <2>1. Handler(w) /\ solo = w
    BY SoloMove, ArriveIs
  <2>2. ReplaceTable(w)
    BY <2>1 DEF Handler, UpsertSession, PfAdd, PfAddFails, DeleteSession, UndoRedemption,
       PfAdminAdd, GrantExemption, ReadSession, MarkLoggedOut, NextExpired, PfDelete,
       ClearExemption, MarkAllExpired, GenerateUnbound, LoadUnbound, ReadActive,
       TruncateFile, FlushFile
  <2>3. tables' = [tables EXCEPT !["admin"] = files["admin"]]
    BY <2>2, ConstantsAssumption DEF ReplaceTable, GotoFailed
  <2>4. files["admin"] = Wanted["admin"] /\ tables["auth"] = Wanted["auth"]
    BY <2>1 DEF SweepInv, SweepAt, Replacing
  <2>5. tables'[t] = Wanted[t]
    BY <2>3, <2>4 DEF TypeOK, Tables
  <2>6. ActiveIps(t)' = ActiveIps(t)
    BY <2>2 DEF ReplaceTable, ActiveIps, Active, Live, db
  <2>7. QED
    BY <2>5, <2>6 DEF Wanted
<1>2. QED
  BY <1>1, TypeCorrect, SweepInductive, PTL DEF Spec, ReconcileExact

-----------------------------------------------------------------------------
(* Logout. *)

\* j: the locals of the worker that runs alone; p: the PF tables; h: tracked_hosts.  A
\* logout has taken the address out of the tables behind it, then the exemption away,
\* and generated Unbound's view from what is left.
SignOutAt(j, p, h) ==
    j.kind = "logout" =>
      /\ j.pc \in {"admin_del", "clear", "gen", "load"} => j.ip \notin p["auth"]
      /\ j.pc \in {"clear", "gen", "load"} /\ j.su = TRUE => j.ip \notin p["admin"]
      /\ j.pc \in {"gen", "load"} => h[j.ip] # "captive"
      /\ j.pc = "load" => j.conf = {i \in Ips : h[i] # "none"}

SignOutInv == \A w \in Workers : solo = w => SignOutAt(job[w], tables, hosts)

\* A step of the worker that runs alone keeps what it has revoked.
LEMMA SignOutStep ==
  ASSUME TypeOK, NEW w \in Workers, Place(job[w]), SignOutAt(job[w], tables, hosts),
         Handler(w), solo' = w
  PROVE  SignOutAt(job'[w], tables', hosts')
<1> DEFINE j == job[w]
           k == job'[w]
<1>1. /\ j \in Job /\ job \in [Workers -> Job] /\ j.ip \in Ips /\ j.su \in BOOLEAN
      /\ tables \in [Tables -> SUBSET Ips] /\ hosts \in [Ips -> Exemption]
      /\ "auth" \in Tables /\ "admin" \in Tables
  BY DEF TypeOK, Job, Tables
<1>2. CASE PfDelete(w)
  <2> DEFINE t == IF j.pc = "pf_del" THEN "auth" ELSE "admin"
             pc == IF j.pc = "pf_del" /\ j.su THEN "admin_del" ELSE "clear"
  <2>1. /\ tables' = [tables EXCEPT ![t] = @ \ {j.ip}] /\ k = [j EXCEPT !.pc = pc]
        /\ j.pc \in {"pf_del", "admin_del"} /\ hosts' = hosts
    BY <1>1, <1>2, ConstantsAssumption DEF PfDelete, Goto, GotoFailed, db
  <2>2. k.pc = pc /\ k.kind = j.kind /\ k.ip = j.ip /\ k.su = j.su
    BY <1>1, <2>1 DEF Job
  <2>3. CASE j.pc = "pf_del"
    <3>1. j.ip \notin tables'["auth"]
      BY <1>1, <2>1, <2>3
    <3>2. k.pc = "admin_del" \/ (k.pc = "clear" /\ j.su # TRUE)
      BY <2>2, <2>3
    <3>3. QED
      BY <2>2, <3>1, <3>2 DEF SignOutAt
  <2>4. CASE j.pc = "admin_del"
    <3>1. j.ip \notin tables'["admin"] /\ tables'["auth"] = tables["auth"]
      BY <1>1, <2>1, <2>4
    <3>2. k.pc = "clear"
      BY <2>2, <2>4
    <3>3. QED
      BY <2>2, <2>4, <3>1, <3>2 DEF SignOutAt
  <2>5. QED
    BY <2>1, <2>3, <2>4
<1>3. CASE ClearExemption(w)
  <2>1. tables' = tables /\ j.pc = "clear"
    BY <1>3 DEF ClearExemption, runtime
  <2>2. CASE j.kind = "logout"
    <3>1. k = [j EXCEPT !.pc = "gen", !.ret = "end"]
      BY <1>1, <1>3, <2>2 DEF ClearExemption, Goto
    <3>2. k.pc = "gen" /\ k.kind = j.kind /\ k.ip = j.ip /\ k.su = j.su
      BY <1>1, <3>1 DEF Job
    <3>3. hosts'[j.ip] # "captive"
      BY <1>1, <1>3 DEF ClearExemption
    <3>4. QED
      BY <2>1, <2>2, <3>2, <3>3 DEF SignOutAt
  <2>3. CASE j.kind # "logout"
    <3>1. \E pc \in {"gen", "next"} : k = [j EXCEPT !.pc = pc, !.ret = "next"]
      BY <1>1, <1>3, <2>3 DEF ClearExemption, Goto
    <3>2. k.kind = j.kind
      BY <1>1, <3>1 DEF Job
    <3>3. QED
      BY <2>3, <3>2 DEF SignOutAt
  <2>4. QED
    BY <2>2, <2>3
<1>4. CASE GenerateUnbound(w)
  <2>1. /\ k = [j EXCEPT !.pc = "load", !.conf = ExemptIps] /\ j.pc = "gen"
        /\ tables' = tables /\ hosts' = hosts
    BY <1>1, <1>4 DEF GenerateUnbound, Goto, db, runtime
  <2>2. k.pc = "load" /\ k.kind = j.kind /\ k.ip = j.ip /\ k.su = j.su /\ k.conf = ExemptIps
    BY <1>1, <2>1 DEF Job
  <2>3. QED
    BY <2>1, <2>2 DEF SignOutAt, ExemptIps
<1>5. CASE GrantExemption(w) \/ MarkAllExpired(w)
  <2>1. k = [j EXCEPT !.pc = "gen", !.ret = "end"] /\ j.pc \in {"grant", "mark_all"}
    BY <1>1, <1>5 DEF GrantExemption, MarkAllExpired, Goto
  <2>2. k.kind = j.kind
    BY <1>1, <2>1 DEF Job
  <2>3. j.kind # "logout"
    BY <2>1 DEF Place, SignIn, Sweeps
  <2>4. QED
    BY <2>2, <2>3 DEF SignOutAt
<1>6. CASE ~(PfDelete(w) \/ ClearExemption(w) \/ GenerateUnbound(w)
             \/ GrantExemption(w) \/ MarkAllExpired(w))
  BY <1>6, Labels DEF SignOutAt
<1>7. QED
  BY <1>2, <1>3, <1>4, <1>5, <1>6

\* What an undisturbed logout has revoked so far.
LEMMA SignOutInductive == Spec => []SignOutInv
<1>1. Init => SignOutInv
  BY ConstantsAssumption DEF Init, SignOutInv
<1>2. TypeOK /\ Placed /\ SignOutInv /\ [Next]_vars => SignOutInv'
  <2> SUFFICES ASSUME TypeOK, Placed, SignOutInv, [Next]_vars, NEW w \in Workers, solo' = w
               PROVE  SignOutAt(job'[w], tables', hosts')
    BY DEF SignOutInv
  <2>1. CASE UNCHANGED vars
    <3>1. UNCHANGED <<solo, job, tables, hosts>>
      BY <2>1 DEF vars, db, runtime
    <3>2. QED
      BY <3>1 DEF SignOutInv
  <2>2. CASE Arrive(w)
    BY <2>2, ArriveIs DEF SignOutAt
  <2>3. CASE Handler(w) /\ solo = w
    BY <2>3, SignOutStep DEF SignOutInv, Placed
  <2>4. QED
    BY <2>1, <2>2, <2>3, SoloMove
<1>3. QED
  BY <1>1, <1>2, TypeCorrect, PlacedHolds, PTL DEF Spec

\* A logout that nothing disturbs takes the address out of the PF tables its session was
\* entered in, out of the captive exemptions, and out of Unbound's view unless an
\* administrator exempted it.
THEOREM LogoutIsComplete == Spec => LogoutRevokes
<1> DEFINE A == \A w \in Workers :
                  /\ job[w].kind = "logout" /\ job[w].pc = "load"
                  /\ job'[w].pc # "load" /\ solo' = w
                  => LET i == job[w].ip
                     IN  /\ i \notin tables'["auth"]
                         /\ job[w].su => i \notin tables'["admin"]
                         /\ hosts'[i] # "captive"
                         /\ i \in view' => hosts'[i] = "manual"
<1>1. TypeOK /\ SignOutInv /\ [Next]_vars => [A]_vars
  <2> SUFFICES ASSUME TypeOK, SignOutInv, Next, NEW w \in Workers,
                      job[w].kind = "logout", job[w].pc = "load", solo' = w
               PROVE  /\ job[w].ip \notin tables'["auth"]
                      /\ job[w].su => job[w].ip \notin tables'["admin"]
                      /\ hosts'[job[w].ip] # "captive"
                      /\ job[w].ip \in view' => hosts'[job[w].ip] = "manual"
    OBVIOUS
  <2>1. Handler(w) /\ solo = w
    <3>1. ~Arrive(w)
      BY DEF Arrive, PortalLogin, RedeemVoucher, StartLogout, StartLogoutAll,
         StartExpire, StartReconcile, Request, Begin, Idle
    <3>2. QED
      BY <3>1, SoloMove
  <2>2. LoadUnbound(w)
    BY <2>1 DEF Handler, UpsertSession, PfAdd, PfAddFails, DeleteSession, UndoRedemption,
       PfAdminAdd, GrantExemption, ReadSession, MarkLoggedOut, NextExpired, PfDelete,
       ClearExemption, MarkAllExpired, GenerateUnbound, ReplaceTable, ReadActive,
       TruncateFile, FlushFile
  <2>3. view' = job[w].conf /\ tables' = tables /\ hosts' = hosts
    BY <2>2, ConstantsAssumption DEF LoadUnbound, GotoFailed, db
  <2>4. /\ job[w].ip \notin tables["auth"]
        /\ job[w].su = TRUE => job[w].ip \notin tables["admin"]
        /\ hosts[job[w].ip] # "captive"
        /\ job[w].conf = {i \in Ips : hosts[i] # "none"}
    BY <2>1 DEF SignOutInv, SignOutAt
  <2>5. job[w].su \in BOOLEAN /\ job[w].ip \in Ips /\ hosts[job[w].ip] \in Exemption
    BY DEF TypeOK, Job
  <2>6. QED
    BY <2>3, <2>4, <2>5 DEF Exemption
<1>2. QED
  BY <1>1, TypeCorrect, SignOutInductive, PTL DEF Spec, LogoutRevokes

-----------------------------------------------------------------------------
(* Redeeming a voucher. *)

\* j: the locals of the worker that runs alone; r: its client's row; u: the state of its
\* voucher.  Mark and session come together, and go one after the other.
RedeemAt(j, u, r) ==
    /\ j.pc = "upsert" => u = "unused"
    /\ j.pc \in {"pf_add", "pf_admin", "grant", "gen", "load"} =>
          u = "redeemed" /\ r # NoSession /\ r.ip = j.ip /\ r.out = FALSE
    /\ j.pc = "delete" => u = "redeemed"
    /\ j.pc = "unredeem" => u = "redeemed" /\ r = NoSession

RedeemInv ==
    \A w \in Workers : solo = w /\ job[w].vch \in Vouchers =>
      RedeemAt(job[w], voucher[job[w].vch].state, sess[job[w].mac])

\* A voucher is carried from its redemption's first step to its last, and by no other
\* handler.
LEMMA Carries ==
  ASSUME TypeOK, NEW w \in Workers, Place(job[w]), Handler(w), job'[w].vch \in Vouchers
  PROVE  /\ job'[w].vch = job[w].vch /\ job'[w].mac = job[w].mac /\ job'[w].ip = job[w].ip
         /\ \/ UpsertSession(w) /\ job'[w].pc = "pf_add"
            \/ PfAddFails(w) /\ job'[w].pc = "delete"
            \/ DeleteSession(w) /\ job'[w].pc = "unredeem"
            \/ PfAdd(w) /\ job'[w].pc \in {"pf_admin", "grant"}
            \/ PfAdminAdd(w) /\ job'[w].pc = "grant"
            \/ GrantExemption(w) /\ job'[w].pc = "gen"
            \/ GenerateUnbound(w) /\ job'[w].pc = "load"
<1> DEFINE j == job[w]
           k == job'[w]
<1>1. /\ j \in Job /\ job \in [Workers -> Job] /\ IdleJob.vch \notin Vouchers
      /\ NoVoucher \notin Vouchers
  BY IdleJobType, ConstantsAssumption DEF TypeOK
<1>2. k.kind = "login" /\ k.pc \in SignIn \cup {"gen", "load"}
  BY <1>1, HandlerPlace DEF Place
<1>3. CASE UpsertSession(w)
  <2>1. k = [j EXCEPT !.pc = "pf_add"]
    BY <1>1, <1>3 DEF UpsertSession, Goto
  <2>2. k.pc = "pf_add" /\ k.vch = j.vch /\ k.mac = j.mac /\ k.ip = j.ip
    BY <1>1, <2>1 DEF Job
  <2>3. QED
    BY <1>3, <2>2
<1>4. CASE PfAddFails(w)
  <2>1. k = [j EXCEPT !.pc = "delete"]
    BY <1>1, <1>4 DEF PfAddFails, Goto
  <2>2. k.pc = "delete" /\ k.vch = j.vch /\ k.mac = j.mac /\ k.ip = j.ip
    BY <1>1, <2>1 DEF Job
  <2>3. QED
    BY <1>4, <2>2
<1>5. CASE DeleteSession(w)
  <2>1. k = [j EXCEPT !.pc = "unredeem"] \/ k = IdleJob
    BY <1>1, <1>5 DEF DeleteSession, Goto
  <2>2. k.pc = "unredeem" /\ k.vch = j.vch /\ k.mac = j.mac /\ k.ip = j.ip
    BY <1>1, <2>1 DEF Job
  <2>3. QED
    BY <1>5, <2>2
<1>6. CASE PfAdd(w)
  <2>1. k = [j EXCEPT !.pc = "pf_admin"] \/ k = [j EXCEPT !.pc = "grant"] \/ k = IdleJob
    BY <1>1, <1>6 DEF PfAdd, Granted, Goto
  <2>2. k.pc \in {"pf_admin", "grant"} /\ k.vch = j.vch /\ k.mac = j.mac /\ k.ip = j.ip
    BY <1>1, <2>1 DEF Job
  <2>3. QED
    BY <1>6, <2>2
<1>7. CASE PfAdminAdd(w)
  <2>1. k = [j EXCEPT !.pc = "grant"] \/ k = IdleJob
    BY <1>1, <1>7 DEF PfAdminAdd, Granted, Goto, GotoFailed
  <2>2. k.pc = "grant" /\ k.vch = j.vch /\ k.mac = j.mac /\ k.ip = j.ip
    BY <1>1, <2>1 DEF Job
  <2>3. QED
    BY <1>7, <2>2
<1>8. CASE GrantExemption(w)
  <2>1. k = [j EXCEPT !.pc = "gen", !.ret = "end"]
    BY <1>1, <1>8 DEF GrantExemption, Goto
  <2>2. k.pc = "gen" /\ k.vch = j.vch /\ k.mac = j.mac /\ k.ip = j.ip
    BY <1>1, <2>1 DEF Job
  <2>3. QED
    BY <1>8, <2>2
<1>9. CASE GenerateUnbound(w)
  <2>1. k = [j EXCEPT !.pc = "load", !.conf = ExemptIps]
    BY <1>1, <1>9 DEF GenerateUnbound, Goto
  <2>2. k.pc = "load" /\ k.vch = j.vch /\ k.mac = j.mac /\ k.ip = j.ip
    BY <1>1, <2>1 DEF Job
  <2>3. QED
    BY <1>9, <2>2
<1>10. CASE ClearExemption(w) \/ MarkAllExpired(w)
  <2>1. \E pc \in {"gen", "next"}, ret \in {"end", "next"} :
          k = [j EXCEPT !.pc = pc, !.ret = ret]
    BY <1>1, <1>10 DEF ClearExemption, MarkAllExpired, Goto
  <2>2. k.kind = j.kind
    BY <1>1, <2>1 DEF Job
  <2>3. j.kind # "login"
    BY <1>10 DEF ClearExemption, MarkAllExpired, Place, Sweeps
  <2>4. QED
    BY <1>2, <2>2, <2>3
<1>11. QED
  BY <1>2, <1>3, <1>4, <1>5, <1>6, <1>7, <1>8, <1>9, <1>10, Labels

\* A step of the worker that runs alone keeps mark and session together.
LEMMA RedeemStep ==
  ASSUME TypeOK, NEW w \in Workers, Place(job[w]), Handler(w), job'[w].vch \in Vouchers,
         RedeemAt(job[w], voucher[job[w].vch].state, sess[job[w].mac])
  PROVE  RedeemAt(job'[w], voucher'[job'[w].vch].state, sess'[job'[w].mac])
<1> DEFINE j == job[w]
           k == job'[w]
           u == voucher[j.vch].state
           r == sess[j.mac]
<1>1. k.vch = j.vch /\ k.mac = j.mac /\ k.ip = j.ip
  BY Carries
<1>2. /\ j.vch \in Vouchers /\ j.mac \in Macs /\ voucher \in [Vouchers -> VoucherRow]
      /\ sess \in [Macs -> Session \cup {NoSession}] /\ NoSession \notin Session
  BY <1>1, ConstantsAssumption DEF TypeOK, Job, Session
<1>3. CASE UpsertSession(w) /\ k.pc = "pf_add"
  <2>1. u = "unused"
    BY <1>3 DEF UpsertSession, RedeemAt
  <2>2. voucher'[j.vch] = [voucher[j.vch] EXCEPT !.state = "redeemed"]
    BY <1>2, <1>3, <2>1 DEF UpsertSession
  <2>3. voucher'[j.vch].state = "redeemed"
    BY <1>2, <2>2 DEF VoucherRow
  <2>4. \E id : sess'[j.mac] = [id |-> id, ip |-> j.ip, su |-> j.su, exp |-> now + Duration,
                                out |-> FALSE]
    BY <1>2, <1>3 DEF UpsertSession
  <2>5. sess'[j.mac] # NoSession
    <3>1. sess'[j.mac] \in Session
      <4>1. [id |-> IF sess[j.mac] = NoSession THEN nextId ELSE sess[j.mac].id,
             ip |-> j.ip, su |-> j.su, exp |-> now + Duration, out |-> FALSE] \in Session
        BY <1>2, RowTypes, ConstantsAssumption DEF TypeOK, Session, Job
      <4>2. QED
        BY <1>2, <1>3, <4>1 DEF UpsertSession
    <3>2. QED
      BY <1>2, <3>1
  <2>6. QED
    BY <1>1, <1>3, <2>3, <2>4, <2>5 DEF RedeemAt
<1>4. CASE PfAddFails(w) /\ k.pc = "delete"
  <2>1. voucher' = voucher /\ u = "redeemed"
    BY <1>4 DEF PfAddFails, RedeemAt, db
  <2>2. QED
    BY <1>1, <1>4, <2>1 DEF RedeemAt
<1>5. CASE DeleteSession(w) /\ k.pc = "unredeem"
  <2>1. voucher' = voucher /\ u = "redeemed" /\ sess'[j.mac] = NoSession
    BY <1>2, <1>5 DEF DeleteSession, RedeemAt
  <2>2. QED
    BY <1>1, <1>5, <2>1 DEF RedeemAt
<1>6. CASE \/ PfAdd(w) /\ k.pc \in {"pf_admin", "grant"}
           \/ PfAdminAdd(w) /\ k.pc = "grant"
           \/ GrantExemption(w) /\ k.pc = "gen"
           \/ GenerateUnbound(w) /\ k.pc = "load"
  <2>1. /\ voucher' = voucher /\ sess' = sess
        /\ j.pc \in {"pf_add", "pf_admin", "grant", "gen"}
    BY <1>6 DEF PfAdd, PfAdminAdd, GrantExemption, GenerateUnbound, db
  <2>2. QED
    BY <1>1, <1>6, <2>1 DEF RedeemAt
<1>7. QED
  BY <1>3, <1>4, <1>5, <1>6, Carries

\* What an undisturbed redemption has done so far.
LEMMA RedeemInductive == Spec => []RedeemInv
<1>1. Init => RedeemInv
  BY ConstantsAssumption DEF Init, RedeemInv
<1>2. TypeOK /\ Placed /\ RedeemInv /\ [Next]_vars => RedeemInv'
  <2> SUFFICES ASSUME TypeOK, Placed, RedeemInv, [Next]_vars, NEW w \in Workers, solo' = w,
                      job'[w].vch \in Vouchers
               PROVE  RedeemAt(job'[w], voucher'[job'[w].vch].state, sess'[job'[w].mac])
    BY DEF RedeemInv
  <2>1. CASE UNCHANGED vars
    <3>1. UNCHANGED <<solo, job, voucher, sess>>
      BY <2>1 DEF vars, db
    <3>2. QED
      BY <3>1 DEF RedeemInv
  <2>2. CASE Arrive(w)
    BY <2>2, ArriveIs DEF RedeemAt
  <2>3. CASE Handler(w) /\ solo = w
    <3>1. job[w].vch \in Vouchers /\ Place(job[w])
      BY <2>3, Carries DEF Placed
    <3>2. QED
      BY <2>3, <3>1, RedeemStep DEF RedeemInv
  <2>4. QED
    BY <2>1, <2>2, <2>3, SoloMove
<1>3. QED
  BY <1>1, <1>2, TypeCorrect, PlacedHolds, PTL DEF Spec

\* A redemption that no other request disturbs is all or nothing: it ends with the mark and
\* the live session, or, after a failed pf.table_add, with neither.
THEOREM RedemptionIsWhole == Spec => RedeemAllOrNothing
<1> DEFINE A == \A w \in Workers :
                  /\ job[w].vch # NoVoucher /\ job'[w].pc = "idle" /\ solo' = w
                  => LET r == sess'[job[w].mac]
                     IN  voucher'[job[w].vch].state = "redeemed"
                         <=> r # NoSession /\ r.ip = job[w].ip /\ ~r.out
<1>1. TypeOK /\ Placed /\ RedeemInv /\ [Next]_vars => [A]_vars
  <2> SUFFICES ASSUME TypeOK, Placed, RedeemInv, Next, NEW w \in Workers,
                      job[w].vch # NoVoucher, job'[w].pc = "idle", solo' = w
               PROVE  voucher'[job[w].vch].state = "redeemed"
                      <=> /\ sess'[job[w].mac] # NoSession
                          /\ sess'[job[w].mac].ip = job[w].ip /\ ~sess'[job[w].mac].out
    OBVIOUS
  <2> DEFINE j == job[w]
             u == voucher[j.vch].state
             r == sess[j.mac]
  <2>1. Handler(w) /\ solo = w
    BY SoloMove, ArriveIs
  <2>2. /\ j \in Job /\ j.vch \in Vouchers /\ job \in [Workers -> Job]
        /\ voucher \in [Vouchers -> VoucherRow]
    BY DEF TypeOK, Job
  <2>3. Place(j) /\ RedeemAt(j, u, r)
    BY <2>1, <2>2 DEF Placed, RedeemInv
  <2>4. j.kind = "login" /\ j.pc \in SignIn \cup {"gen", "load"}
    BY <2>2, <2>3 DEF Place
  <2>5. CASE UpsertSession(w) \/ PfAddFails(w) \/ GrantExemption(w) \/ GenerateUnbound(w)
    <3>1. \/ \E pc \in {"pf_add", "delete"} : job'[w] = [j EXCEPT !.pc = pc]
          \/ job'[w] = [j EXCEPT !.pc = "gen", !.ret = "end"]
          \/ job'[w] = [j EXCEPT !.pc = "load", !.conf = ExemptIps]
      BY <2>2, <2>5 DEF UpsertSession, PfAddFails, GrantExemption, GenerateUnbound, Goto
    <3>2. job'[w].pc # "idle"
      BY <2>2, <3>1 DEF Job
    <3>3. QED
      BY <3>2
  <2>6. CASE PfAdd(w) \/ PfAdminAdd(w) \/ LoadUnbound(w)
    <3>1. /\ voucher' = voucher /\ sess' = sess
          /\ j.pc \in {"pf_add", "pf_admin", "load"}
      BY <2>6 DEF PfAdd, PfAdminAdd, LoadUnbound, db
    <3>2. u = "redeemed" /\ r # NoSession /\ r.ip = j.ip /\ r.out = FALSE
      BY <2>3, <3>1 DEF RedeemAt
    <3>3. QED
      BY <3>1, <3>2
  <2>7. CASE DeleteSession(w)
    <3>1. job'[w] = [j EXCEPT !.pc = "unredeem"]
      BY <2>2, <2>7, ConstantsAssumption DEF DeleteSession, Goto
    <3>2. job'[w].pc = "unredeem"
      BY <2>2, <3>1 DEF Job
    <3>3. QED
      BY <3>2
  <2>8. CASE UndoRedemption(w)
    <3>1. u = "redeemed" /\ r = NoSession /\ sess' = sess
      BY <2>3, <2>8 DEF UndoRedemption, RedeemAt
    <3>2. voucher'[j.vch] = [voucher[j.vch] EXCEPT !.state = "unused"]
      BY <2>2, <2>8, <3>1 DEF UndoRedemption
    <3>3. voucher'[j.vch].state = "unused"
      BY <2>2, <3>2 DEF VoucherRow
    <3>4. QED
      BY <3>1, <3>3
  <2>9. QED
    <3>1. ~(ReadSession(w) \/ MarkLoggedOut(w) \/ NextExpired(w) \/ PfDelete(w)
            \/ ClearExemption(w) \/ MarkAllExpired(w) \/ ReadActive(w) \/ TruncateFile(w)
            \/ FlushFile(w) \/ ReplaceTable(w))
      BY <2>4 DEF ReadSession, MarkLoggedOut, NextExpired, PfDelete, ClearExemption,
         MarkAllExpired, ReadActive, TruncateFile, FlushFile, ReplaceTable, SignIn
    <3>2. QED
      BY <2>1, <2>5, <2>6, <2>7, <2>8, <3>1 DEF Handler
<1>2. QED
  BY <1>1, TypeCorrect, PlacedHolds, RedeemInductive, PTL DEF Spec, RedeemAllOrNothing
=============================================================================
