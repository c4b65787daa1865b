--------------------------- MODULE CaptivePortal ---------------------------
(***************************************************************************)
(* The captive portal: sessions and vouchers in SQLite, the PF tables that *)
(* let a client through, the DNS content-policy exemption of a signed-in   *)
(* client and the Unbound view built from it.                              *)
(*                                                                         *)
(* Every Gunicorn worker runs the same handlers against the same database  *)
(* and the same kernel, with no lock between them.  One action below is    *)
(* one committed transaction or one privileged command of a handler, so    *)
(* the handlers of two workers interleave at the points where the code     *)
(* lets them.  job[w] is what worker w has in its local variables.         *)
(***************************************************************************)
EXTENDS Naturals

CONSTANTS
    Workers,        \* Gunicorn worker processes
    Sweepers,       \* workers whose expire and reconcile timers come due
    Macs,           \* keys of captive_sessions (mac_address is UNIQUE)
    Ips,            \* client addresses
    Vouchers,       \* voucher codes that may be generated
    NoSession,      \* "no row" in captive_sessions
    NoVoucher,      \* a sign-in with credentials instead of a voucher
    NoOne,          \* no worker has been running alone
    AuthRequired,   \* content policy mode is "captive_auth_required"
    ManualExempt,   \* addresses an administrator has exempted
    Duration,       \* length of a session in clock units
    MaxTime,        \* bound on the clock
    MaxEvents       \* bound on requests, failing commands, aborts and reboots

ASSUME ConstantsAssumption ==
    /\ NoSession \notin [id : Nat, ip : Ips, su : BOOLEAN,
                         exp : Nat, out : BOOLEAN]
    /\ NoVoucher \notin Vouchers
    /\ NoOne \notin Workers /\ Sweepers \subseteq Workers
    /\ AuthRequired \in BOOLEAN /\ ManualExempt \subseteq Ips
    /\ Duration \in Nat /\ MaxTime \in Nat /\ MaxEvents \in Nat
    /\ Macs # {} /\ Ips # {}

VARIABLES
    sess,       \* captive_sessions, by MAC
    nextId,     \* the AUTOINCREMENT counter of captive_sessions
    voucher,    \* captive_vouchers, by code
    hosts,      \* tracked_hosts: exempt flag and its source, by IP
    tables,     \* PF tables authenticated_clients and admin_bypass_clients
    files,      \* the files reconcile loads the two tables from
    view,       \* clients of Unbound's policy_exemption_view
    now,        \* the clock
    job,        \* the handler each worker is running
    events,     \* how much of MaxEvents is used
    solo,       \* the worker that ran its current handler without overlap
    uses,       \* history: successful redemptions of each voucher
    lost        \* history: vouchers whose redemption was cut short

db == <<sess, nextId, voucher, hosts>>
runtime == <<tables, files, view>>
history == <<uses, lost>>
vars == <<db, runtime, now, job, events, solo, history>>

Tables == {"auth", "admin"}

Session == [id : Nat, ip : Ips, su : BOOLEAN, exp : Nat, out : BOOLEAN]

\* What a handler remembers of a session row it has read.
Snapshot == [id : Nat, ip : Ips, su : BOOLEAN]

Exemption == {"none", "manual", "captive"}

VoucherRow == [state : {"ungenerated", "unused", "redeemed", "deleted"},
               disabled : BOOLEAN]

PCs == {"idle", "upsert", "pf_add", "pf_admin", "delete", "unredeem", "grant",
        "read", "mark", "next", "pf_del", "admin_del", "clear", "mark_all",
        "gen", "load", "active", "truncate", "flush", "replace"}

Job == [pc   : PCs,
        kind : {"none", "login", "logout", "expire", "reconcile"},
        mac  : Macs, ip : Ips, su : BOOLEAN, vch : Vouchers \cup {NoVoucher},
        todo : SUBSET Snapshot,         \* rows still to be handled
        all  : SUBSET Nat,              \* ids expire_sessions will mark
        ret  : {"end", "next"},         \* where apply_unbound returns
        conf : SUBSET Ips,              \* generated policy_exemption_view
        tbl  : Tables,
        ips  : [Tables -> SUBSET Ips]]  \* active clients reconcile has read

TypeOK ==
    /\ sess \in [Macs -> Session \cup {NoSession}]
    /\ nextId \in Nat
    /\ voucher \in [Vouchers -> VoucherRow]
    /\ hosts \in [Ips -> Exemption]
    /\ tables \in [Tables -> SUBSET Ips]
    /\ files \in [Tables -> SUBSET Ips]
    /\ view \in SUBSET Ips
    /\ now \in 0..MaxTime
    /\ job \in [Workers -> Job]
    /\ events \in 0..MaxEvents
    /\ solo \in Workers \cup {NoOne}
    /\ uses \in [Vouchers -> Nat]
    /\ lost \in SUBSET Vouchers

-----------------------------------------------------------------------------
IdleJob == [pc |-> "idle", kind |-> "none",
            mac |-> CHOOSE m \in Macs : TRUE, ip |-> CHOOSE i \in Ips : TRUE,
            su |-> FALSE, vch |-> NoVoucher, todo |-> {}, all |-> {},
            ret |-> "end", conf |-> {}, tbl |-> "auth",
            ips |-> [t \in Tables |-> {}]]

Init ==
    /\ sess = [m \in Macs |-> NoSession]
    /\ nextId = 1
    /\ voucher \in [Vouchers -> [state : {"ungenerated", "unused"},
                                disabled : {FALSE}]]
    /\ hosts = [i \in Ips |-> IF i \in ManualExempt THEN "manual" ELSE "none"]
    /\ tables = [t \in Tables |-> {}]
    /\ files = [t \in Tables |-> {}]
    /\ view = ManualExempt
    /\ now = 0
    /\ job = [w \in Workers |-> IdleJob]
    /\ events = 0
    /\ solo = NoOne
    /\ uses = [v \in Vouchers |-> 0]
    /\ lost = {}

-----------------------------------------------------------------------------
(* Queries the handlers make. *)

Live(m) == sess[m] # NoSession /\ ~sess[m].out

\* get_active_sessions and the SELECT of reconcile_captive_pf_tables.
Active == {m \in Macs : Live(m) /\ sess[m].exp > now}

\* The SELECT of expire_sessions.
Expired == {m \in Macs : Live(m) /\ sess[m].exp <= now}

Snap(m) == [id |-> sess[m].id, ip |-> sess[m].ip, su |-> sess[m].su]

ActiveIps(t) == {sess[m].ip : m \in {a \in Active : t = "auth" \/ sess[a].su}}

WithId(ids) == {m \in Macs : sess[m] # NoSession /\ sess[m].id \in ids}

ExemptIps == {i \in Ips : hosts[i] # "none"}

Idle(w) == job[w].pc = "idle"

Event ==
    /\ events < MaxEvents
    /\ events' = events + 1

Begin(w, j) ==
    /\ Idle(w)
    /\ job' = [job EXCEPT ![w] = j]
    /\ solo' = IF \A x \in Workers \ {w} : Idle(x) THEN w ELSE NoOne

Request(w, j) ==
    /\ Event
    /\ Begin(w, j)

Goto(w, j) ==
    /\ job' = [job EXCEPT ![w] = j]
    /\ solo' = IF solo = w THEN w ELSE NoOne

\* A command that fails costs one unit of MaxEvents and ends the claim that
\* the handler ran undisturbed.
GotoFailed(w, j) ==
    /\ Event
    /\ job' = [job EXCEPT ![w] = j]
    /\ solo' = NoOne

MarkOut(ids) ==
    sess' = [m \in Macs |-> IF m \in WithId(ids)
                            THEN [sess[m] EXCEPT !.out = TRUE] ELSE sess[m]]

-----------------------------------------------------------------------------
(* Signing in: POST /portal/auth and /api/captive-portal/authenticate with  *)
(* accepted credentials, or a voucher.  Requests the rate limiter or the    *)
(* credential check turns away change nothing that is modelled here.        *)

PortalLogin(w) ==
    /\ \E m \in Macs, i \in Ips, su \in BOOLEAN :
         Request(w, [IdleJob EXCEPT !.pc = "upsert", !.kind = "login",
                                    !.mac = m, !.ip = i, !.su = su])
    /\ UNCHANGED <<db, runtime, now, history>>

\* redeem_voucher up to its second SELECT.
RedeemVoucher(w) ==
    /\ \E v \in Vouchers, m \in Macs, i \in Ips :
         /\ voucher[v].state = "unused" /\ ~voucher[v].disabled
         /\ Request(w, [IdleJob EXCEPT !.pc = "upsert", !.kind = "login",
                                       !.mac = m, !.ip = i, !.vch = v])
    /\ UNCHANGED <<db, runtime, now, history>>

\* One transaction: the redemption mark staged by redeem_voucher, which does
\* not look at `redeemed' again, and the session upsert.
UpsertSession(w) ==
    LET j == job[w]
        new == sess[j.mac] = NoSession
    IN  /\ j.pc = "upsert"
        /\ sess' = [sess EXCEPT ![j.mac] =
                      [id |-> IF new THEN nextId ELSE sess[j.mac].id,
                       ip |-> j.ip, su |-> j.su, exp |-> now + Duration,
                       out |-> FALSE]]
        /\ nextId' = IF new THEN nextId + 1 ELSE nextId
        /\ voucher' = [v \in Vouchers |->
                         IF v = j.vch /\ voucher[v].state = "unused"
                         THEN [voucher[v] EXCEPT !.state = "redeemed"]
                         ELSE voucher[v]]
        /\ Goto(w, [j EXCEPT !.pc = "pf_add"])
        /\ UNCHANGED <<runtime, hosts, now, events, history>>

\* Where authenticate_session goes once PF lets the client through.
Granted(j) ==
    IF j.su /\ j.pc = "pf_add" THEN [j EXCEPT !.pc = "pf_admin"]
    ELSE IF AuthRequired THEN [j EXCEPT !.pc = "grant"] ELSE IdleJob

PfAdd(w) ==
    LET j == job[w]
    IN  /\ j.pc = "pf_add"
        /\ tables' = [tables EXCEPT !["auth"] = @ \cup {j.ip}]
        /\ uses' = [v \in Vouchers |->
                      IF v = j.vch THEN uses[v] + 1 ELSE uses[v]]
        /\ Goto(w, Granted(j))
        /\ UNCHANGED <<db, files, view, now, events, lost>>

\* pf.table_add returns non-zero, or times out after it took effect.
PfAddFails(w) ==
    LET j == job[w]
    IN  /\ j.pc = "pf_add"
        /\ Event
        /\ \/ UNCHANGED tables
           \/ tables' = [tables EXCEPT !["auth"] = @ \cup {j.ip}]
        /\ Goto(w, [j EXCEPT !.pc = "delete"])
        /\ UNCHANGED <<db, files, view, now, history>>

\* Mutant: redeem_voucher returns without undoing the redemption mark.
DeleteSessionNoUndo(w) ==
    /\ job[w].pc = "delete"
    /\ sess' = [sess EXCEPT ![job[w].mac] = NoSession]
    /\ Goto(w, IdleJob)
    /\ UNCHANGED <<runtime, nextId, voucher, hosts, now, events, history>>

\* Mutant: the session row survives a failed pf.table_add.
DeleteSessionKeepsRow(w) ==
    LET j == job[w]
    IN  /\ j.pc = "delete"
        /\ Goto(w, IF j.vch = NoVoucher THEN IdleJob
                   ELSE [j EXCEPT !.pc = "unredeem"])
        /\ UNCHANGED <<runtime, db, now, events, history>>

DeleteSession(w) ==
    LET j == job[w]
    IN  /\ j.pc = "delete"
        /\ sess' = [sess EXCEPT ![j.mac] = NoSession]
        /\ Goto(w, IF j.vch = NoVoucher THEN IdleJob
                   ELSE [j EXCEPT !.pc = "unredeem"])
        /\ UNCHANGED <<runtime, nextId, voucher, hosts, now, events, history>>

UndoRedemption(w) ==
    LET j == job[w]
    IN  /\ j.pc = "unredeem"
        /\ voucher' = [v \in Vouchers |->
                         IF v = j.vch /\ voucher[v].state = "redeemed"
                         THEN [voucher[v] EXCEPT !.state = "unused"]
                         ELSE voucher[v]]
        /\ Goto(w, IdleJob)
        /\ UNCHANGED <<runtime, sess, nextId, hosts, now, events, history>>

\* A superuser also enters admin_bypass_clients; failing is a partial success.
PfAdminAdd(w) ==
    LET j == job[w]
    IN  /\ j.pc = "pf_admin"
        /\ \/ /\ tables' = [tables EXCEPT !["admin"] = @ \cup {j.ip}]
              /\ Goto(w, Granted(j))
              /\ UNCHANGED events
           \/ /\ GotoFailed(w, Granted(j))
              /\ UNCHANGED tables
        /\ UNCHANGED <<db, files, view, now, history>>

GrantExemption(w) ==
    LET j == job[w]
    IN  /\ j.pc = "grant"
        /\ hosts' = [hosts EXCEPT ![j.ip] = "captive"]
        /\ Goto(w, [j EXCEPT !.pc = "gen", !.ret = "end"])
        /\ UNCHANGED <<runtime, sess, nextId, voucher, now, events, history>>

-----------------------------------------------------------------------------
(* Ending sessions: portal and admin logout, logout-all, expiry.            *)

\* logout_session(conn, r.id) reads the row of the id it is given; a row that
\* is gone is "Session not found".
LogoutJob(r, rest) ==
    LET m == CHOOSE x \in Macs : x \in WithId({r.id})
    IN  [IdleJob EXCEPT !.pc = "mark", !.kind = "logout", !.todo = rest,
                        !.all = {r.id}, !.ip = sess[m].ip, !.su = sess[m].su]

\* /portal/logout picks a live row of the client's address, the admin API any
\* row.
StartLogout(w) ==
    /\ \E m \in Macs :
         /\ sess[m] # NoSession
         /\ Request(w, LogoutJob(Snap(m), {}))
    /\ UNCHANGED <<db, runtime, now, history>>

\* logout-all lists the active sessions once and logs them out one by one.
StartLogoutAll(w) ==
    /\ Active # {}
    /\ Request(w, [IdleJob EXCEPT !.pc = "read", !.kind = "logout",
                                  !.todo = {Snap(m) : m \in Active}])
    /\ UNCHANGED <<db, runtime, now, history>>

ReadSession(w) ==
    LET j == job[w]
    IN  /\ j.pc = "read"
        /\ \E r \in j.todo :
             Goto(w, IF WithId({r.id}) # {} THEN LogoutJob(r, j.todo \ {r})
                     ELSE IF j.todo = {r} THEN IdleJob
                     ELSE [j EXCEPT !.todo = @ \ {r}])
        /\ UNCHANGED <<db, runtime, now, events, history>>

\* Mutant: logout_session forgets the PF tables.
MarkLoggedOutOnly(w) ==
    /\ job[w].pc = "mark"
    /\ MarkOut(job[w].all)
    /\ Goto(w, [job[w] EXCEPT !.pc = "clear"])
    /\ UNCHANGED <<runtime, nextId, voucher, hosts, now, events, history>>

MarkLoggedOut(w) ==
    /\ job[w].pc = "mark"
    /\ MarkOut(job[w].all)
    /\ Goto(w, [job[w] EXCEPT !.pc = "pf_del"])
    /\ UNCHANGED <<runtime, nextId, voucher, hosts, now, events, history>>

\* expire_sessions: rows selected once, handled one by one, marked at the end.
StartExpire(w) ==
    /\ w \in Sweepers /\ Expired # {}
    /\ Begin(w, [IdleJob EXCEPT !.pc = "next", !.kind = "expire",
                                !.todo = {Snap(m) : m \in Expired},
                                !.all = {sess[m].id : m \in Expired}])
    /\ UNCHANGED <<db, runtime, now, events, history>>

NextExpired(w) ==
    LET j == job[w]
    IN  /\ j.pc = "next"
        /\ \/ \E r \in j.todo :
                Goto(w, [j EXCEPT !.pc = "pf_del", !.todo = @ \ {r},
                                  !.ip = r.ip, !.su = r.su])
           \/ /\ j.todo = {}
              /\ Goto(w, [j EXCEPT !.pc = "mark_all"])
        /\ UNCHANGED <<db, runtime, now, events, history>>

\* pf.table_delete; its result is only logged.
PfDelete(w) ==
    LET j == job[w]
        t == IF j.pc = "pf_del" THEN "auth" ELSE "admin"
        k == [j EXCEPT !.pc = IF j.pc = "pf_del" /\ j.su THEN "admin_del"
                              ELSE "clear"]
    IN  /\ j.pc \in {"pf_del", "admin_del"}
        /\ \/ /\ tables' = [tables EXCEPT ![t] = @ \ {j.ip}]
              /\ Goto(w, k)
              /\ UNCHANGED events
           \/ /\ GotoFailed(w, k)
              /\ UNCHANGED tables
        /\ UNCHANGED <<db, files, view, now, history>>

\* _clear_captive_policy_exemption regenerates Unbound only if the row changed.
\* A logout then regenerates it in any case (apply_dns_filter): the two in a
\* row are one here.
ClearExemption(w) ==
    LET j == job[w]
        changed == hosts[j.ip] = "captive"
    IN  /\ j.pc = "clear"
        /\ hosts' = IF changed THEN [hosts EXCEPT ![j.ip] = "none"] ELSE hosts
        /\ Goto(w, IF j.kind = "logout"
                   THEN [j EXCEPT !.pc = "gen", !.ret = "end"]
                   ELSE [j EXCEPT !.pc = IF changed THEN "gen" ELSE "next",
                                  !.ret = "next"])
        /\ UNCHANGED <<runtime, sess, nextId, voucher, now, events, history>>

MarkAllExpired(w) ==
    /\ job[w].pc = "mark_all"
    /\ MarkOut(job[w].all)
    /\ Goto(w, [job[w] EXCEPT !.pc = "gen", !.ret = "end"])
    /\ UNCHANGED <<runtime, nextId, voucher, hosts, now, events, history>>

-----------------------------------------------------------------------------
(* apply_unbound, in the two halves another worker can get between: the     *)
(* configuration is generated from the database, then written and loaded.   *)

GenerateUnbound(w) ==
    /\ job[w].pc = "gen"
    /\ Goto(w, [job[w] EXCEPT !.pc = "load", !.conf = ExemptIps])
    /\ UNCHANGED <<db, runtime, now, events, history>>

\* What the caller of apply_unbound does next.
Return(j) ==
    LET k == [j EXCEPT !.conf = {}]
    IN  CASE j.ret = "next"                     -> [k EXCEPT !.pc = "next"]
          [] j.kind = "logout" /\ j.todo # {}   -> [k EXCEPT !.pc = "read"]
          [] j.ret = "end" /\ j.kind = "reconcile" -> [k EXCEPT !.pc = "active"]
          [] OTHER                              -> IdleJob

LoadUnbound(w) ==
    LET j == job[w]
    IN  /\ j.pc = "load"
        /\ \/ /\ view' = j.conf
              /\ Goto(w, Return(j))
              /\ UNCHANGED events
           \/ /\ GotoFailed(w, Return(j))
              /\ UNCHANGED view
        /\ UNCHANGED <<db, tables, files, now, history>>

-----------------------------------------------------------------------------
(* reconcile_captive_pf_tables: expire, read the active sessions, then for  *)
(* each table write the shared file and have pfctl replace the table by it. *)

StartReconcile(w) ==
    /\ w \in Sweepers
    /\ Begin(w, [IdleJob EXCEPT !.pc = IF Expired = {} THEN "active"
                                        ELSE "next",
                                !.kind = "reconcile",
                                !.todo = {Snap(m) : m \in Expired},
                                !.all = {sess[m].id : m \in Expired}])
    /\ UNCHANGED <<db, runtime, now, events, history>>

\* Mutant: the admin addresses are not computed.
ReadActiveAuthOnly(w) ==
    /\ job[w].pc = "active"
    /\ Goto(w, [IdleJob EXCEPT !.pc = "truncate", !.kind = "reconcile",
                               !.ips = [t \in {"auth"} |-> ActiveIps(t)]])
    /\ UNCHANGED <<db, runtime, now, events, history>>

ReadActive(w) ==
    /\ job[w].pc = "active"
    /\ Goto(w, [IdleJob EXCEPT !.pc = "truncate", !.kind = "reconcile",
                               !.ips = [t \in Tables |-> ActiveIps(t)]])
    /\ UNCHANGED <<db, runtime, now, events, history>>

\* open(file_path, "w")
TruncateFile(w) ==
    /\ job[w].pc = "truncate"
    /\ files' = [files EXCEPT ![job[w].tbl] = {}]
    /\ Goto(w, [job[w] EXCEPT !.pc = "flush"])
    /\ UNCHANGED <<db, tables, view, now, events, history>>

\* the buffered addresses reach the file when it is closed
FlushFile(w) ==
    /\ job[w].pc = "flush"
    /\ files' = [files EXCEPT ![job[w].tbl] = job[w].ips[job[w].tbl]]
    /\ Goto(w, [job[w] EXCEPT !.pc = "replace"])
    /\ UNCHANGED <<db, tables, view, now, events, history>>

\* Mutant: pfctl -T add instead of -T replace.
AddToTable(w) ==
    LET j == job[w]
    IN  /\ j.pc = "replace"
        /\ tables' = [tables EXCEPT ![j.tbl] = @ \cup files[j.tbl]]
        /\ Goto(w, IF j.tbl = "auth"
                   THEN [j EXCEPT !.pc = "truncate", !.tbl = "admin"]
                   ELSE IdleJob)
        /\ UNCHANGED <<db, files, view, now, events, history>>

\* Mutant: the admin table is never replaced.
ReplaceAuthOnly(w) ==
    LET j == job[w]
    IN  /\ j.pc = "replace"
        /\ tables' = [tables EXCEPT ![j.tbl] = files[j.tbl]]
        /\ Goto(w, IdleJob)
        /\ UNCHANGED <<db, files, view, now, events, history>>

\* pf.table_replace_file; a failure of one table does not stop the other.
ReplaceTable(w) ==
    LET j == job[w]
        k == IF j.tbl = "auth"
             THEN [j EXCEPT !.pc = "truncate", !.tbl = "admin"] ELSE IdleJob
    IN  /\ j.pc = "replace"
        /\ \/ /\ tables' = [tables EXCEPT ![j.tbl] = files[j.tbl]]
              /\ Goto(w, k)
              /\ UNCHANGED events
           \/ /\ GotoFailed(w, k)
              /\ UNCHANGED tables
        /\ UNCHANGED <<db, files, view, now, history>>

-----------------------------------------------------------------------------
(* Voucher administration, one transaction each.                            *)

GenerateVoucher(v) ==
    /\ voucher[v].state = "ungenerated"
    /\ voucher' = [voucher EXCEPT ![v].state = "unused"]

DeleteVoucher(v) ==
    /\ voucher[v].state \in {"unused", "redeemed"}
    /\ voucher' = [voucher EXCEPT ![v].state = "deleted"]

DisableVoucher(v) ==
    /\ voucher[v].state \in {"unused", "redeemed"}
    /\ \E b \in BOOLEAN : voucher' = [voucher EXCEPT ![v].disabled = b]

\* An administrator's request counts against MaxEvents like a client's.
VoucherAdmin ==
    /\ Event
    /\ \E v \in Vouchers :
         GenerateVoucher(v) \/ DeleteVoucher(v) \/ DisableVoucher(v)
    /\ solo' = NoOne
    /\ UNCHANGED <<runtime, sess, nextId, hosts, now, job, history>>

-----------------------------------------------------------------------------
(* Environment. *)

Tick ==
    /\ now < MaxTime
    /\ now' = now + 1
    /\ solo' = NoOne
    /\ UNCHANGED <<db, runtime, job, events, history>>

\* Redemptions of the given workers that are past their commit.
Redeeming(ws) ==
    {v \in Vouchers : \E w \in ws :
                         /\ job[w].vch = v
                         /\ job[w].pc \in {"pf_add", "delete", "unredeem"}}

\* A worker is killed or an exception ends the request: its locals are gone.
Abort(w) ==
    /\ ~Idle(w)
    /\ Event
    /\ job' = [job EXCEPT ![w] = IdleJob]
    /\ lost' = lost \cup Redeeming({w})
    /\ solo' = NoOne
    /\ UNCHANGED <<db, runtime, now, uses>>

\* The appliance restarts: the kernel's tables are empty again.
Reboot ==
    /\ Event
    /\ job' = [w \in Workers |-> IdleJob]
    /\ tables' = [t \in Tables |-> {}]
    /\ lost' = lost \cup Redeeming(Workers)
    /\ solo' = NoOne
    /\ UNCHANGED <<db, files, view, now, uses>>

-----------------------------------------------------------------------------
Handler(w) ==
    \/ UpsertSession(w) \/ PfAdd(w) \/ PfAddFails(w) \/ DeleteSession(w)
    \/ UndoRedemption(w) \/ PfAdminAdd(w) \/ GrantExemption(w)
    \/ ReadSession(w) \/ MarkLoggedOut(w) \/ NextExpired(w) \/ PfDelete(w)
    \/ ClearExemption(w) \/ MarkAllExpired(w) \/ GenerateUnbound(w)
    \/ LoadUnbound(w) \/ ReadActive(w) \/ TruncateFile(w) \/ FlushFile(w)
    \/ ReplaceTable(w)

Arrive(w) ==
    \/ PortalLogin(w) \/ RedeemVoucher(w) \/ StartLogout(w) \/ StartLogoutAll(w)
    \/ StartExpire(w) \/ StartReconcile(w)

Next ==
    \/ \E w \in Workers : Handler(w) \/ Arrive(w) \/ Abort(w)
    \/ VoucherAdmin \/ Tick \/ Reboot

Spec == Init /\ [][Next]_vars

\* Requests keep coming, so every worker's before_request hook keeps running
\* the periodic reconcile, and a handler that started goes on.
FairSpec ==
    /\ Spec
    /\ \A w \in Workers : WF_vars(Handler(w)) /\ WF_vars(StartReconcile(w))

-----------------------------------------------------------------------------
(* Properties. *)

\* A reconcile that no other handler, tick or failing command disturbed leaves
\* both PF tables equal to the addresses of the active sessions, whatever drift
\* (crash, reboot, re-login from a new address, demoted superuser) it found.
ReconcileExact ==
    [][\A w \in Workers :
         /\ job[w].pc = "replace" /\ job[w].tbl = "admin"
         /\ job'[w].pc = "idle" /\ solo' = w
         => \A t \in Tables : tables'[t] = ActiveIps(t)']_vars

\* An undisturbed logout_session takes every access of the session away: the
\* address is in no PF table it was entered in, holds no captive exemption, and
\* Unbound's view keeps it only for a manual exemption.
LogoutRevokes ==
    [][\A w \in Workers :
         /\ job[w].kind = "logout" /\ job[w].pc = "load"
         /\ job'[w].pc # "load" /\ solo' = w
         => LET i == job[w].ip
            IN  /\ i \notin tables'["auth"]
                /\ job[w].su => i \notin tables'["admin"]
                /\ hosts'[i] # "captive"
                /\ i \in view' => hosts'[i] = "manual"]_vars

\* An undisturbed redeem_voucher is all or nothing: when it ends, the voucher is
\* redeemed exactly when the client has its live session, also after pf.table_add
\* failed and the session row and the redemption mark were taken back.
RedeemAllOrNothing ==
    [][\A w \in Workers :
         /\ job[w].vch # NoVoucher /\ job'[w].pc = "idle" /\ solo' = w
         => LET r == sess'[job[w].mac]
            IN  voucher'[job[w].vch].state = "redeemed"
                <=> r # NoSession /\ r.ip = job[w].ip /\ ~r.out]_vars

\* However handlers overlap, a voucher is used up without anyone having been let
\* in for it only when its redemption was cut short after the commit.
VoucherNeverWasted ==
    \A v \in Vouchers :
      voucher[v].state = "redeemed" =>
        uses[v] > 0 \/ v \in Redeeming(Workers) \/ v \in lost

\* "test_redeem_twice_fails": a voucher lets at most one client in.
VoucherSingleUse == \A v \in Vouchers : uses[v] <= 1

\* "Files used by reconcile_captive_pf_tables() to atomically replace PF tables":
\* a replace leaves the table as it is or as the reconcile computed it.
ReplaceIsAtomic ==
    [][\A w \in Workers :
         job[w].pc = "replace" /\ job'[w].pc # "replace" /\ events' = events =>
           LET t == job[w].tbl
           IN  tables'[t] \in {tables[t], job[w].ips[t]}]_vars

\* "it can be revoked on logout without clobbering admin/manual exemptions": an
\* address an administrator exempted stays exempt whatever its client does.
ManualExemptionKept == ManualExempt \subseteq ExemptIps

\* Once requests, failures and the clock have settled, no client stays in a PF
\* table without an active session that entitles it: the periodic reconcile
\* revokes whatever logouts, expiries, crashes and races have left behind.
AccessEventuallyRevoked ==
    <>[](\A t \in Tables : tables[t] \subseteq ActiveIps(t))
=============================================================================
