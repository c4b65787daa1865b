----------------------------- MODULE ConfigApply -----------------------------
(***************************************************************************)
(* The writers that turn the database into running services.  Each one     *)
(* generates a text, checks it, keeps the live file as a backup, replaces  *)
(* the file, restarts or reloads the service and, when that fails, puts    *)
(* the backup back.  They differ in which of these steps they have, which  *)
(* the records Apply... say; the steps themselves are common.              *)
(*                                                                         *)
(* A commit to the database is an entry of saves.  A text is identified by *)
(* the commits its generator saw.  Web workers run the writers with no     *)
(* lock between them.                                                      *)
(***************************************************************************)
EXTENDS ConfigReads, Naturals, Sequences, FiniteSets

CONSTANTS
    Workers,    \* processes that serve requests or run background threads
    MaxCalls,   \* bound on requests
    MaxEvents,  \* bound on bad texts, failing commands, crashes and overlaps
    Down,       \* the service is not running
    NoFile      \* no backup has been made

ASSUME ConfigAssumption ==
    /\ MaxCalls \in Nat /\ MaxEvents \in Nat
    /\ Down # NoFile

VARIABLES
    saves,      \* commits, with what each put out of date
    on,         \* the services the database says are enabled
    file,       \* the configuration files
    known,      \* their backups
    daemon,     \* the text each service runs, or the live kernel state
    job,        \* the request each worker is executing
    before,     \* the files when the request that runs alone began
    seen,       \* the window states the schedule enforcer acted on last
    badge,      \* feature_applied_state of the two features that record it
    setupDone,  \* the setup wizard has been completed
    crashed,    \* a worker died in the middle of a request
    calls, events,
    past        \* history: every text each file has held

vars == <<saves, on, file, known, daemon, job, before, seen, badge,
          setupDone, crashed, calls, events, past>>

-----------------------------------------------------------------------------
MaxSaves == 2 * MaxCalls
SaveIds == 1..MaxSaves
Qualities == {"good", "refused", "unloadable", "mixed", "torn"}

\* by: the writer; of: the commits it saw; q: refused texts fail the checks,
\* unloadable ones pass them and make the restart fail, of the files of a mixed
\* one only some were replaced; funnel: the ruleset sends every LAN DNS query to
\* Unbound.
Contents == [by : Targets, of : SUBSET SaveIds, q : Qualities, funnel : BOOLEAN]

\* The two markers are no texts.
ASSUME MarkerAssumption == Down \notin Contents /\ NoFile \notin Contents

\* What shutil.copy2 and open(path, "w") leave behind when they do not finish.
Torn == [by |-> "pf", of |-> {}, q |-> "torn", funnel |-> FALSE]

Initial(t) == [by |-> t, of |-> {}, q |-> "good", funnel |-> t = "pf"]

\* _unbound_lan_ready: the fail-open gate of the content-policy DNS funnel.
UnboundLanReady == daemon["unbound"] # Down

Seen(t) == {k \in DOMAIN saves : t \in saves[k].hits /\ ~saves[k].gone}

\* What the generator of t would produce from the database as it is now.
Text(t) ==
    LET s == Seen(t)
    IN  [by |-> t, of |-> s, funnel |-> t = "pf" /\ UnboundLanReady,
         q |-> IF s = {} THEN "good"
               ELSE saves[CHOOSE k \in s : \A x \in s : x =< k].q]

IsOn(t) == t \notin Switched \/ t \in on

-----------------------------------------------------------------------------
\* check: a refused text is not written.  backup: the live file is kept.
\* load: how the service takes the text.  undo: what a failed load puts back.
\* off: what happens when the database has the service switched off.  inplace:
\* backup and rollback copy over the file.  several: one text is several files.
\* keeps: the failure after which the new file stays.
Writer(load, undo, off) ==
    [check |-> TRUE, backup |-> TRUE, file |-> TRUE, load |-> load,
     undo |-> undo, off |-> off, inplace |-> TRUE, several |-> FALSE,
     keeps |-> "none"]

\* openvpn_writer, ipsec_writer, l2tp_writer: files replaced one by one, and a
\* command that raises is caught after the last of them, without a rollback.
VpnWriter == [Writer("restart", "file", "stop") EXCEPT
                  !.several = TRUE, !.keeps = "exception"]

\* Nothing on disk: addresses, routes and PF anchors.
LiveWriter(load) ==
    [check |-> FALSE, backup |-> FALSE, file |-> FALSE, load |-> load,
     undo |-> "none", off |-> "ignore", inplace |-> FALSE, several |-> FALSE,
     keeps |-> "none"]

ApplyPf         == [Writer("swap", "reload", "ignore")
                        EXCEPT !.keeps = "exception"]
ApplyNginx      == Writer("swap", "none", "ignore")
ApplyDhcpd      == [Writer("restart", "reload", "stop")
                        EXCEPT !.inplace = FALSE]
\* Mutant: the reload of Unbound is forgotten.
ApplyUnboundQuiet == Writer("none", "none", "ignore")
ApplyUnbound    == [Writer("reload", "reload", "ignore")
                        EXCEPT !.keeps = "stopped"]
ApplyOpenvpn    == VpnWriter
ApplyIpsec      == VpnWriter
ApplyL2tp       == VpnWriter
ApplyNtp        == Writer("restart", "file", "stop_after")
ApplySnmp       == Writer("restart", "file", "stop_after")
ApplyUpnp       == Writer("restart", "file", "stop_after")
ApplyIgmp       == Writer("restart", "file", "stop_after")
ApplyDdns       == Writer("restart", "file", "ignore")
ApplyRtadvd     == Writer("restart", "file", "ignore")
ApplyDhcpv6     == [Writer("restart", "file", "ignore")
                        EXCEPT !.keeps = "routes"]
ApplyMrtg       == [Writer("restart", "file", "ignore") EXCEPT !.check = FALSE]
ApplyRcConf     == Writer("none", "none", "ignore")
WriteSuricata   == Writer("none", "none", "ignore")
WriteSocNginx   == [Writer("none", "none", "ignore") EXCEPT !.backup = FALSE]
ApplyPppoe      == [Writer("restart", "none", "ignore")
                        EXCEPT !.check = FALSE, !.backup = FALSE]
ApplyLan        == LiveWriter("address")
ApplyWan        == LiveWriter("address")
ApplyCaptive    == [LiveWriter("probe") EXCEPT !.check = TRUE]
ApplyFailover   == LiveWriter("reload")
ApplyVips       == LiveWriter("add")
ApplyStaticRoutes == LiveWriter("add")

How ==
    [pf |-> ApplyPf, unbound |-> ApplyUnbound, dhcpd |-> ApplyDhcpd,
     dhcpv6 |-> ApplyDhcpv6, rtadvd |-> ApplyRtadvd, rcconf |-> ApplyRcConf,
     lan |-> ApplyLan, wan |-> ApplyWan, pppoe |-> ApplyPppoe, vips |-> ApplyVips,
     routes |-> ApplyStaticRoutes, failover |-> ApplyFailover,
     openvpn |-> ApplyOpenvpn, ipsec |-> ApplyIpsec, l2tp |-> ApplyL2tp,
     nginx |-> ApplyNginx, socnginx |-> WriteSocNginx,
     captive |-> ApplyCaptive, ntp |-> ApplyNtp, snmp |-> ApplySnmp,
     upnp |-> ApplyUpnp, igmp |-> ApplyIgmp, ddns |-> ApplyDdns,
     mrtg |-> ApplyMrtg, suricata |-> WriteSuricata]

Filed == {t \in Targets : How[t].file}
Loaded == {t \in Targets : How[t].load # "none"}

-----------------------------------------------------------------------------
\* A writer to run.  must: the rest of the request depends on it; gated: it is
\* left out when the service is off; direct: when the WAN is a PPPoE link; live:
\* when an interface failed.
Try(t) == [t |-> t, mode |-> "try"]
Must(t) == [t |-> t, mode |-> "must"]
Gated(t) == [t |-> t, mode |-> "gated"]
Direct(t) == [t |-> t, mode |-> "direct"]
IfLive(t) == [t |-> t, mode |-> "live"]

\* What the operator is not told, or what stays changed after a failure: the
\* live file could not be kept; a writer gave up after it had replaced the file;
\* the rollback failed; a command failed whose result the writer does not read;
\* the row could not be put back.
Gaps == {"no_backup", "not_put_back", "rollback_failed", "ignored", "row_kept"}

IdleJob ==
    [pc |-> "idle", todo |-> <<>>, conf |-> Initial("pf"), did |-> {},
     failed |-> {}, clean |-> FALSE, call |-> "none", save |-> 0,
     mark |-> {}, gaps |-> {}]

Idle(w) == job[w].pc = "idle"
Current(w) == Head(job[w].todo).t

Event == events < MaxEvents /\ events' = events + 1

\* w takes a step: whoever else is in the middle of a request no longer runs
\* alone, and the snapshot is kept for the one that does.
Moves(w, j) ==
    /\ job' = [x \in Workers |->
                 IF x = w THEN j ELSE [job[x] EXCEPT !.clean = FALSE]]
    /\ before' = IF j.clean THEN before ELSE [t \in Filed |-> Initial(t)]

Goto(w, pc) == Moves(w, [job[w] EXCEPT !.pc = pc])

WanSteps == {"wan", "pppoe"}

\* save_wan in PPPoE mode takes its row back when the WAN did not come up, the
\* SOC portal its virtual IP when any of its steps failed.
MustRevert(j, bad) ==
    /\ j.save # 0
    /\ j.call = "save_wan" => bad \cap WanSteps # {}
    /\ bad # {}

\* Where a request goes on whose writers still to run are rest.
After(j, rest, bad) ==
    IF rest # <<>> THEN "generate"
    ELSE IF MustRevert(j, bad) THEN "revert" ELSE "done"

\* A writer has returned: on to the next, or to the end of the request.
FinishWith(w, ok, gaps) ==
    LET e == Head(job[w].todo)
        rest == IF ok \/ e.mode # "must" THEN Tail(job[w].todo) ELSE <<>>
        bad == IF ok THEN job[w].failed ELSE job[w].failed \cup {e.t}
    IN  Moves(w, [job[w] EXCEPT !.pc = After(job[w], rest, bad), !.todo = rest,
                                !.failed = bad, !.did = @ \cup {e.t},
                                !.conf = Initial("pf"), !.gaps = @ \cup gaps])

Finish(w, ok) == FinishWith(w, ok, {})

Gap(w, why) == {<<Current(w), why>>}

\* apply_interface_config raised: the pages give up, and take the PPPoE row
\* back; the wizard goes on with the services.
GiveUp(w) ==
    LET rest == IF job[w].call # "setup" THEN <<>>
                ELSE IF Current(w) = "lan" THEN Tail(Tail(Tail(job[w].todo)))
                     ELSE Tail(Tail(job[w].todo))
    IN  Moves(w, [job[w] EXCEPT
            !.pc = IF rest = <<>> /\ job[w].save # 0 THEN "revert"
                   ELSE After(job[w], rest, {}),
            !.todo = rest, !.failed = @ \cup {Current(w)},
            !.did = @ \cup {Current(w)}, !.conf = Initial("pf")])

Skip(w) ==
    LET rest == Tail(job[w].todo)
    IN  Moves(w, [job[w] EXCEPT !.pc = After(job[w], rest, job[w].failed),
                                !.todo = rest])

Disk == <<file, known, past>>
Database == <<saves, on, setupDone, crashed, badge, seen>>

Put(t, c) ==
    /\ file' = [file EXCEPT ![t] = c]
    /\ past' = [past EXCEPT ![t] = @ \cup {c}]

-----------------------------------------------------------------------------
\* Mutant: a text the checks refuse is written all the same.
AcceptedAlways(t, c) == TRUE

\* validate_...() and the daemon's own syntax check on a temporary file.
Accepted(t, c) == How[t].check => c.q # "refused"

LeftOut(w) ==
    LET e == Head(job[w].todo)
    IN  \/ e.mode = "gated" /\ ~IsOn(e.t)
        \/ e.mode = "direct" /\ IsOn("pppoe")
        \/ e.mode = "live" /\ job[w].failed \cap ({"lan"} \cup WanSteps) # {}

StopsFirst(t) == How[t].off = "stop" /\ ~IsOn(t)

BeforeWrite(t) ==
    IF ~How[t].file THEN "load"
    ELSE IF How[t].backup /\ How[t].inplace THEN "backup" ELSE "write"

\* The generator reads the database; the checks only look at the text.  A
\* service that is off is stopped, and what the command returned is not read.
Generate(w) ==
    /\ job[w].pc = "generate"
    /\ LET t == Current(w)
           c == Text(t)
       IN  \/ /\ LeftOut(w)
              /\ Skip(w)
              /\ UNCHANGED <<daemon, events>>
           \/ /\ ~LeftOut(w) /\ StopsFirst(t)
              /\ daemon' = [daemon EXCEPT ![t] = Down]
              /\ Finish(w, TRUE)
              /\ UNCHANGED events
           \/ /\ ~LeftOut(w) /\ StopsFirst(t)
              /\ Event
              /\ \/ FinishWith(w, TRUE, Gap(w, "ignored"))
                 \/ Finish(w, FALSE)
              /\ UNCHANGED daemon
           \/ /\ ~LeftOut(w) /\ ~StopsFirst(t)
              /\ IF Accepted(t, c)
                 THEN Moves(w, [job[w] EXCEPT !.conf = c, !.pc = BeforeWrite(t)])
                 ELSE Finish(w, FALSE)
              /\ UNCHANGED <<daemon, events>>
    /\ UNCHANGED <<Disk, Database, calls>>

AfterWrite(t) ==
    IF t = "l2tp" THEN "companion" ELSE "load"

\* The new file is in place.
Written(w, gaps) ==
    IF Current(w) \in Loaded
    THEN Moves(w, [job[w] EXCEPT !.pc = AfterWrite(Current(w)), !.gaps = @ \cup gaps])
    ELSE FinishWith(w, TRUE, gaps)

\* backup_config, _save_known_good: the backup is truncated and then filled.  If
\* it cannot be opened it stays what it was, and the writer goes on.
Backup(w) ==
    /\ job[w].pc = "backup"
    /\ LET t == Current(w)
       IN  \/ /\ known' = [known EXCEPT ![t] = Torn]
              /\ Goto(w, "write")
              /\ UNCHANGED <<file, past, events>>
           \/ /\ Event
              /\ Put(t, job[w].conf)
              /\ Written(w, Gap(w, "no_backup"))
              /\ UNCHANGED known
    /\ UNCHANGED <<daemon, Database, calls>>

\* The backup as it is once it has been filled.
Kept(t) == IF How[t].backup THEN [known EXCEPT ![t] = file[t]] ELSE known

\* atomic_write or os.replace, all or nothing for each file.  An I/O error of
\* the backup is swallowed; one of the write is a failure, and the files already
\* replaced stay replaced.
Write(w) ==
    /\ job[w].pc = "write"
    /\ LET t == Current(w)
       IN  \/ /\ Put(t, job[w].conf)
              /\ known' = Kept(t)
              /\ Written(w, {})
              /\ UNCHANGED events
           \/ /\ How[t].backup
              /\ Event
              /\ Put(t, job[w].conf)
              /\ Written(w, Gap(w, "no_backup"))
              /\ UNCHANGED known
           \/ /\ Event
              /\ known' = Kept(t)
              /\ Finish(w, FALSE)
              /\ UNCHANGED <<file, past>>
           \/ /\ How[t].several
              /\ Event
              /\ known' = Kept(t)
              /\ Put(t, [job[w].conf EXCEPT !.q = "mixed"])
              /\ FinishWith(w, FALSE, Gap(w, "not_put_back"))
    /\ UNCHANGED <<daemon, Database, calls>>

\* apply_l2tp replaces ipsec.conf and ipsec.secrets, without a backup, and asks
\* strongSwan to reload if it is running.  Whether any of it worked is not asked.
WriteL2tpIpsec(w) ==
    /\ job[w].pc = "companion"
    /\ \/ /\ Put("ipsec", job[w].conf)
          /\ daemon' = [daemon EXCEPT !["ipsec"] = IF @ = Down THEN Down ELSE job[w].conf]
          /\ Goto(w, "load")
          /\ UNCHANGED events
       \/ /\ Event
          /\ \/ UNCHANGED <<file, past>>
             \/ Put("ipsec", [job[w].conf EXCEPT !.q = "mixed"])
             \/ Put("ipsec", job[w].conf)
          /\ Moves(w, [job[w] EXCEPT !.pc = "load", !.gaps = @ \cup Gap(w, "ignored")])
          /\ UNCHANGED daemon
    /\ UNCHANGED <<known, Database, calls>>

\* A service reads the file as it is now; kernel state takes the text itself.
Incoming(w) == IF How[Current(w)].file THEN file[Current(w)] ELSE job[w].conf

Residue(t, c) ==
    IF How[t].load = "add" THEN [c EXCEPT !.of = @ \cup daemon[t].of] ELSE c

\* A mixed or torn file may load or not.
Loads(c) == c.q \in {"good", "mixed", "torn"}

\* A failure that nothing in the text explains is an event.
Failing(c) == IF c.q = "good" THEN Event ELSE UNCHANGED events

\* A failed restart leaves the service stopped; a failed reload may leave it
\* running as it was; an address is put back at best; pfctl, nginx and the
\* captive portal's anchor keep the old.
AfterFailure(t, c) ==
    CASE How[t].load = "restart" -> {Down}
      [] How[t].load = "reload"  -> {daemon[t], Down}
      [] How[t].load = "address" -> {daemon[t], c}
      [] OTHER                   -> {daemon[t]}

Failed(w) ==
    IF How[Current(w)].undo = "none" THEN Finish(w, FALSE) ELSE Goto(w, "undo")

\* What runs after a failure that leaves the new file in place: Unbound exits
\* after its start command returned 0, a delegated prefix gets no route after
\* Kea has restarted, a command raises.
AfterKeeping(t, c) ==
    CASE How[t].keeps = "stopped"   -> {Down}
      [] How[t].keeps = "routes"    -> IF Loads(c) THEN {Residue(t, c)} ELSE {}
      [] How[t].keeps = "exception" -> {daemon[t]} \cup AfterFailure(t, c)
      [] OTHER                      -> {}

StopsLast(t) == How[t].off = "stop_after" /\ ~IsOn(t)

Load(w) ==
    /\ job[w].pc = "load"
    /\ LET t == Current(w)
           c == Incoming(w)
       IN  \/ /\ StopsLast(t)
              /\ daemon' = [daemon EXCEPT ![t] = Down]
              /\ Finish(w, TRUE)
              /\ UNCHANGED events
           \/ /\ StopsLast(t)
              /\ Event
              /\ Failed(w)
              /\ UNCHANGED daemon
           \/ /\ ~StopsLast(t)
              /\ Loads(c)
              /\ daemon' = [daemon EXCEPT ![t] = Residue(t, c)]
              /\ Finish(w, TRUE)
              /\ UNCHANGED events
           \/ /\ ~StopsLast(t)
              /\ Failing(c)
              /\ \E d \in AfterFailure(t, c) : daemon' = [daemon EXCEPT ![t] = d]
              /\ Failed(w)
           \/ /\ ~StopsLast(t)
              /\ Event
              /\ \E d \in AfterKeeping(t, c) : daemon' = [daemon EXCEPT ![t] = d]
              /\ FinishWith(w, FALSE, Gap(w, "not_put_back"))
           \/ /\ How[t].load = "address"
              /\ Event
              /\ daemon' = [daemon EXCEPT ![t] = c]
              /\ GiveUp(w)
    /\ UNCHANGED <<Disk, Database, calls>>

\* Mutant: the rollback copies nothing.
UndoNothing(w) ==
    /\ job[w].pc = "undo"
    /\ Finish(w, FALSE)
    /\ UNCHANGED <<Disk, daemon, Database, calls, events>>

\* The backup is back in place; only PF, dhcpd and Unbound are reloaded with it.
PutBack(w) ==
    LET t == Current(w)
    IN  /\ file' = [file EXCEPT ![t] = known[t]]
        /\ IF How[t].undo = "reload" THEN Goto(w, "reload") ELSE Finish(w, FALSE)

RollbackFails(w) ==
    /\ FinishWith(w, FALSE, Gap(w, "rollback_failed"))
    /\ UNCHANGED file

\* rollback_config, rollback_pf, _rollback_unbound: the backup is copied over
\* the file, which is truncated first.  Only dhcpd's is replaced as a whole.  A
\* failure costs no event: a rollback follows one, or is the operator's own.
Undo(w) ==
    /\ job[w].pc = "undo"
    /\ LET t == Current(w)
       IN  \/ /\ known[t] = NoFile
              /\ Finish(w, FALSE)
              /\ UNCHANGED file
           \/ /\ known[t] # NoFile /\ How[t].inplace
              /\ file' = [file EXCEPT ![t] = Torn]
              /\ Goto(w, "refill")
           \/ /\ known[t] # NoFile /\ ~How[t].inplace
              /\ PutBack(w)
           \/ /\ known[t] # NoFile
              /\ RollbackFails(w)
    /\ UNCHANGED <<known, past, daemon, Database, calls, events>>

\* The copy is finished, or the file stays half written.
Refill(w) ==
    /\ job[w].pc = "refill"
    /\ PutBack(w) \/ RollbackFails(w)
    /\ UNCHANGED <<known, past, daemon, Database, calls, events>>

\* The service is restarted with the text that was put back.
ReloadBack(w) ==
    /\ job[w].pc = "reload"
    /\ LET t == Current(w)
           c == file[t]
       IN  \/ /\ Loads(c)
              /\ daemon' = [daemon EXCEPT ![t] = c]
              /\ UNCHANGED events
           \/ /\ Failing(c)
              /\ \E d \in AfterFailure(t, c) : daemon' = [daemon EXCEPT ![t] = d]
    /\ Finish(w, FALSE)
    /\ UNCHANGED <<Disk, Database, calls>>
-----------------------------------------------------------------------------
\* kind: an ordinary commit, the SOC portal's own virtual IP row, or a schedule
\* window that opened or closed.
Row(tables, q) ==
    [hits |-> Affected(tables), q |-> q, gone |-> FALSE, kind |-> "row"]
SocVip == [hits |-> Affected({"virtual_ips_configs"}), q |-> "good",
           gone |-> FALSE, kind |-> "soc_vip"]
Window == [hits |-> {"pf"}, q |-> "good", gone |-> FALSE, kind |-> "window"]

Windows == {k \in DOMAIN saves : saves[k].kind = "window"}

\* DELETE FROM virtual_ips_configs for the SOC portal's description.
WithoutSocVip(s) ==
    [k \in DOMAIN s |-> IF s[k].kind = "soc_vip" THEN [s[k] EXCEPT !.gone = TRUE]
                        ELSE s[k]]

Alone(w) == \A x \in Workers \ {w} : Idle(x)

\* A request comes in.  One that overlaps another counts as an event.
Ask(w) ==
    /\ Idle(w)
    /\ Alone(w) \/ events < MaxEvents
    /\ calls < MaxCalls
    /\ calls' = calls + 1

\* The events once the request of w has begun, n of them its own.
Counted(w, n) ==
    LET e == events + n + (IF Alone(w) THEN 0 ELSE 1)
    IN  e =< MaxEvents /\ events' = e

\* The handler's commit.  It may turn the services these tables switch on or
\* off, and what was entered may give a text that is refused or does not load.
Commit(w, tables) ==
    /\ \/ saves' = Append(saves, Row(tables, "good")) /\ Counted(w, 0)
       \/ /\ Affected(tables) # {}
          /\ Counted(w, 1)
          /\ \E q \in {"refused", "unloadable"} :
                saves' = Append(saves, Row(tables, q))
    /\ LET sw == {t \in Switched : SwitchTables[t] \cap tables # {}}
       IN  \E s \in SUBSET sw : on' = (on \ sw) \cup s

\* A request that only commits.
Save(w, tables) ==
    /\ Ask(w)
    /\ Commit(w, tables)
    /\ Moves(w, IdleJob)
    /\ UNCHANGED <<Disk, daemon, seen, badge, setupDone, crashed>>

\* A request starts to run writers.
Begin(w, call, todo, save) ==
    LET j == [IdleJob EXCEPT !.pc = "generate", !.todo = todo, !.call = call,
                             !.clean = Alone(w), !.save = save,
                             !.mark = IF call = "schedule" THEN Windows ELSE {}]
    IN  /\ job' = [x \in Workers |->
                     IF x = w THEN j ELSE [job[x] EXCEPT !.clean = FALSE]]
        /\ before' = [t \in Filed |-> IF j.clean THEN file[t] ELSE Initial(t)]

\* A request that runs writers on the database as it is.
Apply(w, call, todo) ==
    /\ Ask(w)
    /\ Begin(w, call, todo, 0)
    /\ Counted(w, 0)
    /\ UNCHANGED <<Disk, daemon, Database>>

\* A request that commits and applies at once.
SaveAndApply(w, call, tables, todo) ==
    /\ Ask(w)
    /\ Commit(w, tables)
    /\ Begin(w, call, todo, 0)
    /\ UNCHANGED <<Disk, daemon, seen, badge, setupDone, crashed>>

-----------------------------------------------------------------------------
\* Mutant: the failed row stays.
RevertNothing(w) ==
    /\ job[w].pc = "revert"
    /\ Goto(w, "done")
    /\ UNCHANGED <<Disk, daemon, Database, calls, events>>

\* _revert_wan_row puts the row back, with the kind of WAN it had, or raises and
\* it stays; the SOC portal deletes its virtual IP row and applies the virtual
\* IPs again.
Revert(w) ==
    /\ job[w].pc = "revert"
    /\ \/ /\ job[w].call = "save_wan"
          /\ saves' = [saves EXCEPT ![job[w].save].gone = TRUE]
          /\ on' \in {on, on \ {"pppoe"}}
          /\ Goto(w, "done")
          /\ UNCHANGED events
       \/ /\ job[w].call = "save_wan"
          /\ Event
          /\ Moves(w, [job[w] EXCEPT !.pc = "done",
                                     !.gaps = @ \cup {<<"pppoe", "row_kept">>}])
          /\ UNCHANGED <<saves, on>>
       \/ /\ job[w].call # "save_wan"
          /\ saves' = WithoutSocVip(saves)
          /\ Moves(w, [job[w] EXCEPT !.pc = "generate", !.save = 0,
                                     !.todo = <<Try("vips")>>])
          /\ UNCHANGED <<on, events>>
    /\ UNCHANGED <<Disk, daemon, seen, badge, setupDone, crashed, calls>>

\* _wizard_verify: the critical checks look at the machine, not at results.
WizardVerify ==
    /\ daemon["lan"].of = Seen("lan")
    /\ daemon["unbound"] # Down

\* Mutant: the results of the steps are not asked for.
SetupVerifiedOnly(w) == WizardVerify

\* What api_step4_apply asks before it calls _mark_setup_complete.
SetupSucceeded(w) == job[w].failed \subseteq {"mrtg"} /\ WizardVerify

Features == {"pf", "unbound"}

\* Mutant: only a successful apply is recorded.
RecordSuccessOnly(w) ==
    [f \in Features |->
        IF f \in job[w].did \ job[w].failed THEN "applied" ELSE badge[f]]

\* record_apply_result.
RecordApplyResult(w) ==
    [f \in Features |->
        IF f \notin job[w].did THEN badge[f]
        ELSE IF f \in job[w].failed THEN "failed" ELSE "applied"]

\* The request is answered.
Return(w) ==
    /\ job[w].pc = "done"
    /\ seen' = IF job[w].call = "schedule" THEN job[w].mark ELSE seen
    /\ badge' = IF job[w].call = "assistant" THEN RecordApplyResult(w) ELSE badge
    /\ setupDone' = (setupDone \/ (job[w].call = "setup" /\ SetupSucceeded(w)))
    /\ Moves(w, IdleJob)
    /\ UNCHANGED <<Disk, daemon, saves, on, crashed, calls, events>>

\* The worker is killed; files and rows stay as they are.
Crash(w) ==
    /\ ~Idle(w)
    /\ Event
    /\ crashed' = TRUE
    /\ seen' = IF job[w].call = "schedule" THEN NoFile ELSE seen
    /\ Moves(w, IdleJob)
    /\ UNCHANGED <<Disk, daemon, saves, on, badge, setupDone, calls>>

\* A step of the writer that worker w is running.
Step(w) ==
    \/ Generate(w) \/ Backup(w) \/ Write(w) \/ WriteL2tpIpsec(w) \/ Load(w)
    \/ Undo(w) \/ Refill(w) \/ ReloadBack(w) \/ Revert(w) \/ Return(w) \/ Crash(w)
=============================================================================
