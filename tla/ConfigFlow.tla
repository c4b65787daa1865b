----------------------------- MODULE ConfigFlow -----------------------------
(***************************************************************************)
(* From a saved form to a running service: every request of the pages and  *)
(* of the background threads, interleaved, over the writers of             *)
(* ConfigApply, and what the results reported to the operator are worth.   *)
(***************************************************************************)
EXTENDS ConfigRequests

\* A machine whose services run what the database says, either one in use, with
\* every optional service on, or a new one, with none of them and no backups.
Init ==
    /\ saves = <<>>
    /\ on \in {Switched, {}}
    /\ file = [t \in Filed |-> Initial(t)]
    /\ known = [t \in Filed |-> IF on = {} THEN NoFile ELSE Initial(t)]
    /\ daemon = [t \in Targets |->
                    IF IsOn(t) THEN Initial(t) ELSE Down]
    /\ job = [w \in Workers |-> IdleJob]
    /\ before = [t \in Filed |-> Initial(t)]
    /\ seen = {}
    /\ badge = [f \in Features |-> "none"]
    /\ setupDone = FALSE
    /\ crashed = FALSE
    /\ calls = 0 /\ events = 0
    /\ past = [t \in Filed |-> {Initial(t)}]

Next ==
    \/ \E w \in Workers :
          \/ FirewallNext(w) \/ InterfacesNext(w) \/ RoutingAndFiltersNext(w)
          \/ ServicesNext(w) \/ VpnNext(w) \/ RequestsNext(w)
          \/ Step(w)
    \/ WindowFlips
    \/ UnboundStops
    \/ EnforcerRestart

Spec == Init /\ [][Next]_vars

-----------------------------------------------------------------------------
\* The request of w is about to be answered, and nothing ran beside it.
Answering(w) == job[w].pc = "done" /\ job[w].clean

Succeeded(w) == job[w].did \ job[w].failed

\* The database was put back because of a failure.
Reverted(w) == job[w].call \in {"save_wan", "soc_portal"} /\ job[w].failed # {}

\* Targets that are only a file: boot scripts, or another service, read them.
Live(t) ==
    IF t \in {"rcconf", "suricata", "socnginx"} THEN file[t] ELSE daemon[t]

IsCurrent(t) ==
    /\ Live(t) # Down
    /\ IF How[t].load = "add" THEN Seen(t) \subseteq Live(t).of
       ELSE Live(t).of = Seen(t)

\* apply_l2tp writes ipsec.conf after apply_ipsec did.
OverwrittenByL2tp(w, t) == t = "ipsec" /\ "l2tp" \in job[w].did

\* A service that an answered request reports as applied runs exactly the
\* configuration the database holds, if the database has it on.
AppliedIsLive ==
    \A w \in Workers : Answering(w) /\ ~Reverted(w) =>
        \A t \in Succeeded(w) :
            \/ ~IsOn(t) /\ How[t].off # "ignore"
            \/ OverwrittenByL2tp(w, t)
            \/ IsCurrent(t)

\* A command of the writer of t failed and nothing looked at its result.
Ignored(w, t) == <<t, "ignored">> \in job[w].gaps


\* The ways in which a failed apply leaves another file than it found.
LeftBehind(w, t) ==
    \E why \in {"no_backup", "not_put_back", "rollback_failed"} :
        <<t, why>> \in job[w].gaps

\* A writer that has a rollback and fails leaves the file it manages as the
\* request found it, so that a later restart does not pick up a text that was
\* never in force.  What the code does not cover is named: the backup could not
\* be made, the rollback itself failed, or the writer gave up after the file had
\* been replaced, which no writer does but Unbound's, Kea's, PF's and the VPNs'.
FailedApplyRestores ==
    \A w \in Workers : Answering(w) /\ job[w].call # "rollback" =>
        \A t \in job[w].failed \cap Filed :
            \/ How[t].undo = "none"
            \/ OverwrittenByL2tp(w, t)
            \/ file[t] = before[t]
            \/ LeftBehind(w, t)

\* The management web server moves to a new LAN address only after the address
\* is live, and is told of it whenever no interface failed.  An address that went
\* live beside a WAN that failed is one it is not told of.
GuiFollowsLan ==
    \A w \in Workers : Answering(w) /\ job[w].call = "save_lan" =>
        IF job[w].failed \cap ({"lan"} \cup WanSteps) = {}
        THEN "nginx" \in job[w].did /\ IsCurrent("lan")
        ELSE file["nginx"] = before["nginx"]

\* When a PPPoE WAN is saved, the row that is left is one the link does not
\* contradict: it stays when the link came up, whatever became of the LAN, and
\* otherwise it is taken back, unless that failed too, and no link was built
\* from it.  The files written from it stay.
RevertedWanNotLive ==
    \A w \in Workers :
        Answering(w) /\ job[w].call = "save_wan" /\ job[w].save # 0 =>
            IF "pppoe" \in Succeeded(w)
            THEN ~saves[job[w].save].gone /\ job[w].save \in daemon["pppoe"].of
            ELSE /\ saves[job[w].save].gone \/ <<"pppoe", "row_kept">> \in job[w].gaps
                 /\ daemon["pppoe"] = Down \/ job[w].save \notin daemon["pppoe"].of

\* The wizard marks setup as complete only when what the router needs runs from
\* the database as it is.
SetupCompleteMeansLive ==
    \A w \in Workers : Answering(w) /\ job[w].call = "setup" /\ SetupSucceeded(w) =>
        /\ \A t \in {"rcconf", "lan", "pf", "nginx", "unbound"} : IsCurrent(t)
        /\ IsCurrent(IF IsOn("pppoe") THEN "pppoe" ELSE "wan")
        /\ IsOn("dhcpd") => IsCurrent("dhcpd")

\* After the watchdog reports a recovery, which it does once Unbound's writer has
\* succeeded, Unbound serves, and PF sends the LAN's queries to it again unless
\* its reload, whose result the report leaves out, failed.
RecoveredFunnel ==
    \A w \in Workers :
        Answering(w) /\ job[w].call = "recover_dns" /\ "unbound" \in Succeeded(w) =>
            /\ daemon["unbound"] # Down
            /\ daemon["pf"].funnel \/ "pf" \in job[w].failed

\* A badge that says "applying" has a request behind it, unless one was killed.
BadgeSettles ==
    \A f \in Features : badge[f] = "applying" /\ ~crashed =>
        \E w \in Workers : job[w].call = "assistant"

-----------------------------------------------------------------------------
\* The files that are only ever written after a check.
Checked == {t \in Filed : How[t].check}

VF == INSTANCE VersionedFiles WITH
        Paths <- Checked,
        Contents <- Contents,
        Vetted <- {c \in Contents : c.q \notin {"refused", "torn"}},
        Torn <- Torn,
        Empty <- [t \in Checked |-> Initial(t)],
        live <- [t \in Checked |-> file[t]],
        backup <- [t \in Checked |-> known[t]],
        past <- [t \in Checked |-> past[t]]

\* The writers, whatever their order, implement versioned files: only checked
\* texts are installed, only a file's own earlier text is restored, and nothing
\* but a rollback leaves a file half written.
FilesRefine == VF!Spec
=============================================================================
