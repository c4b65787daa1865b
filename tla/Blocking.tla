------------------------------ MODULE Blocking ------------------------------
(***************************************************************************)
(* Addresses the firewall drops.  The IDS blocker keeps a row with an end  *)
(* for each address it adds to <ss_ids_blocks>; an expirer thread ends     *)
(* both.  Analysts' blocks are rows of soc_blocked_ips, pushed as a whole  *)
(* into <soc_blocklist>, at once or through a recommendation that the      *)
(* analysts and then the administrator approve.                            *)
(***************************************************************************)
EXTENDS Naturals, Sequences, FiniteSets

CONSTANTS
    Attackers,   \* addresses the IDS reports
    Targets,     \* addresses analysts block
    Staff,       \* the requests of analysts and administrators
    Ttl,         \* auto_block_ttl_seconds
    RateMax,     \* blocks in a window (_RATE_MAX)
    RateWindow,  \* its length
    MaxClock,    \* bound on the time
    MaxRecs      \* bound on the recommendations

ASSUME BlockingAssumption ==
    {Ttl, RateMax, RateWindow, MaxClock, MaxRecs} \subseteq Nat \ {0}

VARIABLES
    clock,       \* seconds, coarse
    rows,        \* ids_blocked_ips: when each address is released, 0 for no row
    entry,       \* <ss_ids_blocks>: since when each address is there, 0 for absent
    rateEvents,  \* _rate_events: the times of recent blocks
    blocking,    \* the addresses whose row is written and that are not yet added
    unblocking,  \* the addresses whose row is deleted and that are still in PF
    expiring,    \* the time the expirer read, 0 when it sleeps
    missing,     \* history: why an address with a row may be absent from the table
    listed,      \* soc_blocked_ips
    socTable,    \* <soc_blocklist>
    socFile,     \* soc_blocked_ips.txt
    recs,        \* soc_recommendations
    job,         \* what each request does
    told         \* history: what the last answer said of each target

idsBlockVars == <<clock, rows, entry, rateEvents, blocking, unblocking, expiring, missing>>
socBlockVars == <<listed, socTable, socFile, recs, job, told>>
blockVars == <<idsBlockVars, socBlockVars>>
-----------------------------------------------------------------------------
\* _is_active.
IsActive(ip) == rows[ip] > clock

\* The latest reason for which PF may not drop an address that has a row.
Because(ip, why) == missing' = [missing EXCEPT ![ip] = why]

\* _rate_ok: events older than the window are forgotten.
Recent == SelectSeq(rateEvents, LAMBDA t : t + RateWindow >= clock)

\* maybe_block up to its commit; beyond the rate nothing is blocked.
MaybeBlock(ip) ==
    /\ ip \notin blocking
    /\ ~IsActive(ip)
    /\ Len(Recent) < RateMax
    /\ rateEvents' = Append(Recent, clock)
    /\ rows' = [rows EXCEPT ![ip] = clock + Ttl]
    /\ blocking' = blocking \cup {ip}
    /\ Because(ip, "adding")
    /\ UNCHANGED <<clock, entry, unblocking, expiring>>

\* _pf_add.  PF keeps the age of an address that is already in the table, so
\* only the add of an absent one starts the time the row is written for; a
\* failed add is logged and the row stays.
PfAdd(ip, ok) ==
    /\ ip \in blocking
    /\ blocking' = blocking \ {ip}
    /\ entry' = IF ok /\ entry[ip] = 0 THEN [entry EXCEPT ![ip] = clock] ELSE entry
    /\ Because(ip, IF entry[ip] # 0 THEN "old entry" ELSE IF ok THEN "no" ELSE "add failed")
    /\ UNCHANGED <<clock, rows, rateEvents, unblocking, expiring>>

\* unblock: the row, then the table.
Unblock(ip) ==
    /\ rows' = [rows EXCEPT ![ip] = 0]
    /\ unblocking' = unblocking \cup {ip}
    /\ UNCHANGED <<clock, entry, rateEvents, blocking, expiring, missing>>

PfDelete(ip, ok) ==
    /\ ip \in unblocking
    /\ unblocking' = unblocking \ {ip}
    /\ entry' = IF ok THEN [entry EXCEPT ![ip] = 0] ELSE entry
    /\ Because(ip, "unblocked")
    /\ UNCHANGED <<clock, rows, rateEvents, blocking, expiring>>

\* Mutant: the age limit is half of the time a row is written for.
TooOldEarly(ip) == entry[ip] # 0 /\ 2 * (clock - entry[ip]) > Ttl

\* pf.table_expire takes the addresses older than the configured time.
TooOld(ip) == entry[ip] # 0 /\ clock - entry[ip] > Ttl

\* expire_blocks: the table by age, then the rows that ended before the time it
\* read at its start.
ExpireTable(ok) ==
    /\ expiring = 0
    /\ expiring' = clock
    /\ entry' = [ip \in Attackers |-> IF ok /\ TooOld(ip) THEN 0 ELSE entry[ip]]
    /\ UNCHANGED <<clock, rows, rateEvents, blocking, unblocking, missing>>

ExpireRows ==
    /\ expiring # 0
    /\ rows' = [ip \in Attackers |-> IF rows[ip] < expiring THEN 0 ELSE rows[ip]]
    /\ expiring' = 0
    /\ UNCHANGED <<clock, entry, rateEvents, blocking, unblocking, missing>>

Pass ==
    /\ clock < MaxClock
    /\ clock' = clock + 1
    /\ UNCHANGED <<rows, entry, rateEvents, blocking, unblocking, expiring, missing>>

\* The machine starts again: PF's tables are empty, the rows are not.
RebootIds ==
    /\ entry' = [ip \in Attackers |-> 0]
    /\ rateEvents' = <<>> /\ blocking' = {} /\ unblocking' = {} /\ expiring' = 0
    /\ missing' = [ip \in Attackers |-> "rebooted"]
    /\ UNCHANGED <<clock, rows>>

IdsBlockInit ==
    /\ clock = 1
    /\ rows = [ip \in Attackers |-> 0] /\ entry = [ip \in Attackers |-> 0]
    /\ rateEvents = <<>> /\ blocking = {} /\ unblocking = {} /\ expiring = 0
    /\ missing = [ip \in Attackers |-> "no"]

IdsBlockNext ==
    \/ \E ip \in Attackers :
          \/ MaybeBlock(ip) \/ Unblock(ip)
          \/ \E ok \in BOOLEAN : PfAdd(ip, ok) \/ PfDelete(ip, ok)
    \/ \E ok \in BOOLEAN : ExpireTable(ok)
    \/ ExpireRows \/ Pass \/ RebootIds
-----------------------------------------------------------------------------
Nowhere == [op |-> "none", ip |-> "none", rec |-> 0, stage |-> "idle", ips |-> {},
            solo |-> TRUE]

Busy == {s \in Staff : job[s] # Nowhere}

\* A request begins; it runs alone unless others are under way.
Begin(s, j) ==
    /\ job[s] = Nowhere
    /\ job' = [t \in Staff |->
                 IF t = s THEN [j EXCEPT !.solo = Busy = {}]
                 ELSE IF t \in Busy THEN [job[t] EXCEPT !.solo = FALSE]
                 ELSE job[t]]

Goto(s, stage) == job' = [job EXCEPT ![s].stage = stage]
Finish(s) == job' = [job EXCEPT ![s] = Nowhere]

SetStatus(i, status) == recs' = [recs EXCEPT ![i].status = status]

\* An upsert or a delete of soc_blocked_ips, committed on its own.
WriteListed(op, ip) ==
    /\ listed' = IF op = "block" THEN listed \cup {ip} ELSE listed \ {ip}
    /\ told' = [told EXCEPT ![ip] = "nothing"]

\* action_block_ip: the row; PF is reloaded next, and the push follows whatever
\* came of the reload.
ActionBlockIp(s, ip) ==
    /\ Begin(s, [Nowhere EXCEPT !.op = "block", !.ip = ip, !.stage = "push"])
    /\ WriteListed("block", ip)
    /\ UNCHANGED <<socTable, socFile, recs>>

\* push_soc_blocklist_to_pf: read the rows, write the one file, replace the
\* table from the file.
PushRead(s) ==
    /\ job[s].stage = "push"
    /\ job' = [job EXCEPT ![s].stage = "file", ![s].ips = listed]
    /\ UNCHANGED <<listed, socTable, socFile, recs, told>>

PushFile(s) ==
    /\ job[s].stage = "file"
    /\ socFile' = job[s].ips
    /\ Goto(s, "replace")
    /\ UNCHANGED <<listed, socTable, recs, told>>

\* pf.table_replace_file leaves in the table what the file holds; then the answer
\* of the request, and the final status of a recommendation.
PushReplace(s, ok) ==
    /\ job[s].stage = "replace"
    /\ socTable' = IF ok THEN socFile ELSE socTable
    /\ told' = IF ~job[s].solo THEN [ip \in Targets |-> "nothing"]
               ELSE IF ok
               THEN [told EXCEPT ![job[s].ip] =
                        IF job[s].op = "block" THEN "blocked" ELSE "open"]
               ELSE told
    /\ IF job[s].rec = 0 THEN UNCHANGED recs
       ELSE SetStatus(job[s].rec, IF ok THEN "applied" ELSE "failed")
    /\ Finish(s)
    /\ UNCHANGED <<listed, socFile>>
-----------------------------------------------------------------------------
\* create_recommendation; action_reload_firewall files one too.
CreateRecommendation(op, ip) ==
    /\ Len(recs) < MaxRecs
    /\ recs' = Append(recs, [op |-> op, ip |-> ip, status |-> "pending"])
    /\ UNCHANGED <<listed, socTable, socFile, job, told>>

\* The first half of _transition, and of core_approve_and_apply: the status that
\* was read is acted on later.
Review(s, i, op, expect) ==
    /\ recs[i].status = expect
    /\ Begin(s, [Nowhere EXCEPT !.op = op, !.rec = i, !.stage = "decided"])
    /\ UNCHANGED <<listed, socTable, socFile, recs, told>>

\* soc_approve: two commits.
SocApprove(s) ==
    /\ job[s].op = "soc_approve"
    /\ \/ job[s].stage = "decided" /\ SetStatus(job[s].rec, "approved_by_soc")
          /\ Goto(s, "send")
       \/ job[s].stage = "send" /\ SetStatus(job[s].rec, "sent_to_core") /\ Finish(s)
    /\ UNCHANGED <<listed, socTable, socFile, told>>

\* soc_reject and core_reject.
Reject(s, op, status) ==
    /\ job[s].op = op
    /\ SetStatus(job[s].rec, status)
    /\ Finish(s)
    /\ UNCHANGED <<listed, socTable, socFile, told>>

\* core_approve_and_apply: the approval is committed, then _apply_action writes
\* the row and pushes, or reloads PF.
CoreApprove(s) ==
    /\ job[s].op = "core_approve" /\ job[s].stage = "decided"
    /\ SetStatus(job[s].rec, "approved_by_core")
    /\ Goto(s, "apply")
    /\ UNCHANGED <<listed, socTable, socFile, told>>

ApplyAction(s) ==
    /\ job[s].stage = "apply"
    /\ LET r == recs[job[s].rec]
       IN  \/ /\ r.op \in {"block", "unblock"}
              /\ WriteListed(r.op, r.ip)
              /\ job' = [job EXCEPT ![s].op = r.op, ![s].ip = r.ip,
                                    ![s].stage = "push"]
              /\ UNCHANGED recs
           \/ /\ r.op = "reload"
              /\ \E status \in {"applied", "failed"} : SetStatus(job[s].rec, status)
              /\ Finish(s)
              /\ UNCHANGED <<listed, told>>
    /\ UNCHANGED <<socTable, socFile>>

\* A playbook's block_ip adds to the table and writes no row.
PlaybookBlock(ip) ==
    /\ socTable' = socTable \cup {ip}
    /\ told' = [told EXCEPT ![ip] = IF @ = "open" THEN "nothing" ELSE @]
    /\ UNCHANGED <<listed, socFile, recs, job>>

\* The worker dies, and with it its requests; a reboot empties the table too.
WorkerDies ==
    /\ Busy # {}
    /\ job' = [s \in Staff |-> Nowhere]
    /\ UNCHANGED <<listed, socTable, socFile, recs, told>>

RebootSoc ==
    /\ job' = [s \in Staff |-> Nowhere]
    /\ socTable' = {}
    /\ told' = [ip \in Targets |-> "nothing"]
    /\ UNCHANGED <<listed, socFile, recs>>
-----------------------------------------------------------------------------
SocBlockInit ==
    /\ listed = {} /\ socTable = {} /\ socFile = {} /\ recs = <<>>
    /\ job = [s \in Staff |-> Nowhere]
    /\ told = [ip \in Targets |-> "nothing"]

SocBlockNext ==
    \/ \E s \in Staff :
          \/ \E ip \in Targets : ActionBlockIp(s, ip)
          \/ PushRead(s) \/ PushFile(s)
          \/ \E ok \in BOOLEAN : PushReplace(s, ok)
          \/ \E i \in DOMAIN recs :
                \/ \E op \in {"soc_approve", "soc_reject"} : Review(s, i, op, "pending")
                \/ \E op \in {"core_approve", "core_reject"} :
                      Review(s, i, op, "sent_to_core")
          \/ SocApprove(s) \/ CoreApprove(s) \/ ApplyAction(s)
          \/ Reject(s, "soc_reject", "rejected_by_soc")
          \/ Reject(s, "core_reject", "rejected_by_core")
    \/ \E ip \in Targets : PlaybookBlock(ip)
          \/ \E op \in {"block", "unblock", "reload"} : CreateRecommendation(op, ip)
    \/ WorkerDies \/ RebootSoc

\* What is listed is dropped, but for the gaps the code leaves.  An address that
\* the IDS blocker lists as active and PF does not drop was not added yet, or its
\* add failed, or it was added while an older entry was still in the table (PF
\* keeps that entry's age and expires it under the new row), or an unblock begun
\* before the present row deleted it late, or the machine was restarted: of an
\* address added afresh neither the expirer, nor further alerts, nor the ends of
\* other rows take the entry away early.  After an answer that said an address is
\* blocked (or open again), given by a request no other overlapped, the table of
\* the analysts agrees until somebody changes the address, whatever failed or
\* died in between; of overlapping requests nothing is claimed.
BlockedWhileListed ==
    /\ \A ip \in Attackers : IsActive(ip) /\ entry[ip] = 0 => missing[ip] # "no"
    /\ \A ip \in Targets :
          /\ told[ip] = "blocked" => ip \in listed \cap socTable
          /\ told[ip] = "open" => ip \notin listed \cup socTable
=============================================================================
