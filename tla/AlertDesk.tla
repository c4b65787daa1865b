------------------------------ MODULE AlertDesk ------------------------------
(***************************************************************************)
(* The analysts' queue: alerts, deduplicated by a key, suppressions, and   *)
(* the cases opened from them.  Collectors, the correlation engine and the *)
(* analysts' requests write the same rows from different threads; between  *)
(* the statements of one operation another may run.                        *)
(***************************************************************************)
EXTENDS Naturals, Sequences, FiniteSets

CONSTANTS
    Reporters,   \* threads that report alerts
    Keys,        \* dedup keys
    MaxAlerts,   \* bound on the rows of alerts
    MaxCases,    \* bound on the rows of siem_cases
    MaxReports   \* bound on the reports

ASSUME DeskAssumption == {MaxAlerts, MaxCases, MaxReports} \subseteq Nat

VARIABLES
    alerts,      \* the alerts table
    suppressed,  \* the keys of the suppressions
    found,       \* what each reporter has read: nothing, or [key, id, count]
    reports,     \* reports so far
    cases,       \* the siem_cases table
    taken        \* siem_alert_actions and siem_alert_assignments

deskVars == <<alerts, suppressed, found, reports, cases, taken>>

Tiers == {"L1", "L2", "L3"}
Ended == {"closed", "false_positive"}
None == [key |-> "none", id |-> 0, count |-> 0]

Open(k) == {i \in DOMAIN alerts : alerts[i].key = k /\ alerts[i].status \notin Ended}

AlertsUnchanged == UNCHANGED <<alerts, suppressed, found, reports>>
CasesUnchanged == UNCHANGED <<cases, taken>>
-----------------------------------------------------------------------------
\* create_or_update_alert up to its write: a suppressed key gives no alert; else
\* the newest open alert of the key is read.
FindAlert(r, k) ==
    /\ found[r] = None
    /\ reports < MaxReports
    /\ reports' = reports + 1
    /\ found' = IF k \in suppressed THEN found
                ELSE [found EXCEPT ![r] =
                        IF Open(k) = {} THEN [key |-> k, id |-> 0, count |-> 0]
                        ELSE LET i == CHOOSE i \in Open(k) :
                                        \A j \in Open(k) : j =< i
                             IN  [key |-> k, id |-> i, count |-> alerts[i].count]]
    /\ UNCHANGED <<alerts, suppressed>>
    /\ CasesUnchanged

\* Mutant: the index counts the rows that are new only.
UniqueNew(k) == \A i \in Open(k) : alerts[i].status # "new"

\* idx_alerts_dedup_open: one open alert for each key.
Unique(k) == Open(k) = {}

\* The write: the count of the row that was read is raised, whatever has become
\* of the row, or a row is inserted unless the index refuses it.
WriteAlert(r) ==
    /\ found[r] # None
    /\ LET f == found[r]
       IN  alerts' =
             IF f.id # 0 THEN [alerts EXCEPT ![f.id].count = f.count + 1]
             ELSE IF Unique(f.key) /\ Len(alerts) < MaxAlerts
             THEN Append(alerts, [key |-> f.key, status |-> "new", count |-> 1,
                                  owner |-> FALSE])
             ELSE alerts
    /\ found' = [found EXCEPT ![r] = None]
    /\ UNCHANGED <<suppressed, reports>>
    /\ CasesUnchanged

\* An alert takes a status in which it is open, from any status; when it had
\* ended, the index refuses it once its key has an open alert again.
OpenAgain(i, status) ==
    /\ alerts[i].status \in Ended => Unique(alerts[i].key)
    /\ alerts' = [alerts EXCEPT ![i].status = status]
    /\ UNCHANGED <<suppressed, found, reports>>
    /\ CasesUnchanged

AcknowledgeAlert(i) == OpenAgain(i, "acknowledged")
ReopenAlert(i) == OpenAgain(i, "new")
LinkAlertToCase(i) == cases # <<>> /\ OpenAgain(i, "case_opened")

\* assign_alert sets or clears the owner, in any status.
AssignAlert(i) ==
    /\ alerts' = [alerts EXCEPT ![i].owner = ~@]
    /\ UNCHANGED <<suppressed, found, reports>>
    /\ CasesUnchanged

CloseAlert(i) ==
    /\ alerts' = [alerts EXCEPT ![i].status = "closed"]
    /\ UNCHANGED <<suppressed, found, reports>>
    /\ CasesUnchanged

\* mark_false_positive, with or without a suppression of the key.
MarkFalsePositive(i) ==
    /\ alerts' = [alerts EXCEPT ![i].status = "false_positive"]
    /\ \/ suppressed' = suppressed \cup {alerts[i].key}
       \/ UNCHANGED suppressed
    /\ UNCHANGED <<found, reports>>
    /\ CasesUnchanged

-----------------------------------------------------------------------------
NewCase == [status |-> "open", tier |-> "L1", owner |-> FALSE, closure |-> "none"]

\* cases_open.
CasesOpen ==
    /\ Len(cases) < MaxCases
    /\ cases' = Append(cases, NewCase)
    /\ UNCHANGED taken
    /\ AlertsUnchanged

\* l1_escalate: a case, and the action on the event.
L1Escalate ==
    /\ Len(cases) < MaxCases
    /\ cases' = Append(cases, NewCase)
    /\ taken' = taken \cup {"escalated"}
    /\ AlertsUnchanged

\* l1_acknowledge, l1_false_positive, alerts_assign: rows about the event.
L1Action(what) ==
    /\ taken' = IF what = "unassigned" THEN taken \ {"assigned"} ELSE taken \cup {what}
    /\ UNCHANGED cases
    /\ AlertsUnchanged

\* case_assign: an L1 analyst takes a case for themselves or frees it.
CaseAssign(i, tier, to) ==
    /\ tier = "L1" => to # "other"
    /\ cases' = [cases EXCEPT ![i].owner = to # "nobody"]
    /\ UNCHANGED taken
    /\ AlertsUnchanged

\* case_escalate hands the case to the next tier and clears the owner; it asks
\* neither whose case it is nor whether it is closed.
CaseEscalate(i, tier) ==
    /\ tier # "L3"
    /\ cases' = [cases EXCEPT ![i].tier = IF tier = "L1" THEN "L2" ELSE "L3",
                              ![i].owner = FALSE]
    /\ UNCHANGED taken
    /\ AlertsUnchanged

\* case_close: only L3 resolves.
CaseClose(i, tier, closure) ==
    /\ tier # "L3" => closure = "false_positive"
    /\ cases' = [cases EXCEPT ![i].status = "closed", ![i].closure = closure]
    /\ UNCHANGED taken
    /\ AlertsUnchanged

\* The assistant's approved write actions: a case, an escalation that keeps the
\* owner, a closure, a triage row; the tier is read again before each.
AssistantAction(tier, tool) ==
    /\ \/ /\ tool = "open_soc_case"
          /\ Len(cases) < MaxCases
          /\ cases' = Append(cases, NewCase)
          /\ UNCHANGED taken
       \/ /\ tool = "escalate_soc_case" /\ tier # "L3"
          /\ \E i \in DOMAIN cases :
                cases' = [cases EXCEPT ![i].tier = IF tier = "L1" THEN "L2" ELSE "L3"]
          /\ UNCHANGED taken
       \/ /\ tool = "close_soc_case"
          /\ \E i \in DOMAIN cases, closure \in {"false_positive", "resolved"} :
                /\ tier # "L3" => closure = "false_positive"
                /\ cases' = [cases EXCEPT ![i].status = "closed",
                                          ![i].closure = closure]
          /\ UNCHANGED taken
       \/ /\ tool = "triage_soc_alert"
          /\ \E what \in {"acknowledged", "false_positive"} : taken' = taken \cup {what}
          /\ UNCHANGED cases
    /\ AlertsUnchanged
-----------------------------------------------------------------------------
DeskInit ==
    /\ alerts = <<>> /\ suppressed = {}
    /\ found = [r \in Reporters |-> None]
    /\ reports = 0
    /\ cases \in {<<>>, <<NewCase>>} /\ taken = {}

AlertNext ==
    \/ \E r \in Reporters : WriteAlert(r) \/ \E k \in Keys : FindAlert(r, k)
    \/ \E i \in DOMAIN alerts :
          \/ AcknowledgeAlert(i) \/ AssignAlert(i) \/ CloseAlert(i)
          \/ MarkFalsePositive(i) \/ ReopenAlert(i) \/ LinkAlertToCase(i)

CaseNext ==
    \/ CasesOpen \/ L1Escalate
    \/ \E what \in {"acknowledged", "false_positive", "assigned", "unassigned"} :
          L1Action(what)
    \/ \E i \in DOMAIN cases, tier \in Tiers :
          \/ \E to \in {"nobody", "self", "other"} : CaseAssign(i, tier, to)
          \/ CaseEscalate(i, tier)
          \/ \E closure \in {"false_positive", "resolved"} : CaseClose(i, tier, closure)
    \/ \E tier \in Tiers, tool \in {"open_soc_case", "escalate_soc_case",
                                   "close_soc_case", "triage_soc_alert"} :
          AssistantAction(tier, tool)

\* The queue shows each problem once: reporters that read before either writes,
\* alerts acknowledged after they were closed and false positives included, no
\* key ever has two open alerts.
OneOpenAlert == \A k \in Keys : Cardinality(Open(k)) =< 1
=============================================================================
