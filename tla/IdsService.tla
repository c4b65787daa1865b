----------------------------- MODULE IdsService -----------------------------
(***************************************************************************)
(* The Suricata service: the enable pipeline shared by the IDS page,       *)
(* "reload everything" and the watchdog, the fallbacks from inline (IPS)   *)
(* to passive (IDS) mode, and the watchdog's retry policy.  Requests run   *)
(* concurrently; the row ids_config, rc.conf, suricata.yaml and the daemon *)
(* are the shared state.                                                   *)
(***************************************************************************)
EXTENDS Naturals, FiniteSets

CONSTANTS
    Actors,      \* web workers and the watchdog thread
    MaxPerHour,  \* _MAX_PER_HOUR: recoveries the watchdog may try in an hour
    MaxCalls,    \* bound on requests
    MaxEvents    \* bound on failures, deaths of the daemon, killed workers, overlaps

ASSUME IdsAssumption ==
    MaxPerHour \in Nat \ {0} /\ MaxCalls \in Nat /\ MaxEvents \in Nat

VARIABLES
    cfg,      \* the row ids_config
    rc,       \* rc.conf: suricata_enable, and the mode its launch variables suit
    yaml,     \* the mode suricata.yaml is written for
    daemon,   \* "down", or the mode Suricata runs in
    rules,    \* the merged rules file has signatures
    netmap,   \* netmap is available in the kernel
    cool,     \* the watchdog's last try is less than _MIN_BACKOFF ago
    tries,    \* its tries counted in the current hour
    begun,    \* history: recoveries it has begun in the current hour
    blind,    \* history: its state was not read or not stored in this hour
    job,      \* the request each actor executes
    calls, events

vars == <<cfg, rc, yaml, daemon, rules, netmap, cool, tries, begun, blind,
          job, calls, events>>

-----------------------------------------------------------------------------
Modes == {"ids", "ips"}
PCs == {"idle", "count", "safety", "rules", "validate", "write", "sysrc",
        "restart", "confirm", "commit", "mark", "demote", "fallback", "unset",
        "stop", "off", "rewrite", "done"}
Calls == {"none", "toggle", "recover", "apply", "disable", "save"}

\* What a failure that nobody looked at can leave as it was: the row's enabled
\* flag, suricata_enable in rc.conf, the row's mode.
Gaps == {"row", "boot", "mode"}

\* next: where a request goes when its pipeline fails.
IdleJob == [pc |-> "idle", call |-> "none", next |-> "done", ok |-> FALSE,
            clean |-> FALSE, gaps |-> {}]

Alive == daemon # "down"
Event == events < MaxEvents /\ events' = events + 1

\* a takes a step; a request that another one interrupts is no longer clean.
Moves(a, j) ==
    job' = [x \in Actors |-> IF x = a THEN j ELSE [job[x] EXCEPT !.clean = FALSE]]

Goto(a, pc) == Moves(a, [job[a] EXCEPT !.pc = pc])
At(a, pc) == job[a].pc = pc
Alone(a) == \A x \in Actors \ {a} : At(x, "idle")

Watch == <<cool, tries, begun, blind>>
Rest == <<Watch, calls>>

\* A request arrives; one that overlaps another counts as an event.
Ask(a) ==
    /\ At(a, "idle")
    /\ calls < MaxCalls
    /\ calls' = calls + 1
    /\ IF Alone(a) THEN UNCHANGED events ELSE Event

\* A failed toggle in IPS mode tries IDS mode next, a failed apply may give IPS
\* up, a failed recovery leaves it at that.
Begin(a, call, clean) ==
    Moves(a, [pc |-> IF cfg.mode = "ips" /\ call \in {"toggle", "recover"}
                     THEN "safety" ELSE "rules",
              call |-> call,
              next |-> IF cfg.mode = "ids" \/ call = "recover" THEN "done"
                       ELSE IF call = "toggle" THEN "fallback" ELSE "demote",
              ok |-> FALSE, clean |-> clean, gaps |-> {}])

-----------------------------------------------------------------------------
\* A step of the pipeline failed.
Fail(a) == Goto(a, "mark")

\* Mutant: a failed enable leaves the row and rc.conf as they are.
MarkNothing(a) ==
    /\ At(a, "mark")
    /\ Goto(a, job[a].next)
    /\ UNCHANGED <<cfg, rc, yaml, daemon, rules, netmap, Rest, events>>

\* _mark_disabled_if_not_running.  sysrc and the row's update may both fail, and
\* nobody is told.  After it apply_ids looks for netmap.
MarkDisabledIfNotRunning(a) ==
    /\ At(a, "mark")
    /\ \E lost \in SUBSET {"row", "boot"} :
          /\ IF Alive
             THEN lost = {} /\ UNCHANGED <<cfg, rc>>
             ELSE /\ cfg' = [cfg EXCEPT !.enabled = @ /\ "row" \in lost]
                  /\ rc' = [rc EXCEPT !.enable = @ /\ "boot" \in lost]
          /\ IF lost = {} THEN UNCHANGED events ELSE Event
          /\ Moves(a, [job[a] EXCEPT
                          !.pc = IF job[a].next = "demote" /\ netmap THEN "done"
                                 ELSE job[a].next,
                          !.gaps = IF Alive THEN @ ELSE (@ \ {"row", "boot"}) \cup lost])
    /\ UNCHANGED <<yaml, daemon, rules, netmap, Rest>>

\* What the pipeline does not catch ends the request there, or the retry of an
\* apply, with nothing marked and nothing tried instead.
Raises(a) == Moves(a, [job[a] EXCEPT !.pc = "done", !.gaps = Gaps])

Raise(a) ==
    /\ job[a].pc \in {"safety", "rules", "validate", "write", "sysrc", "commit",
                      "fallback"}
    /\ Event
    /\ Raises(a)
    /\ UNCHANGED <<cfg, rc, yaml, daemon, rules, netmap, Rest>>

\* Mutant: the demotion writes a mode that the row does not have.
DemoteToPcap(a) ==
    /\ At(a, "demote")
    /\ cfg' = [cfg EXCEPT !.mode = "pcap"]
    /\ Moves(a, [job[a] EXCEPT !.pc = "rules", !.next = "done"])
    /\ UNCHANGED <<rc, yaml, daemon, rules, netmap, Rest, events>>

\* Mutant: apply_ids tries again without the demotion.
DemoteNothing(a) ==
    /\ At(a, "demote")
    /\ Moves(a, [job[a] EXCEPT !.pc = "rules", !.next = "done"])
    /\ UNCHANGED <<cfg, rc, yaml, daemon, rules, netmap, Rest, events>>

\* _demote_ips_to_ids, before the pipeline is tried once more; a failure of the
\* update is swallowed.
Demote(a) ==
    /\ At(a, "demote")
    /\ \/ /\ cfg' = [cfg EXCEPT !.mode = "ids"]
          /\ Moves(a, [job[a] EXCEPT !.pc = "rules", !.next = "done"])
          /\ UNCHANGED events
       \/ /\ Event
          /\ Moves(a, [job[a] EXCEPT !.pc = "rules", !.next = "done",
                                     !.gaps = @ \cup {"mode"}])
          /\ UNCHANGED cfg
    /\ UNCHANGED <<rc, yaml, daemon, rules, netmap, Rest>>

\* validate_ips_safety: a second interface, and netmap, loaded on demand.  No
\* fallback follows the gate.
ValidateIpsSafety(a) ==
    /\ At(a, "safety")
    /\ \/ /\ cfg.peer
          /\ netmap' = TRUE
          /\ Goto(a, "rules")
          /\ UNCHANGED events
       \/ /\ IF cfg.peer THEN ~netmap /\ Event ELSE UNCHANGED events
          /\ Moves(a, [job[a] EXCEPT !.pc = "mark", !.next = "done"])
          /\ UNCHANGED netmap
    /\ UNCHANGED <<cfg, rc, yaml, daemon, rules, Rest>>

\* ensure_rules_present fetches once when there are none; _rules_ready then
\* refuses an empty ruleset unless degraded mode is allowed.
EnsureRules(a) ==
    /\ At(a, "rules")
    /\ \/ rules' = TRUE /\ UNCHANGED events
       \/ ~rules /\ Event /\ UNCHANGED rules
    /\ IF rules' \/ cfg.degraded THEN Goto(a, "validate") ELSE Fail(a)
    /\ UNCHANGED <<cfg, rc, yaml, daemon, netmap, Rest>>

\* generate_suricata_yaml raises when IPS has no second interface.
Generates == cfg.mode = "ips" => cfg.peer

\* Step 4: generate and suricata -T.
Validate(a) ==
    /\ At(a, "validate")
    /\ \/ /\ Generates
          /\ Goto(a, "write")
          /\ UNCHANGED events
       \/ /\ IF Generates THEN Event ELSE UNCHANGED events
          /\ Fail(a)
    /\ UNCHANGED <<cfg, rc, yaml, daemon, rules, netmap, Rest>>

\* write_suricata_config generates again, from the row as it is by now.
WriteSuricataConfig(a) ==
    /\ At(a, "write")
    /\ \/ /\ Generates
          /\ yaml' = cfg.mode
          /\ Goto(a, "sysrc")
          /\ UNCHANGED events
       \/ /\ IF Generates THEN Event ELSE UNCHANGED events
          /\ Fail(a)
          /\ UNCHANGED yaml
    /\ UNCHANGED <<cfg, rc, daemon, rules, netmap, Rest>>

\* sysrc suricata_enable=YES, which is looked at, and _apply_suricata_rcvars,
\* which is not and may raise.
Sysrc(a) ==
    /\ At(a, "sysrc")
    /\ \/ /\ rc' = [enable |-> TRUE, mode |-> cfg.mode]
          /\ Moves(a, [job[a] EXCEPT !.pc = "restart", !.gaps = @ \ {"boot"}])
          /\ UNCHANGED events
       \/ /\ Event
          /\ rc' = [rc EXCEPT !.enable = TRUE]
          /\ \/ Moves(a, [job[a] EXCEPT !.pc = "restart", !.gaps = @ \ {"boot"}])
             \/ Raises(a)
       \/ /\ Event
          /\ Fail(a)
          /\ UNCHANGED rc
    /\ UNCHANGED <<cfg, yaml, daemon, rules, netmap, Rest>>

\* What the rc script's launch gives: an interface argument forces passive
\* capture, none needs an inline configuration and netmap.
Launched ==
    IF rc.mode = "ids" THEN "ids"
    ELSE IF yaml = "ips" /\ netmap THEN "ips" ELSE "down"

\* service suricata restart: exits 0 even when the daemon dies at once, and
\* fails with the daemon stopped or as it was.
Restart(a) ==
    /\ At(a, "restart")
    /\ \/ /\ \/ daemon' = Launched /\ UNCHANGED events
             \/ daemon' = "down" /\ Event
          /\ Goto(a, "confirm")
       \/ /\ Event
          /\ daemon' \in {daemon, "down"}
          /\ Fail(a)
    /\ UNCHANGED <<cfg, rc, yaml, rules, netmap, Rest>>

\* Mutant: the exit status of the service command is believed.
ConfirmUnseen(a) ==
    /\ At(a, "confirm")
    /\ Goto(a, "commit")
    /\ UNCHANGED <<cfg, rc, yaml, daemon, rules, netmap, Rest, events>>

\* _wait_suricata_alive.
Confirm(a) ==
    /\ At(a, "confirm")
    /\ IF Alive THEN Goto(a, "commit") ELSE Fail(a)
    /\ UNCHANGED <<cfg, rc, yaml, daemon, rules, netmap, Rest, events>>

\* Step 8.
WriteEnabled(a) ==
    /\ At(a, "commit")
    /\ cfg' = [cfg EXCEPT !.enabled = TRUE]
    /\ Moves(a, [job[a] EXCEPT !.pc = "done", !.ok = TRUE])
    /\ UNCHANGED <<rc, yaml, daemon, rules, netmap, Rest, events>>

\* _try_ids_fallback: IDS mode on disk and in rc.conf, whose results are not
\* looked at; the row keeps saying IPS.
TryIdsFallback(a) ==
    /\ At(a, "fallback")
    /\ \/ /\ yaml' = "ids"
          /\ \E lost \in SUBSET {"boot", "vars"} :
                /\ IF lost = {} THEN UNCHANGED events ELSE Event
                /\ rc' = [enable |-> rc.enable \/ "boot" \notin lost,
                          mode |-> IF "vars" \in lost THEN rc.mode ELSE "ids"]
                /\ Moves(a, [job[a] EXCEPT
                                !.pc = "restart", !.next = "done",
                                !.gaps = (@ \ {"boot"}) \cup (lost \ {"vars"})])
       \/ /\ Event
          /\ Goto(a, "done")
          /\ UNCHANGED <<yaml, rc>>
    /\ UNCHANGED <<cfg, daemon, rules, netmap, Rest>>

Return(a) ==
    /\ At(a, "done")
    /\ Moves(a, IdleJob)
    /\ UNCHANGED <<cfg, rc, yaml, daemon, rules, netmap, Rest, events>>
-----------------------------------------------------------------------------
\* toggle_ids(enabled=True).
Enable(a) ==
    /\ Ask(a)
    /\ Begin(a, "toggle", Alone(a))
    /\ UNCHANGED <<cfg, rc, yaml, daemon, rules, netmap, Watch>>

\* toggle_ids(enabled=False): rc.conf, the daemon, and then the row.
Disable(a) ==
    /\ Ask(a)
    /\ Moves(a, [IdleJob EXCEPT !.pc = "unset", !.call = "disable"])
    /\ UNCHANGED <<cfg, rc, yaml, daemon, rules, netmap, Watch>>

\* Neither a failed sysrc nor a failed stop is fatal.
Unset(a) ==
    /\ At(a, "unset")
    /\ \/ rc' = [rc EXCEPT !.enable = FALSE] /\ UNCHANGED events
       \/ Event /\ UNCHANGED rc
    /\ Goto(a, "stop")
    /\ UNCHANGED <<cfg, yaml, daemon, rules, netmap, Rest>>

Stop(a) ==
    /\ At(a, "stop")
    /\ \/ daemon' = "down" /\ UNCHANGED events
       \/ Alive /\ Event /\ UNCHANGED daemon
    /\ Goto(a, "off")
    /\ UNCHANGED <<cfg, rc, yaml, rules, netmap, Rest>>

\* The row's update may raise.
WriteDisabled(a) ==
    /\ At(a, "off")
    /\ \/ cfg' = [cfg EXCEPT !.enabled = FALSE] /\ UNCHANGED events
       \/ Event /\ UNCHANGED cfg
    /\ Goto(a, "done")
    /\ UNCHANGED <<rc, yaml, daemon, rules, netmap, Rest>>

\* apply_ids: nothing to do when IDS is disabled.
ApplyIds(a) ==
    /\ Ask(a)
    /\ cfg.enabled
    /\ Begin(a, "apply", Alone(a))
    /\ UNCHANGED <<cfg, rc, yaml, daemon, rules, netmap, Watch>>

\* ids_save: the row, and the file too if IDS was enabled; no restart.
IdsSave(a) ==
    /\ Ask(a)
    /\ \E m \in Modes, p \in BOOLEAN :
          cfg' = [cfg EXCEPT !.mode = m, !.peer = p]
    /\ Moves(a, IF cfg.enabled
                THEN [IdleJob EXCEPT !.pc = "rewrite", !.call = "save"]
                ELSE IdleJob)
    /\ UNCHANGED <<rc, yaml, daemon, rules, netmap, Watch>>

\* Whether the file could be written is not looked at.
Rewrite(a) ==
    /\ At(a, "rewrite")
    /\ \/ yaml' = (IF Generates THEN cfg.mode ELSE yaml) /\ UNCHANGED events
       \/ Event /\ UNCHANGED yaml
    /\ Goto(a, "done")
    /\ UNCHANGED <<cfg, rc, daemon, rules, netmap, Rest>>

\* update_rules: suricata-update with the enabled sources, possibly none.
UpdateRules(a) ==
    /\ Ask(a)
    /\ rules' \in BOOLEAN
    /\ Moves(a, IdleJob)
    /\ UNCHANGED <<cfg, rc, yaml, daemon, netmap, Watch>>

-----------------------------------------------------------------------------
\* _should_attempt.
ShouldAttempt == ~cool /\ tries < MaxPerHour

\* attempt_recovery, up to the decision.  One watchdog runs, in whichever worker
\* leads.  A state that cannot be read counts as none.
AttemptRecovery(a) ==
    /\ At(a, "idle")
    /\ \A x \in Actors : job[x].call # "recover"
    /\ cfg.enabled /\ ~Alive
    /\ \/ ShouldAttempt /\ UNCHANGED <<blind, events>>
       \/ Event /\ blind' = TRUE
    /\ Moves(a, [IdleJob EXCEPT !.pc = "count", !.call = "recover",
                                !.clean = Alone(a)])
    /\ UNCHANGED <<cfg, rc, yaml, daemon, rules, netmap, cool, tries, begun, calls>>

\* Mutant: only the time of the try is recorded, not the try.
BumpTimeOnly(a) ==
    /\ At(a, "count")
    /\ begun' = begun + 1
    /\ cool' = TRUE
    /\ Begin(a, "recover", job[a].clean)
    /\ UNCHANGED <<cfg, rc, yaml, daemon, rules, netmap, tries, blind, calls, events>>

\* "Bump counters BEFORE the attempt".  The time and the count are two writes of
\* which each may be lost unseen, and a count that is not read starts at zero.
BumpHourCounter(a) ==
    /\ At(a, "count")
    /\ begun' = begun + 1
    /\ \/ /\ cool' = TRUE
          /\ tries' = tries + 1
          /\ UNCHANGED <<blind, events>>
       \/ /\ Event
          /\ blind' = TRUE
          /\ cool' \in {cool, TRUE}
          /\ tries' \in {tries, tries + 1, 1}
    /\ Begin(a, "recover", job[a].clean)
    /\ UNCHANGED <<cfg, rc, yaml, daemon, rules, netmap, calls>>

CooldownPasses ==
    /\ cool
    /\ cool' = FALSE
    /\ UNCHANGED <<cfg, rc, yaml, daemon, rules, netmap, tries, begun, blind,
                   job, calls, events>>

\* Mutant: the counter of an hour gone by is kept.
KeptCounter == tries

\* _hour_counter starts a new bucket at zero.
HourCounter == 0

HourPasses ==
    /\ begun > 0
    /\ begun' = 0
    /\ blind' = FALSE
    /\ tries' = HourCounter
    /\ UNCHANGED <<cfg, rc, yaml, daemon, rules, netmap, cool, job,
                   calls, events>>

\* Suricata dies: out of memory, or a capture error.
SuricataDies ==
    /\ Alive
    /\ Event
    /\ daemon' = "down"
    /\ job' = [x \in Actors |-> [job[x] EXCEPT !.clean = FALSE]]
    /\ UNCHANGED <<cfg, rc, yaml, rules, netmap, Rest>>

\* The worker is killed in the middle of a request.
Crash(a) ==
    /\ ~At(a, "idle")
    /\ Event
    /\ Moves(a, IdleJob)
    /\ UNCHANGED <<cfg, rc, yaml, daemon, rules, netmap, Rest>>

-----------------------------------------------------------------------------
Step(a) ==
    \/ ValidateIpsSafety(a) \/ EnsureRules(a) \/ Validate(a)
    \/ WriteSuricataConfig(a) \/ Sysrc(a) \/ Restart(a) \/ Confirm(a)
    \/ WriteEnabled(a) \/ MarkDisabledIfNotRunning(a) \/ Demote(a)
    \/ TryIdsFallback(a) \/ Unset(a) \/ Stop(a) \/ WriteDisabled(a)
    \/ Rewrite(a) \/ BumpHourCounter(a) \/ Return(a)

Next ==
    \/ \E a \in Actors :
          \/ Step(a) \/ Raise(a) \/ Enable(a) \/ Disable(a) \/ ApplyIds(a)
          \/ IdsSave(a) \/ UpdateRules(a) \/ AttemptRecovery(a) \/ Crash(a)
    \/ CooldownPasses \/ HourPasses \/ SuricataDies

\* The row as the installer leaves it, or an appliance that came up with IDS on.
Init ==
    /\ cfg \in [enabled : BOOLEAN, mode : Modes, peer : BOOLEAN,
                degraded : BOOLEAN]
    /\ rules \in BOOLEAN /\ netmap \in BOOLEAN
    /\ cfg.enabled => (cfg.mode = "ids" \/ (cfg.peer /\ netmap))
    /\ yaml = IF cfg.enabled THEN cfg.mode ELSE "ids"
    /\ rc = [enable |-> cfg.enabled, mode |-> yaml]
    /\ daemon = IF cfg.enabled THEN cfg.mode ELSE "down"
    /\ cool = FALSE /\ tries = 0 /\ begun = 0 /\ blind = FALSE
    /\ job = [a \in Actors |-> IdleJob]
    /\ calls = 0 /\ events = 0

Spec == Init /\ [][Next]_vars

\* Requests run to their end, the watchdog's thread keeps polling, time passes.
FairSpec ==
    /\ Spec
    /\ \A a \in Actors : WF_vars(Step(a))
    /\ WF_vars(\E a \in Actors : AttemptRecovery(a))
    /\ WF_vars(CooldownPasses) /\ WF_vars(HourPasses)
-----------------------------------------------------------------------------
TypeOK ==
    /\ cfg \in [enabled : BOOLEAN, mode : Modes, peer : BOOLEAN,
                degraded : BOOLEAN]
    /\ rc \in [enable : BOOLEAN, mode : Modes]
    /\ yaml \in Modes /\ daemon \in Modes \cup {"down"}
    /\ rules \in BOOLEAN /\ netmap \in BOOLEAN
    /\ cool \in BOOLEAN /\ tries \in Nat
    /\ begun \in Nat /\ blind \in BOOLEAN
    /\ job \in [Actors -> [pc : PCs, call : Calls, ok : BOOLEAN, clean : BOOLEAN,
                           next : {"done", "fallback", "demote"},
                           gaps : SUBSET Gaps]]
    /\ calls \in 0..MaxCalls /\ events \in 0..MaxEvents

\* The request of a is about to be answered, and nothing happened beside it.
Answering(a) == At(a, "done") /\ job[a].clean

\* The pipeline's docstring has it that a failed enable can never leave enabled=1
\* or suricata_enable=YES while Suricata is dead.  Of an enable, apply or recovery
\* that ran alone that is so, up to the two writes whose failure is swallowed and
\* the exceptions that pass the marking by: they are the gaps.
FailedEnableNotStale ==
    \A a \in Actors : Answering(a) /\ ~job[a].ok /\ ~Alive =>
        /\ cfg.enabled => "row" \in job[a].gaps
        /\ rc.enable => "boot" \in job[a].gaps

\* An enable that reports success has the daemon running, the row enabled and
\* rc.conf set to bring it back at boot, unless it is the fallback's success and
\* its sysrc, which is not looked at, failed.
SuccessMeansRunning ==
    \A a \in Actors : Answering(a) /\ job[a].ok =>
        /\ Alive /\ cfg.enabled
        /\ rc.enable \/ "boot" \in job[a].gaps

\* apply_ids leaves a dead daemon with IPS persisted, on a machine that cannot
\* run it, only if the demotion was not stored or an exception came before it.
NoDeadIps ==
    \A a \in Actors :
        Answering(a) /\ job[a].call = "apply" /\ ~Alive /\ ~netmap =>
            cfg.mode = "ids" \/ "mode" \in job[a].gaps

\* "Bump counters BEFORE the attempt so a crash doesn't leak an extra attempt past
\* the rate limit": however workers are killed, the watchdog moves to another
\* one, the hour ends between the decision and the count, and requests come in
\* between, it begins no more recoveries in an hour than its cap, as long as its
\* state could be read and stored.
RecoveryRateLimited == ~blind => begun =< MaxPerHour

\* When the daemon is dead and the row says enabled, it is running again or the
\* row admits that it is not, sooner or later.
WatchdogHeals ==
    (cfg.enabled /\ ~Alive) ~> (Alive \/ ~cfg.enabled)
=============================================================================
