-------------------------- MODULE IdsServiceProofs --------------------------
(***************************************************************************)
(* Proofs about IdsService for any set of actors, any cap and any number   *)
(* of requests, failures and kills: what the enable pipeline leaves behind *)
(* when it is not disturbed, and the watchdog's rate limit.                *)
(***************************************************************************)
EXTENDS IdsService, TLAPS

Config == [enabled : BOOLEAN, mode : Modes, peer : BOOLEAN, degraded : BOOLEAN]
RcConf == [enable : BOOLEAN, mode : Modes]
Job == [pc : PCs, call : Calls, ok : BOOLEAN, clean : BOOLEAN,
        next : {"done", "fallback", "demote"}, gaps : SUBSET Gaps]

\* Only a request that is about to be answered has been successful.
OkAtEnd(a) == job[a].ok => At(a, "done")

\* A dead daemon that is still wanted somewhere has a named gap behind it.
Admitted(a) == ~Alive =>
    /\ cfg.enabled => "row" \in job[a].gaps
    /\ rc.enable => "boot" \in job[a].gaps

\* What an undisturbed request knows of rc.conf and the daemon at each step: from
\* the restart on Suricata comes back at boot, at the commit it runs, and a
\* failed inline start, before its fallback, has withdrawn what it could not keep.
\* Turning the service off and saving its settings claim nothing.
Pipeline(a) ==
    /\ job[a].pc \in {"restart", "confirm", "commit"} =>
          rc.enable \/ "boot" \in job[a].gaps
    /\ At(a, "commit") => Alive
    /\ At(a, "fallback") => job[a].call = "toggle" /\ Admitted(a)
    /\ At(a, "safety") => job[a].call # "apply"
    /\ job[a].next = "fallback" => job[a].call = "toggle"
    /\ job[a].pc \notin {"unset", "stop", "off", "rewrite"}

\* An undisturbed apply_ids that would not demote any more runs in IDS mode.
ModeKnown(a) ==
    job[a].call = "apply" /\ job[a].next = "done" /\ ~At(a, "done") =>
        cfg.mode = "ids" \/ "mode" \in job[a].gaps

\* What is claimed of an undisturbed request that is about to be answered.
Answer(a) == At(a, "done") =>
    /\ ~job[a].ok => Admitted(a)
    /\ job[a].ok => Alive /\ cfg.enabled /\ (rc.enable \/ "boot" \in job[a].gaps)
    /\ job[a].call = "apply" /\ ~Alive /\ ~netmap =>
          cfg.mode = "ids" \/ "mode" \in job[a].gaps

JobInv(a) == OkAtEnd(a) /\ (job[a].clean => Pipeline(a) /\ ModeKnown(a) /\ Answer(a))

IdsInv == \A a \in Actors : JobInv(a)

\* The hour's counter is not behind the recoveries begun in it, a decision to
\* recover leaves room for its count, and one recovery runs at a time.
CountedInv ==
    /\ ~blind => begun =< tries /\ tries =< MaxPerHour
    /\ \A a \in Actors : At(a, "count") =>
          job[a].call = "recover" /\ (~blind => tries < MaxPerHour)
    /\ \A a, b \in Actors :
          job[a].call = "recover" /\ job[b].call = "recover" => a = b
-----------------------------------------------------------------------------
\* A request between two calls.
LEMMA IdleJobType == IdleJob \in Job
BY DEF IdleJob, Job, PCs, Calls, Gaps

\* Moving on with a well-typed job keeps every job well typed.
LEMMA MovesType ==
  ASSUME TypeOK, NEW a \in Actors, NEW j \in Job, Moves(a, j)
  PROVE  job' \in [Actors -> Job]
BY DEF TypeOK, Moves, Job

\* The type invariant in parts: flags, numbers, what the requests share, requests.
Flags == /\ rules \in BOOLEAN /\ netmap \in BOOLEAN /\ cool \in BOOLEAN
         /\ blind \in BOOLEAN
Numbers == /\ tries \in Nat /\ begun \in Nat
           /\ calls \in 0..MaxCalls /\ events \in 0..MaxEvents
Shared == /\ cfg \in Config /\ rc \in RcConf
          /\ yaml \in Modes /\ daemon \in Modes \cup {"down"}
Jobs == job \in [Actors -> Job]

\* The type invariant is its four parts.
LEMMA TypeParts == TypeOK <=> Flags /\ Numbers /\ Shared /\ Jobs
BY DEF TypeOK, Flags, Numbers, Shared, Jobs, Config, RcConf, Job

\* The same after a step.
LEMMA TypePartsNext == TypeOK' <=> Flags' /\ Numbers' /\ Shared' /\ Jobs'
BY DEF TypeOK, Flags, Numbers, Shared, Jobs, Config, RcConf, Job

\* An actor that only moves on to another label keeps its other values.
LEMMA GotoType ==
  ASSUME TypeOK, NEW a \in Actors, NEW pc \in PCs, Goto(a, pc)
  PROVE  job' \in [Actors -> Job]
<1>1. [job[a] EXCEPT !.pc = pc] \in Job
  BY DEF TypeOK, Job
<1>2. QED
  BY <1>1, MovesType DEF Goto

\* The same for one whose gaps change too, or that has nothing left to fall back on.
LEMMA ExceptType ==
  ASSUME TypeOK, NEW a \in Actors, NEW pc \in PCs, NEW g \in SUBSET Gaps
  PROVE  /\ [job[a] EXCEPT !.pc = pc, !.gaps = g] \in Job
         /\ [job[a] EXCEPT !.pc = pc, !.next = "done"] \in Job
         /\ [job[a] EXCEPT !.pc = pc, !.next = "done", !.gaps = g] \in Job
         /\ job[a].gaps \in SUBSET Gaps
         /\ job[a] \in Job
BY DEF TypeOK, Job

\* What an actor that begins the pipeline starts with.
Begun(call, clean) ==
    [pc |-> IF cfg.mode = "ips" /\ call \in {"toggle", "recover"}
            THEN "safety" ELSE "rules",
     call |-> call,
     next |-> IF cfg.mode = "ids" \/ call = "recover" THEN "done"
              ELSE IF call = "toggle" THEN "fallback" ELSE "demote",
     ok |-> FALSE, clean |-> clean, gaps |-> {}]

LEMMA BegunType ==
  ASSUME NEW call \in {"toggle", "apply", "recover"}, NEW clean \in BOOLEAN
  PROVE  /\ Begun(call, clean) \in Job
         /\ \A a \in Actors : Begin(a, call, clean) => Moves(a, Begun(call, clean))
         /\ Begun(call, clean).call = call /\ Begun(call, clean).pc # "count"
BY DEF Begun, Begin, Job, PCs, Calls, Gaps

\* The parts a step leaves alone.
LEMMA Untouched ==
  /\ Flags /\ UNCHANGED <<rules, netmap, cool, blind>> => Flags'
  /\ Numbers /\ UNCHANGED <<tries, begun, calls>> /\ (Event \/ UNCHANGED events) => Numbers'
  /\ Shared /\ UNCHANGED <<cfg, rc, yaml, daemon>> => Shared'
<1>1. Flags /\ UNCHANGED <<rules, netmap, cool, blind>> => Flags'
  BY DEF Flags
<1>2. Numbers /\ UNCHANGED <<tries, begun, calls>> /\ (Event \/ UNCHANGED events) => Numbers'
  BY IdsAssumption DEF Numbers, Event
<1>3. Shared /\ UNCHANGED <<cfg, rc, yaml, daemon>> => Shared'
  BY DEF Shared
<1>4. QED
  BY <1>1, <1>2, <1>3

\* No step of a request leaves the types.
LEMMA StepType ==
  ASSUME TypeOK, NEW a \in Actors, Step(a) \/ Raise(a)
  PROVE  TypeOK'
<1> USE DEF Rest, Watch
<1>0. Flags /\ Numbers /\ Shared /\ Jobs /\ job[a] \in Job
  BY TypeParts DEF Jobs
<1>p. {"mark", "rules", "validate", "write", "sysrc", "restart", "confirm", "commit",
       "done", "fallback", "demote", "stop", "off"} \subseteq PCs
  BY DEF PCs
<1>f. Fail(a) => Jobs'
  BY <1>p, GotoType DEF Fail, Jobs
<1>g. \A pc \in PCs : Goto(a, pc) => Jobs'
  BY GotoType DEF Jobs
<1>x. \A pc \in PCs, g \in SUBSET Gaps :
         /\ Moves(a, [job[a] EXCEPT !.pc = pc, !.gaps = g]) => Jobs'
         /\ Moves(a, [job[a] EXCEPT !.pc = pc, !.next = "done"]) => Jobs'
         /\ Moves(a, [job[a] EXCEPT !.pc = pc, !.next = "done", !.gaps = g]) => Jobs'
  BY ExceptType, MovesType DEF Jobs
<1>r. Raises(a) => Jobs'
  BY <1>x, <1>p DEF Raises
<1>s. job[a].gaps \in SUBSET Gaps /\ job[a].next \in PCs
  BY <1>0, <1>p DEF Job
<1>1. CASE ValidateIpsSafety(a)
  <2>1. Flags' /\ Numbers' /\ Shared'
    <3>1. Flags'
      BY <1>1, <1>0 DEF ValidateIpsSafety, Flags
    <3>2. UNCHANGED <<tries, begun, calls>> /\ (Event \/ UNCHANGED events)
      BY <1>1 DEF ValidateIpsSafety
    <3>3. QED
      BY <1>1, <1>0, <3>1, <3>2, Untouched DEF ValidateIpsSafety
  <2>2. Jobs'
    BY <1>1, <1>g, <1>x, <1>p, <1>s DEF ValidateIpsSafety
  <2>3. QED
    BY <2>1, <2>2, TypePartsNext
<1>2. CASE EnsureRules(a)
  <2>1. Flags' /\ Numbers' /\ Shared'
    <3>1. Flags'
      BY <1>2, <1>0 DEF EnsureRules, Flags
    <3>2. UNCHANGED <<tries, begun, calls>> /\ (Event \/ UNCHANGED events)
      BY <1>2 DEF EnsureRules
    <3>3. QED
      BY <1>2, <1>0, <3>1, <3>2, Untouched DEF EnsureRules
  <2>2. Jobs'
    BY <1>2, <1>g, <1>f, <1>p DEF EnsureRules
  <2>3. QED
    BY <2>1, <2>2, TypePartsNext
<1>3. CASE Validate(a)
  <2>1. Jobs' /\ (Event \/ UNCHANGED events)
    BY <1>3, <1>g, <1>f, <1>p DEF Validate
  <2>2. QED
    BY <1>3, <1>0, <2>1, Untouched, TypePartsNext DEF Validate
<1>4. CASE WriteSuricataConfig(a)
  <2>1. Jobs' /\ (Event \/ UNCHANGED events)
    BY <1>4, <1>g, <1>f, <1>p DEF WriteSuricataConfig
  <2>2. Shared'
    <3>1. cfg.mode \in Modes
      BY <1>0 DEF Shared, Config
    <3>2. yaml' \in {yaml, cfg.mode} /\ UNCHANGED <<cfg, rc, daemon>>
      BY <1>4 DEF WriteSuricataConfig
    <3>3. QED
      BY <1>0, <3>1, <3>2 DEF Shared
  <2>3. QED
    BY <1>4, <1>0, <2>1, <2>2, Untouched, TypePartsNext DEF WriteSuricataConfig
<1>5. CASE Sysrc(a)
  <2>1. Jobs' /\ (Event \/ UNCHANGED events)
    BY <1>5, <1>f, <1>r, <1>x, <1>s, <1>p DEF Sysrc
  <2>2. rc' \in RcConf
    <3>1. /\ [enable |-> TRUE, mode |-> cfg.mode] \in RcConf
          /\ [rc EXCEPT !.enable = TRUE] \in RcConf
      BY <1>0 DEF Shared, RcConf, Config
    <3>2. \/ rc' = [enable |-> TRUE, mode |-> cfg.mode]
          \/ rc' = [rc EXCEPT !.enable = TRUE]
          \/ rc' = rc
      BY <1>5 DEF Sysrc
    <3>3. QED
      BY <1>0, <3>1, <3>2 DEF Shared
  <2>3. Shared'
    BY <1>5, <1>0, <2>2 DEF Sysrc, Shared
  <2>4. QED
    BY <1>5, <1>0, <2>1, <2>3, Untouched, TypePartsNext DEF Sysrc
<1>6. CASE Restart(a)
  <2>1. Jobs' /\ (Event \/ UNCHANGED events)
    BY <1>6, <1>g, <1>f, <1>p DEF Restart
  <2>2. daemon' \in Modes \cup {"down"}
    BY <1>6, <1>0 DEF Restart, Launched, Modes, Shared
  <2>3. Shared'
    BY <1>6, <1>0, <2>2 DEF Restart, Shared
  <2>4. QED
    BY <1>6, <1>0, <2>1, <2>3, Untouched, TypePartsNext DEF Restart
<1>7. CASE Confirm(a)
  <2>1. Jobs'
    BY <1>7, <1>g, <1>f, <1>p DEF Confirm
  <2>2. QED
    BY <1>7, <1>0, <2>1, Untouched, TypePartsNext DEF Confirm
<1>8. CASE WriteEnabled(a)
  <2>1. [job[a] EXCEPT !.pc = "done", !.ok = TRUE] \in Job
    BY <1>0, <1>p DEF Job
  <2>2. Jobs'
    BY <1>8, <2>1, MovesType DEF WriteEnabled, Jobs
  <2>3. Shared'
    BY <1>8, <1>0 DEF WriteEnabled, Shared, Config
  <2>4. QED
    BY <1>8, <1>0, <2>2, <2>3, Untouched, TypePartsNext DEF WriteEnabled
<1>9. CASE MarkDisabledIfNotRunning(a)
  <2>1. PICK lost \in SUBSET {"row", "boot"} :
           /\ IF Alive
              THEN lost = {} /\ UNCHANGED <<cfg, rc>>
              ELSE /\ cfg' = [cfg EXCEPT !.enabled = @ /\ "row" \in lost]
                   /\ rc' = [rc EXCEPT !.enable = @ /\ "boot" \in lost]
           /\ IF lost = {} THEN UNCHANGED events ELSE Event
           /\ Moves(a, [job[a] EXCEPT
                           !.pc = IF job[a].next = "demote" /\ netmap THEN "done"
                                  ELSE job[a].next,
                           !.gaps = IF Alive THEN @ ELSE (@ \ {"row", "boot"}) \cup lost])
    BY <1>9 DEF MarkDisabledIfNotRunning
  <2> DEFINE pc == IF job[a].next = "demote" /\ netmap THEN "done" ELSE job[a].next
             g == IF Alive THEN job[a].gaps ELSE (job[a].gaps \ {"row", "boot"}) \cup lost
  <2>2. pc \in PCs /\ g \in SUBSET Gaps
    BY <1>s, <1>p DEF Gaps
  <2>3. Moves(a, [job[a] EXCEPT !.pc = pc, !.gaps = g])
    BY <2>1
  <2> HIDE DEF pc, g
  <2>4. Jobs'
    BY <1>x, <2>2, <2>3
  <2>5. cfg' \in Config /\ rc' \in RcConf
    BY <1>0, <2>1 DEF Shared, Config, RcConf
  <2>6. Shared' /\ (Event \/ UNCHANGED events)
    BY <1>9, <1>0, <2>1, <2>5 DEF MarkDisabledIfNotRunning, Shared
  <2>7. QED
    BY <1>9, <1>0, <2>4, <2>6, Untouched, TypePartsNext DEF MarkDisabledIfNotRunning
<1>10. CASE Demote(a)
  <2>1. job[a].gaps \cup {"mode"} \in SUBSET Gaps
    BY <1>s DEF Gaps
  <2>2. Jobs' /\ (Event \/ UNCHANGED events)
    BY <1>10, <1>x, <1>s, <1>p, <2>1 DEF Demote
  <2>3. Shared'
    BY <1>10, <1>0 DEF Demote, Shared, Config, Modes
  <2>4. QED
    BY <1>10, <1>0, <2>2, <2>3, Untouched, TypePartsNext DEF Demote
<1>11. CASE TryIdsFallback(a)
  <2>1. CASE yaml' = "ids"
             /\ \E lost \in SUBSET {"boot", "vars"} :
                /\ IF lost = {} THEN UNCHANGED events ELSE Event
                /\ rc' = [enable |-> rc.enable \/ "boot" \notin lost,
                          mode |-> IF "vars" \in lost THEN rc.mode ELSE "ids"]
                /\ Moves(a, [job[a] EXCEPT
                                !.pc = "restart", !.next = "done",
                                !.gaps = (@ \ {"boot"}) \cup (lost \ {"vars"})])
    <3>1. PICK lost \in SUBSET {"boot", "vars"} :
                /\ IF lost = {} THEN UNCHANGED events ELSE Event
                /\ rc' = [enable |-> rc.enable \/ "boot" \notin lost,
                          mode |-> IF "vars" \in lost THEN rc.mode ELSE "ids"]
                /\ Moves(a, [job[a] EXCEPT
                                !.pc = "restart", !.next = "done",
                                !.gaps = (@ \ {"boot"}) \cup (lost \ {"vars"})])
      BY <2>1
    <3>2. (job[a].gaps \ {"boot"}) \cup (lost \ {"vars"}) \in SUBSET Gaps
      BY <1>s DEF Gaps
    <3>3. Jobs' /\ (Event \/ UNCHANGED events)
      BY <1>x, <1>p, <3>1, <3>2
    <3>4. rc' \in RcConf /\ yaml' \in Modes
      BY <1>0, <2>1, <3>1 DEF Shared, RcConf, Modes
    <3>5. Shared'
      BY <1>11, <1>0, <3>4 DEF TryIdsFallback, Shared
    <3>6. QED
      BY <1>11, <1>0, <3>3, <3>5, Untouched, TypePartsNext DEF TryIdsFallback
  <2>2. CASE Event /\ Goto(a, "done") /\ UNCHANGED <<yaml, rc>>
    BY <1>11, <1>0, <1>g, <1>p, <2>2, Untouched, TypePartsNext DEF TryIdsFallback
  <2>3. QED
    BY <1>11, <2>1, <2>2 DEF TryIdsFallback
<1>12. CASE Unset(a)
  <2>1. Jobs' /\ (Event \/ UNCHANGED events)
    BY <1>12, <1>g, <1>p DEF Unset
  <2>2. Shared'
    BY <1>12, <1>0 DEF Unset, Shared, RcConf
  <2>3. QED
    BY <1>12, <1>0, <2>1, <2>2, Untouched, TypePartsNext DEF Unset
<1>13. CASE Stop(a)
  <2>1. Jobs' /\ (Event \/ UNCHANGED events)
    BY <1>13, <1>g, <1>p DEF Stop
  <2>2. Shared'
    BY <1>13, <1>0 DEF Stop, Shared
  <2>3. QED
    BY <1>13, <1>0, <2>1, <2>2, Untouched, TypePartsNext DEF Stop
<1>14. CASE WriteDisabled(a)
  <2>1. Jobs' /\ (Event \/ UNCHANGED events)
    BY <1>14, <1>g, <1>p DEF WriteDisabled
  <2>2. Shared'
    BY <1>14, <1>0 DEF WriteDisabled, Shared, Config
  <2>3. QED
    BY <1>14, <1>0, <2>1, <2>2, Untouched, TypePartsNext DEF WriteDisabled
<1>15. CASE Rewrite(a)
  <2>1. Jobs' /\ (Event \/ UNCHANGED events)
    BY <1>15, <1>g, <1>p DEF Rewrite
  <2>2. Shared'
    BY <1>15, <1>0 DEF Rewrite, Shared, Config
  <2>3. QED
    BY <1>15, <1>0, <2>1, <2>2, Untouched, TypePartsNext DEF Rewrite
<1>16. CASE BumpHourCounter(a)
  <2>1. Moves(a, Begun("recover", job[a].clean)) /\ Begun("recover", job[a].clean) \in Job
    BY <1>16, <1>0, BegunType DEF BumpHourCounter, Job
  <2>2. Jobs'
    BY <2>1, MovesType DEF Jobs
  <2>3. Flags'
    BY <1>16, <1>0 DEF BumpHourCounter, Flags
  <2>4. /\ tries' \in {tries, tries + 1, 1} /\ begun' = begun + 1
        /\ calls' = calls /\ (Event \/ UNCHANGED events)
    BY <1>16, Zenon DEF BumpHourCounter
  <2>5. Numbers'
    BY <1>0, <2>4, IdsAssumption DEF Numbers, Event
  <2>6. QED
    BY <1>16, <1>0, <2>2, <2>3, <2>5, Untouched, TypePartsNext DEF BumpHourCounter
<1>17. CASE Return(a)
  <2>1. Jobs'
    BY <1>17, IdleJobType, MovesType DEF Return, Jobs
  <2>2. QED
    BY <1>17, <1>0, <2>1, Untouched, TypePartsNext DEF Return
<1>18. CASE Raise(a)
  BY <1>18, <1>0, <1>r, Untouched, TypePartsNext DEF Raise
<1>19. QED
  BY <1>1, <1>2, <1>3, <1>4, <1>5, <1>6, <1>7, <1>8, <1>9, <1>10, <1>11, <1>12,
     <1>13, <1>14, <1>15, <1>16, <1>17, <1>18 DEF Step

\* A request with which actor a starts from idle moves it to a well-typed job.
LEMMA StartType ==
  ASSUME TypeOK, NEW a \in Actors
  PROVE  /\ [IdleJob EXCEPT !.pc = "unset", !.call = "disable"] \in Job
         /\ [IdleJob EXCEPT !.pc = "rewrite", !.call = "save"] \in Job
         /\ [IdleJob EXCEPT !.pc = "count", !.call = "recover", !.clean = Alone(a)] \in Job
<1>1. Alone(a) \in BOOLEAN
  BY DEF Alone
<1>2. QED
  BY <1>1 DEF IdleJob, Job, PCs, Calls, Gaps

\* Every reachable state of the IDS service is well typed.
THEOREM TypeCorrect == Spec => []TypeOK
<1>1. Init => TypeOK
  <2> SUFFICES ASSUME Init PROVE TypeOK
    OBVIOUS
  <2>1. Flags
    BY DEF Init, Flags
  <2>2. Numbers
    BY IdsAssumption DEF Init, Numbers
  <2>3. Shared /\ Jobs
    BY IdleJobType DEF Init, Shared, Jobs, Config, RcConf, Modes
  <2>4. QED
    BY <2>1, <2>2, <2>3, TypeParts
<1>2. TypeOK /\ [Next]_vars => TypeOK'
  <2> SUFFICES ASSUME TypeOK, [Next]_vars PROVE TypeOK'
    OBVIOUS
  <2> USE DEF Rest, Watch
  <2>0. Flags /\ Numbers /\ Shared /\ Jobs
    BY TypeParts
  <2>1. ASSUME NEW a \in Actors, Ask(a), UNCHANGED Watch
        PROVE  Numbers'
    BY <2>0, <2>1, IdsAssumption DEF Ask, Numbers, Event
  <2>2. ASSUME NEW a \in Actors, NEW call \in {"toggle", "apply"},
               Begin(a, call, Alone(a))
        PROVE  Jobs'
    <3>1. Alone(a) \in BOOLEAN
      BY DEF Alone
    <3>2. QED
      BY <2>2, <3>1, BegunType, MovesType DEF Jobs
  <2>3. ASSUME NEW a \in Actors, Step(a) \/ Raise(a) PROVE TypeOK'
    BY <2>3, StepType
  <2>4. ASSUME NEW a \in Actors, Enable(a) \/ ApplyIds(a) PROVE TypeOK'
    <3>1. Jobs' /\ Numbers'
      BY <2>1, <2>2, <2>4 DEF Enable, ApplyIds
    <3>2. Flags' /\ Shared'
      BY <2>0, <2>4, Untouched DEF Enable, ApplyIds
    <3>3. QED
      BY <3>1, <3>2, TypePartsNext
  <2>5. ASSUME NEW a \in Actors, Disable(a) PROVE TypeOK'
    <3>1. Jobs' /\ Numbers'
      BY <2>1, <2>5, StartType, MovesType DEF Disable, Jobs
    <3>2. Flags' /\ Shared'
      BY <2>0, <2>5, Untouched DEF Disable
    <3>3. QED
      BY <3>1, <3>2, TypePartsNext
  <2>6. ASSUME NEW a \in Actors, IdsSave(a) PROVE TypeOK'
    <3>1. Jobs' /\ Numbers'
      BY <2>1, <2>6, StartType, IdleJobType, MovesType DEF IdsSave, Jobs
    <3>2. Flags'
      BY <2>0, <2>6, Untouched DEF IdsSave
    <3>3. cfg' \in Config
      BY <2>0, <2>6 DEF IdsSave, Shared, Config
    <3>4. Shared'
      BY <2>0, <2>6, <3>3 DEF IdsSave, Shared
    <3>5. QED
      BY <3>1, <3>2, <3>4, TypePartsNext
  <2>7. ASSUME NEW a \in Actors, UpdateRules(a) PROVE TypeOK'
    <3>1. Jobs' /\ Numbers'
      BY <2>1, <2>7, IdleJobType, MovesType DEF UpdateRules, Jobs
    <3>2. Flags'
      BY <2>0, <2>7 DEF UpdateRules, Flags
    <3>3. Shared'
      BY <2>0, <2>7, Untouched DEF UpdateRules
    <3>4. QED
      BY <3>1, <3>2, <3>3, TypePartsNext
  <2>8. ASSUME NEW a \in Actors, AttemptRecovery(a) PROVE TypeOK'
    <3>1. Jobs'
      BY <2>8, StartType, MovesType DEF AttemptRecovery, Jobs
    <3>2. Event \/ UNCHANGED events
      BY <2>8 DEF AttemptRecovery
    <3>3. Numbers' /\ Shared'
      BY <2>0, <2>8, <3>2, Untouched DEF AttemptRecovery
    <3>4. Flags'
      BY <2>0, <2>8 DEF AttemptRecovery, Flags
    <3>5. QED
      BY <3>1, <3>3, <3>4, TypePartsNext
  <2>9. ASSUME NEW a \in Actors, Crash(a) PROVE TypeOK'
    <3>1. Jobs'
      BY <2>9, IdleJobType, MovesType DEF Crash, Jobs
    <3>2. QED
      BY <2>0, <2>9, <3>1, Untouched, TypePartsNext DEF Crash
  <2>10. CASE CooldownPasses \/ HourPasses
    <3>1. Flags'
      BY <2>0, <2>10 DEF CooldownPasses, HourPasses, Flags
    <3>2. Numbers'
      BY <2>0, <2>10 DEF CooldownPasses, HourPasses, HourCounter, Numbers
    <3>3. Shared' /\ Jobs'
      BY <2>0, <2>10 DEF CooldownPasses, HourPasses, Shared, Jobs
    <3>4. QED
      BY <3>1, <3>2, <3>3, TypePartsNext
  <2>11. CASE SuricataDies
    <3>1. Flags' /\ Numbers'
      BY <2>0, <2>11, Untouched DEF SuricataDies
    <3>2. Shared'
      BY <2>0, <2>11 DEF SuricataDies, Shared
    <3>3. Jobs'
      BY <2>0, <2>11 DEF SuricataDies, Jobs, Job
    <3>4. QED
      BY <3>1, <3>2, <3>3, TypePartsNext
  <2>12. CASE UNCHANGED vars
    BY <2>12 DEF vars, TypeOK
  <2>13. QED
    BY <2>3, <2>4, <2>5, <2>6, <2>7, <2>8, <2>9, <2>10, <2>11, <2>12 DEF Next
<1>3. QED
  BY <1>1, <1>2, PTL DEF Spec
-----------------------------------------------------------------------------
\* A step with which actor a moves on leaves every other request disturbed, so
\* only what is claimed of a is left to be shown.
LEMMA OnlyMover ==
  ASSUME TypeOK, IdsInv, NEW a \in Actors, NEW j \in Job, Moves(a, j),
         job'[a] = j => JobInv(a)'
  PROVE  IdsInv'
<1>1. job'[a] = j
  BY DEF Moves
<1>2. ASSUME NEW x \in Actors, x # a PROVE JobInv(x)'
  <2>1. job'[x] = [job[x] EXCEPT !.clean = FALSE] /\ job[x] \in Job
    BY <1>2 DEF Moves, TypeOK, Job
  <2>2. ~job'[x].clean /\ job'[x].pc = job[x].pc /\ job'[x].ok = job[x].ok
    BY <2>1 DEF Job
  <2>3. OkAtEnd(x)
    BY DEF IdsInv, JobInv
  <2>4. QED
    BY <2>2, <2>3 DEF JobInv, OkAtEnd, At
<1>3. QED
  BY <1>1, <1>2 DEF IdsInv

\* A request of which nothing is claimed.
LEMMA DisturbedKeeps ==
  ASSUME TypeOK, IdsInv, NEW a \in Actors, NEW j \in Job, Moves(a, j),
         ~j.clean, ~j.ok
  PROVE  IdsInv'
<1>1. job'[a] = j => JobInv(a)'
  BY DEF JobInv, OkAtEnd
<1>2. QED
  BY <1>1, OnlyMover

\* A step on to an earlier or a later stage of the pipeline.
LEMMA AdvanceKeeps ==
  ASSUME TypeOK, IdsInv, NEW a \in Actors, NEW j \in Job, Moves(a, j),
         ~At(a, "done"), j.ok = job[a].ok, j.clean = job[a].clean,
         j.call = job[a].call, j.next \in {job[a].next, "done"},
         j.pc \in PCs \ {"safety", "fallback", "unset", "stop", "off", "rewrite", "done"},
         job[a].clean /\ j.pc \in {"restart", "confirm", "commit"} =>
            rc'.enable \/ "boot" \in j.gaps,
         job[a].clean /\ j.pc = "commit" => Alive',
         job[a].clean /\ j.call = "apply" /\ j.next = "done" =>
            cfg'.mode = "ids" \/ "mode" \in j.gaps
  PROVE  IdsInv'
<1>1. ~job[a].ok /\ (job[a].clean => Pipeline(a))
  BY DEF IdsInv, JobInv, OkAtEnd
<1>2. job'[a] = j => JobInv(a)'
  BY <1>1 DEF JobInv, OkAtEnd, Pipeline, ModeKnown, Answer, At
<1>3. QED
  BY <1>2, OnlyMover

\* The same when the row, the gaps and what comes next stay as they are.
LEMMA GotoKeeps ==
  ASSUME TypeOK, IdsInv, NEW a \in Actors,
         NEW pc \in PCs \ {"safety", "fallback", "unset", "stop", "off", "rewrite", "done"},
         Goto(a, pc), ~At(a, "done"), cfg' = cfg,
         job[a].clean /\ pc \in {"restart", "confirm", "commit"} =>
            rc'.enable \/ "boot" \in job[a].gaps,
         job[a].clean /\ pc = "commit" => Alive'
  PROVE  IdsInv'
<1> DEFINE j == [job[a] EXCEPT !.pc = pc]
<1>0. job[a] \in Job
  BY DEF TypeOK, Job
<1>1. /\ j \in Job /\ j.pc = pc /\ j.call = job[a].call /\ j.next = job[a].next
      /\ j.ok = job[a].ok /\ j.clean = job[a].clean /\ j.gaps = job[a].gaps
  BY <1>0 DEF Job
<1>2. Moves(a, j)
  BY DEF Goto
<1>3. job[a].clean => ModeKnown(a)
  BY DEF IdsInv, JobInv
<1>4. job[a].clean /\ j.call = "apply" /\ j.next = "done" =>
         cfg'.mode = "ids" \/ "mode" \in j.gaps
  BY <1>1, <1>3 DEF ModeKnown
<1> HIDE DEF j
<1>5. QED
  BY <1>1, <1>2, <1>4, AdvanceKeeps

\* A step that fails goes to the marking, whatever it has done before it failed.
LEMMA FailKeeps ==
  ASSUME TypeOK, IdsInv, NEW a \in Actors, Fail(a), ~At(a, "done"), cfg' = cfg
  PROVE  IdsInv'
BY GotoKeeps DEF Fail, PCs

\* An exception ends a request, and claims nothing.
LEMMA RaisesKeeps ==
  ASSUME TypeOK, IdsInv, NEW a \in Actors, Raises(a), ~At(a, "done"),
         job[a].pc \notin {"unset", "stop", "off", "rewrite"}
  PROVE  IdsInv'
<1> DEFINE j == [job[a] EXCEPT !.pc = "done", !.gaps = Gaps]
<1>0. job[a] \in Job
  BY DEF TypeOK, Job
<1>1. /\ j \in Job /\ j.pc = "done" /\ j.call = job[a].call /\ j.next = job[a].next
      /\ j.ok = job[a].ok /\ j.clean = job[a].clean /\ j.gaps = Gaps
  BY <1>0 DEF Job, PCs
<1>2. Moves(a, j)
  BY DEF Raises
<1>3. ~job[a].ok /\ (job[a].clean => Pipeline(a))
  BY DEF IdsInv, JobInv, OkAtEnd
<1>4. "row" \in Gaps /\ "boot" \in Gaps /\ "mode" \in Gaps
  BY DEF Gaps
<1> HIDE DEF j
<1>5. job'[a] = j => JobInv(a)'
  BY <1>1, <1>3, <1>4 DEF JobInv, OkAtEnd, Pipeline, ModeKnown, Answer, Admitted, At
<1>6. QED
  BY <1>1, <1>2, <1>5, OnlyMover

\* What a request has just begun with.
LEMMA BeginKeeps ==
  ASSUME TypeOK, IdsInv, NEW a \in Actors, NEW clean \in BOOLEAN,
         NEW call \in {"toggle", "apply", "recover"}, Begin(a, call, clean), cfg' = cfg
  PROVE  IdsInv'
<1> DEFINE j == Begun(call, clean)
<1>1. j \in Job /\ Moves(a, j) /\ j.call = call
  BY BegunType
<1>2. /\ j.pc \in {"safety", "rules"} /\ ~j.ok
      /\ j.call = "apply" => j.pc # "safety"
      /\ j.next = "fallback" => call = "toggle"
      /\ j.call = "apply" /\ j.next = "done" => cfg.mode = "ids"
  BY DEF Begun
<1> HIDE DEF j
<1>3. job'[a] = j => JobInv(a)'
  BY <1>1, <1>2 DEF JobInv, OkAtEnd, Pipeline, ModeKnown, Answer, At
<1>4. QED
  BY <1>1, <1>3, OnlyMover

\* The marking: what it withdraws and what it cannot, and where it leads.
LEMMA MarkKeeps ==
  ASSUME TypeOK, IdsInv, NEW a \in Actors, MarkDisabledIfNotRunning(a)
  PROVE  IdsInv'
<1>0. job[a] \in Job /\ cfg \in Config /\ rc \in RcConf
  BY DEF TypeOK, Job, Config, RcConf
<1>1. /\ At(a, "mark") /\ ~job[a].ok /\ UNCHANGED <<daemon, netmap>>
      /\ job[a].clean => Pipeline(a) /\ ModeKnown(a)
  BY DEF MarkDisabledIfNotRunning, IdsInv, JobInv, OkAtEnd, At
<1>2. PICK lost \in SUBSET {"row", "boot"} :
         /\ IF Alive
            THEN lost = {} /\ UNCHANGED <<cfg, rc>>
            ELSE /\ cfg' = [cfg EXCEPT !.enabled = @ /\ "row" \in lost]
                 /\ rc' = [rc EXCEPT !.enable = @ /\ "boot" \in lost]
         /\ Moves(a, [job[a] EXCEPT
                         !.pc = IF job[a].next = "demote" /\ netmap THEN "done"
                                ELSE job[a].next,
                         !.gaps = IF Alive THEN @ ELSE (@ \ {"row", "boot"}) \cup lost])
  BY DEF MarkDisabledIfNotRunning
<1> DEFINE pc == IF job[a].next = "demote" /\ netmap THEN "done" ELSE job[a].next
           g == IF Alive THEN job[a].gaps ELSE (job[a].gaps \ {"row", "boot"}) \cup lost
           j == [job[a] EXCEPT !.pc = pc, !.gaps = g]
<1>3. /\ pc \in {"done", "fallback", "demote"} /\ g \in SUBSET Gaps
      /\ pc = "done" => job[a].next = "done" \/ (job[a].next = "demote" /\ netmap)
                        \/ job[a].next \notin {"done", "fallback", "demote"}
      /\ pc = "fallback" => job[a].next = "fallback"
      /\ pc = "demote" => job[a].next = "demote"
  BY <1>0 DEF Job, Gaps
<1>4. Moves(a, j)
  BY <1>2
<1>5. "mode" \in g <=> "mode" \in job[a].gaps
  OBVIOUS
<1>6. ~Alive => (cfg'.enabled => "row" \in g) /\ (rc'.enable => "boot" \in g)
  BY <1>0, <1>2 DEF Config, RcConf
<1>7. cfg'.mode = cfg.mode
  BY <1>0, <1>2 DEF Config
<1> HIDE DEF pc, g
<1>8. /\ j \in Job /\ j.pc = pc /\ j.gaps = g /\ j.call = job[a].call /\ j.ok = job[a].ok
      /\ j.next = job[a].next /\ j.clean = job[a].clean
  BY <1>0, <1>3 DEF Job, PCs
<1> HIDE DEF j
<1>9. job'[a] = j => JobInv(a)'
  <2> SUFFICES ASSUME job'[a] = j PROVE JobInv(a)'
    OBVIOUS
  <2>1. OkAtEnd(a)'
    BY <1>1, <1>8 DEF OkAtEnd
  <2>2. Admitted(a)'
    BY <1>1, <1>6, <1>8 DEF Admitted, Alive
  <2> SUFFICES ASSUME job[a].clean PROVE Pipeline(a)' /\ ModeKnown(a)' /\ Answer(a)'
    BY <2>1, <1>8 DEF JobInv
  <2>3. Pipeline(a) /\ ModeKnown(a)
    BY <1>1
  <2>4. Pipeline(a)'
    BY <1>3, <1>8, <2>2, <2>3 DEF Pipeline, At
  <2>5. ModeKnown(a)'
    BY <1>1, <1>5, <1>7, <1>8, <2>3 DEF ModeKnown, At
  <2>6. Answer(a)'
    <3>1. ASSUME At(a, "done")', job'[a].call = "apply", ~netmap
          PROVE  cfg'.mode = "ids" \/ "mode" \in g
      <4>1. job[a].next = "done"
        BY <1>0, <1>3, <1>8, <3>1 DEF At, Job
      <4>2. QED
        BY <1>1, <1>5, <1>7, <1>8, <2>3, <3>1, <4>1 DEF ModeKnown, At
    <3>2. QED
      BY <1>1, <1>8, <2>2, <3>1 DEF Answer, At
  <2>7. QED
    BY <2>4, <2>5, <2>6
<1>10. QED
  BY <1>4, <1>8, <1>9, OnlyMover

\* The steps of a request keep what is claimed of the undisturbed ones.
LEMMA StepKeeps ==
  ASSUME TypeOK, IdsInv, NEW a \in Actors, Step(a) \/ Raise(a)
  PROVE  IdsInv'
<1>0. job[a] \in Job
  BY DEF TypeOK, Job
<1>p. {"mark", "rules", "validate", "write", "sysrc", "restart", "confirm", "commit"}
         \subseteq PCs \ {"safety", "fallback", "unset", "stop", "off", "rewrite", "done"}
  BY DEF PCs
<1>i. job[a].clean => Pipeline(a) /\ ModeKnown(a)
  BY DEF IdsInv, JobInv
<1>o. ~At(a, "done") => ~job[a].ok
  BY DEF IdsInv, JobInv, OkAtEnd
<1>1. CASE ValidateIpsSafety(a)
  <2>1. At(a, "safety") /\ ~At(a, "done") /\ cfg' = cfg
    BY <1>1 DEF ValidateIpsSafety, At
  <2>2. CASE Goto(a, "rules")
    BY <1>p, <2>1, <2>2, GotoKeeps
  <2>3. CASE Moves(a, [job[a] EXCEPT !.pc = "mark", !.next = "done"])
    <3> DEFINE j == [job[a] EXCEPT !.pc = "mark", !.next = "done"]
    <3>1. /\ j \in Job /\ j.pc = "mark" /\ j.call = job[a].call /\ j.next = "done"
          /\ j.ok = job[a].ok /\ j.clean = job[a].clean
      BY <1>0 DEF Job, PCs
    <3>2. job[a].clean => job[a].call # "apply"
      BY <1>i, <2>1 DEF Pipeline
    <3>3. Moves(a, j)
      BY <2>3
    <3> HIDE DEF j
    <3>4. QED
      BY <1>p, <2>1, <3>1, <3>2, <3>3, AdvanceKeeps
  <2>4. QED
    BY <1>1, <2>2, <2>3 DEF ValidateIpsSafety
<1>2. CASE EnsureRules(a)
  <2>1. ~At(a, "done") /\ cfg' = cfg /\ (Goto(a, "validate") \/ Fail(a))
    BY <1>2 DEF EnsureRules, At
  <2>2. QED
    BY <1>p, <2>1, GotoKeeps, FailKeeps
<1>3. CASE Validate(a)
  <2>1. ~At(a, "done") /\ cfg' = cfg /\ (Goto(a, "write") \/ Fail(a))
    BY <1>3 DEF Validate, At
  <2>2. QED
    BY <1>p, <2>1, GotoKeeps, FailKeeps
<1>4. CASE WriteSuricataConfig(a)
  <2>1. ~At(a, "done") /\ cfg' = cfg /\ (Goto(a, "sysrc") \/ Fail(a))
    BY <1>4 DEF WriteSuricataConfig, At
  <2>2. QED
    BY <1>p, <2>1, GotoKeeps, FailKeeps
<1>5. CASE Sysrc(a)
  <2>1. At(a, "sysrc") /\ ~At(a, "done") /\ cfg' = cfg
    BY <1>5 DEF Sysrc, At
  <2>2. CASE /\ rc'.enable
             /\ Moves(a, [job[a] EXCEPT !.pc = "restart", !.gaps = @ \ {"boot"}])
    <3> DEFINE j == [job[a] EXCEPT !.pc = "restart", !.gaps = @ \ {"boot"}]
    <3>1. /\ j \in Job /\ j.pc = "restart" /\ j.call = job[a].call
          /\ j.next = job[a].next /\ j.ok = job[a].ok /\ j.clean = job[a].clean
          /\ j.gaps = job[a].gaps \ {"boot"}
      BY <1>0 DEF Job, PCs
    <3>2. job[a].clean /\ j.call = "apply" /\ j.next = "done" =>
             cfg'.mode = "ids" \/ "mode" \in j.gaps
      BY <1>i, <2>1, <3>1 DEF ModeKnown
    <3>3. Moves(a, j)
      BY <2>2
    <3> HIDE DEF j
    <3>4. QED
      BY <1>p, <2>1, <2>2, <3>1, <3>2, <3>3, AdvanceKeeps
  <2>3. CASE Raises(a)
    BY <2>1, <2>3, RaisesKeeps DEF At
  <2>4. CASE Fail(a)
    BY <2>1, <2>4, FailKeeps
  <2>5. rc' = [enable |-> TRUE, mode |-> cfg.mode] \/ rc' = [rc EXCEPT !.enable = TRUE]
        => rc'.enable
    BY DEF TypeOK
  <2>6. QED
    BY <1>5, <2>2, <2>3, <2>4, <2>5 DEF Sysrc
<1>6. CASE Restart(a)
  <2>1. /\ ~At(a, "done") /\ UNCHANGED <<cfg, rc>>
        /\ job[a].clean => rc.enable \/ "boot" \in job[a].gaps
    BY <1>6, <1>i DEF Restart, At, Pipeline
  <2>2. Goto(a, "confirm") \/ Fail(a)
    BY <1>6 DEF Restart
  <2>3. QED
    BY <1>p, <2>1, <2>2, GotoKeeps, FailKeeps
<1>7. CASE Confirm(a)
  <2>1. /\ ~At(a, "done") /\ UNCHANGED <<cfg, rc, daemon>>
        /\ job[a].clean => rc.enable \/ "boot" \in job[a].gaps
    BY <1>7, <1>i DEF Confirm, At, Pipeline
  <2>2. (Goto(a, "commit") /\ Alive) \/ Fail(a)
    BY <1>7 DEF Confirm
  <2>3. QED
    BY <1>p, <2>1, <2>2, GotoKeeps, FailKeeps DEF Alive
<1>8. CASE WriteEnabled(a)
  <2> DEFINE j == [job[a] EXCEPT !.pc = "done", !.ok = TRUE]
  <2>1. /\ j \in Job /\ j.pc = "done" /\ j.ok /\ j.call = job[a].call
        /\ j.clean = job[a].clean /\ j.next = job[a].next /\ j.gaps = job[a].gaps
    BY <1>0 DEF Job, PCs
  <2>2. Moves(a, j) /\ At(a, "commit") /\ UNCHANGED <<rc, daemon>>
    BY <1>8 DEF WriteEnabled
  <2>3. cfg'.enabled /\ cfg'.mode = cfg.mode
    BY <1>8 DEF WriteEnabled, TypeOK
  <2> HIDE DEF j
  <2>4. job'[a] = j => JobInv(a)'
    BY <1>i, <2>1, <2>2, <2>3
    DEF JobInv, OkAtEnd, Pipeline, ModeKnown, Answer, At, Alive
  <2>5. QED
    BY <2>1, <2>2, <2>4, OnlyMover
<1>9. CASE MarkDisabledIfNotRunning(a)
  BY <1>9, MarkKeeps
<1>10. CASE Demote(a)
  <2>1. At(a, "demote") /\ ~At(a, "done")
    BY <1>10 DEF Demote, At
  <2>2. CASE /\ cfg'.mode = "ids"
             /\ Moves(a, [job[a] EXCEPT !.pc = "rules", !.next = "done"])
    <3> DEFINE j == [job[a] EXCEPT !.pc = "rules", !.next = "done"]
    <3>1. /\ j \in Job /\ j.pc = "rules" /\ j.call = job[a].call /\ j.next = "done"
          /\ j.ok = job[a].ok /\ j.clean = job[a].clean
      BY <1>0 DEF Job, PCs
    <3>2. Moves(a, j)
      BY <2>2
    <3> HIDE DEF j
    <3>3. QED
      BY <1>p, <2>1, <2>2, <3>1, <3>2, AdvanceKeeps
  <2>3. CASE Moves(a, [job[a] EXCEPT !.pc = "rules", !.next = "done",
                                     !.gaps = @ \cup {"mode"}])
    <3> DEFINE j == [job[a] EXCEPT !.pc = "rules", !.next = "done",
                                   !.gaps = @ \cup {"mode"}]
    <3>1. /\ j \in Job /\ j.pc = "rules" /\ j.call = job[a].call /\ j.next = "done"
          /\ j.ok = job[a].ok /\ j.clean = job[a].clean /\ "mode" \in j.gaps
      BY <1>0 DEF Job, PCs, Gaps
    <3>2. Moves(a, j)
      BY <2>3
    <3> HIDE DEF j
    <3>3. QED
      BY <1>p, <2>1, <3>1, <3>2, AdvanceKeeps
  <2>4. cfg' = [cfg EXCEPT !.mode = "ids"] => cfg'.mode = "ids"
    BY DEF TypeOK
  <2>5. QED
    BY <1>10, <2>2, <2>3, <2>4 DEF Demote
<1>11. CASE TryIdsFallback(a)
  <2>0. /\ At(a, "fallback") /\ ~At(a, "done") /\ UNCHANGED <<cfg, daemon, netmap>>
        /\ job[a].clean => job[a].call = "toggle" /\ Admitted(a)
    BY <1>11, <1>i DEF TryIdsFallback, At, Pipeline
  <2>1. CASE \E lost \in SUBSET {"boot", "vars"} :
                /\ rc' = [enable |-> rc.enable \/ "boot" \notin lost,
                          mode |-> IF "vars" \in lost THEN rc.mode ELSE "ids"]
                /\ Moves(a, [job[a] EXCEPT
                                !.pc = "restart", !.next = "done",
                                !.gaps = (@ \ {"boot"}) \cup (lost \ {"vars"})])
    <3>1. PICK lost \in SUBSET {"boot", "vars"} :
                /\ rc' = [enable |-> rc.enable \/ "boot" \notin lost,
                          mode |-> IF "vars" \in lost THEN rc.mode ELSE "ids"]
                /\ Moves(a, [job[a] EXCEPT
                                !.pc = "restart", !.next = "done",
                                !.gaps = (@ \ {"boot"}) \cup (lost \ {"vars"})])
      BY <2>1
    <3> DEFINE g == (job[a].gaps \ {"boot"}) \cup (lost \ {"vars"})
               j == [job[a] EXCEPT !.pc = "restart", !.next = "done", !.gaps = g]
    <3>2. g \in SUBSET Gaps /\ (rc'.enable \/ "boot" \in g)
      BY <1>0, <3>1 DEF Job, Gaps
    <3>3. Moves(a, j)
      BY <3>1
    <3> HIDE DEF g
    <3>4. /\ j \in Job /\ j.pc = "restart" /\ j.call = job[a].call /\ j.next = "done"
          /\ j.ok = job[a].ok /\ j.clean = job[a].clean /\ j.gaps = g
      BY <1>0, <3>2 DEF Job, PCs
    <3> HIDE DEF j
    <3>5. QED
      BY <1>p, <2>0, <3>2, <3>3, <3>4, AdvanceKeeps
  <2>2. CASE Goto(a, "done") /\ UNCHANGED rc
    <3> DEFINE j == [job[a] EXCEPT !.pc = "done"]
    <3>1. /\ j \in Job /\ j.pc = "done" /\ j.call = job[a].call /\ j.ok = job[a].ok
          /\ j.clean = job[a].clean /\ j.gaps = job[a].gaps /\ j.next = job[a].next
      BY <1>0 DEF Job, PCs
    <3>2. ~job[a].ok /\ Moves(a, j)
      BY <1>o, <2>0, <2>2 DEF Goto
    <3> HIDE DEF j
    <3>3. job'[a] = j => JobInv(a)'
      BY <1>i, <2>0, <2>2, <3>1, <3>2
      DEF JobInv, OkAtEnd, Pipeline, ModeKnown, Answer, Admitted, At, Alive
    <3>4. QED
      BY <3>1, <3>2, <3>3, OnlyMover
  <2>3. QED
    BY <1>11, <2>1, <2>2 DEF TryIdsFallback
<1>12. ASSUME NEW pc \in PCs, Goto(a, pc),
              job[a].pc \in {"unset", "stop", "off", "rewrite"}
       PROVE  IdsInv'
  <2> DEFINE j == [job[a] EXCEPT !.pc = pc]
  <2>1. j \in Job /\ j.ok = job[a].ok /\ j.clean = job[a].clean
    BY <1>0 DEF Job
  <2>2. ~job[a].clean /\ ~job[a].ok
    BY <1>i, <1>o, <1>12 DEF Pipeline, At
  <2>3. Moves(a, j)
    BY <1>12 DEF Goto
  <2>4. QED
    BY <2>1, <2>2, <2>3, DisturbedKeeps
<1>13. CASE Unset(a) \/ Stop(a) \/ WriteDisabled(a) \/ Rewrite(a)
  BY <1>12, <1>13 DEF Unset, Stop, WriteDisabled, Rewrite, At, PCs
<1>14. CASE BumpHourCounter(a)
  <2>1. job[a].clean \in BOOLEAN
    BY <1>0 DEF Job
  <2>2. QED
    BY <1>14, <2>1, BeginKeeps DEF BumpHourCounter
<1>15. CASE Return(a)
  BY <1>15, IdleJobType, DisturbedKeeps DEF Return, IdleJob
<1>16. CASE Raise(a)
  BY <1>16, RaisesKeeps DEF Raise, At
<1>17. QED
  BY <1>1, <1>2, <1>3, <1>4, <1>5, <1>6, <1>7, <1>8, <1>9, <1>10, <1>11, <1>13,
     <1>14, <1>15, <1>16 DEF Step

\* IdsInv is inductive, relative to the types.
LEMMA IdsInvInductive == TypeOK /\ IdsInv /\ [Next]_vars => IdsInv'
<1> SUFFICES ASSUME TypeOK, IdsInv, [Next]_vars PROVE IdsInv'
  OBVIOUS
<1>1. ASSUME NEW a \in Actors, Step(a) \/ Raise(a) PROVE IdsInv'
  BY <1>1, StepKeeps
<1>2. ASSUME NEW a \in Actors, Enable(a) \/ ApplyIds(a)
      PROVE  IdsInv'
  <2>1. Alone(a) \in BOOLEAN
    BY DEF Alone
  <2>2. QED
    BY <1>2, <2>1, BeginKeeps DEF Enable, ApplyIds
<1>3. ASSUME NEW a \in Actors, Disable(a) PROVE IdsInv'
  <2>1. LET j == [IdleJob EXCEPT !.pc = "unset", !.call = "disable"]
        IN  ~j.clean /\ ~j.ok
    BY DEF IdleJob
  <2>2. QED
    BY <1>3, <2>1, StartType, DisturbedKeeps DEF Disable
<1>4. ASSUME NEW a \in Actors, IdsSave(a) PROVE IdsInv'
  <2>1. /\ ~[IdleJob EXCEPT !.pc = "rewrite", !.call = "save"].clean
        /\ ~[IdleJob EXCEPT !.pc = "rewrite", !.call = "save"].ok
        /\ ~IdleJob.clean /\ ~IdleJob.ok
    BY DEF IdleJob
  <2>2. QED
    BY <1>4, <2>1, StartType, IdleJobType, DisturbedKeeps DEF IdsSave
<1>5. ASSUME NEW a \in Actors, UpdateRules(a) \/ Crash(a) PROVE IdsInv'
  BY <1>5, IdleJobType, DisturbedKeeps DEF UpdateRules, Crash, IdleJob
<1>6. ASSUME NEW a \in Actors, AttemptRecovery(a) PROVE IdsInv'
  <2> DEFINE j == [IdleJob EXCEPT !.pc = "count", !.call = "recover",
                                  !.clean = Alone(a)]
  <2>1. j \in Job /\ Moves(a, j)
    BY <1>6, StartType DEF AttemptRecovery
  <2>2. j.pc = "count" /\ j.call = "recover" /\ j.next = "done" /\ ~j.ok
    BY DEF IdleJob
  <2> HIDE DEF j
  <2>3. job'[a] = j => JobInv(a)'
    BY <2>2 DEF JobInv, OkAtEnd, Pipeline, ModeKnown, Answer, At
  <2>4. QED
    BY <2>1, <2>3, OnlyMover
<1>7. CASE CooldownPasses \/ HourPasses \/ UNCHANGED vars
  <2>1. UNCHANGED <<cfg, rc, daemon, netmap, job>>
    BY <1>7 DEF CooldownPasses, HourPasses, vars
  <2>2. QED
    BY <2>1 DEF IdsInv, JobInv, OkAtEnd, Pipeline, ModeKnown, Answer, Admitted, At, Alive
<1>8. CASE SuricataDies
  <2>1. ASSUME NEW a \in Actors PROVE JobInv(a)'
    <3>1. job'[a] = [job[a] EXCEPT !.clean = FALSE] /\ job[a] \in Job
      BY <1>8 DEF SuricataDies, TypeOK, Job
    <3>2. ~job'[a].clean /\ job'[a].pc = job[a].pc /\ job'[a].ok = job[a].ok
      BY <3>1 DEF Job
    <3>3. QED
      BY <3>2 DEF IdsInv, JobInv, OkAtEnd, At
  <2>2. QED
    BY <2>1 DEF IdsInv
<1>9. QED
  BY <1>1, <1>2, <1>3, <1>4, <1>5, <1>6, <1>7, <1>8 DEF Next

\* Requests and deaths of the daemon may come in any order and any number, and
\* what is claimed of the undisturbed ones holds throughout.
LEMMA IdsInvHolds == Spec => []IdsInv
<1>1. Init => IdsInv
  BY DEF Init, IdsInv, JobInv, OkAtEnd, IdleJob
<1>2. QED
  BY <1>1, IdsInvInductive, TypeCorrect, PTL DEF Spec

\* An enable, apply or recovery that failed alone with Suricata dead, whatever
\* requests, kills and deaths of the daemon came before it, leaves the row or
\* rc.conf enabled only if the write that should have withdrawn it failed or an
\* exception passed it by.
THEOREM FailureIsAdmitted == Spec => []FailedEnableNotStale
<1>1. IdsInv => FailedEnableNotStale
  BY DEF IdsInv, JobInv, Answer, Admitted, FailedEnableNotStale, Answering, At
<1>2. QED
  BY <1>1, IdsInvHolds, PTL

\* A success the pipeline reports is one: the daemon runs, the row is enabled
\* and, unless the fallback's sysrc was lost, rc.conf brings Suricata back at boot.
THEOREM SuccessIsReal == Spec => []SuccessMeansRunning
<1>1. IdsInv => SuccessMeansRunning
  BY DEF IdsInv, JobInv, Answer, SuccessMeansRunning, Answering, At
<1>2. QED
  BY <1>1, IdsInvHolds, PTL

\* apply_ids answers with a dead daemon and IPS in the row, on a machine without
\* netmap, only if the demotion was not stored or an exception came before it.
THEOREM IpsGivenUp == Spec => []NoDeadIps
<1>1. IdsInv => NoDeadIps
  BY DEF IdsInv, JobInv, Answer, NoDeadIps, Answering, At
<1>2. QED
  BY <1>1, IdsInvHolds, PTL
-----------------------------------------------------------------------------
\* A step of an actor that leaves the watchdog's numbers alone, and of which only
\* AttemptRecovery and BumpHourCounter are none.
LEMMA OtherKeepsCount ==
  ASSUME TypeOK, CountedInv, UNCHANGED <<tries, begun, blind>>, NEW a \in Actors,
         NEW j \in Job, Moves(a, j), j.pc # "count",
         j.call = "recover" => job[a].call = "recover"
  PROVE  CountedInv'
<1>1. ASSUME NEW x \in Actors
      PROVE  /\ At(x, "count")' => At(x, "count")
             /\ job'[x].call = "recover" => job[x].call = "recover"
             /\ At(x, "count")' => job'[x].call = job[x].call
  <2>1. job[x] \in Job
    BY DEF TypeOK, Job
  <2>2. CASE x = a
    BY <2>2 DEF Moves, At
  <2>3. CASE x # a
    <3>1. job'[x] = [job[x] EXCEPT !.clean = FALSE]
      BY <2>3 DEF Moves
    <3>2. job'[x].pc = job[x].pc /\ job'[x].call = job[x].call
      BY <2>1, <3>1 DEF Job
    <3>3. QED
      BY <3>2 DEF At
  <2>4. QED
    BY <2>2, <2>3
<1>2. QED
  BY <1>1 DEF CountedInv

\* An actor goes on with its request, or ends it, short of the count.
GoesOn(a) ==
    \E j \in Job :
       /\ Moves(a, j) /\ j.pc # "count"
       /\ j.call = "recover" => job[a].call = "recover"

\* What an actor does after the count is no other recovery, and no count.
LEMMA StepsOn ==
  ASSUME TypeOK, NEW a \in Actors, Step(a) \/ Raise(a), ~BumpHourCounter(a)
  PROVE  /\ UNCHANGED <<tries, begun, blind>>
         /\ GoesOn(a)
<1>0. job[a] \in Job
  BY DEF TypeOK, Job
<1>1. UNCHANGED <<tries, begun, blind>>
  BY DEF Step, Raise, ValidateIpsSafety, EnsureRules, Validate, WriteSuricataConfig,
         Sysrc, Restart, Confirm, WriteEnabled, MarkDisabledIfNotRunning, Demote,
         TryIdsFallback, Unset, Stop, WriteDisabled, Rewrite, Return, Rest, Watch
<1>2. ASSUME NEW j \in Job, Moves(a, j), j.pc # "count", j.call = job[a].call
      PROVE  GoesOn(a)
  BY <1>2 DEF GoesOn
<1>3. /\ \A pc \in PCs : Goto(a, pc) /\ pc # "count" => GoesOn(a)
      /\ \A pc \in PCs : Moves(a, [job[a] EXCEPT !.pc = pc, !.next = "done"])
                         /\ pc # "count" => GoesOn(a)
      /\ \A pc \in PCs, g \in SUBSET Gaps :
            Moves(a, [job[a] EXCEPT !.pc = pc, !.gaps = g]) /\ pc # "count" => GoesOn(a)
      /\ \A pc \in PCs, g \in SUBSET Gaps :
            Moves(a, [job[a] EXCEPT !.pc = pc, !.next = "done", !.gaps = g])
            /\ pc # "count" => GoesOn(a)
      /\ Moves(a, [job[a] EXCEPT !.pc = "done", !.ok = TRUE]) => GoesOn(a)
  <2>1. ASSUME NEW pc \in PCs, Goto(a, pc), pc # "count" PROVE GoesOn(a)
    <3> DEFINE j == [job[a] EXCEPT !.pc = pc]
    <3>1. j \in Job /\ j.pc = pc /\ j.call = job[a].call
      BY <1>0 DEF Job
    <3>2. Moves(a, j)
      BY <2>1 DEF Goto
    <3> HIDE DEF j
    <3>3. QED
      BY <2>1, <3>1, <3>2, <1>2
  <2>2. ASSUME NEW pc \in PCs, pc # "count",
               Moves(a, [job[a] EXCEPT !.pc = pc, !.next = "done"])
        PROVE  GoesOn(a)
    <3> DEFINE j == [job[a] EXCEPT !.pc = pc, !.next = "done"]
    <3>1. j \in Job /\ j.pc = pc /\ j.call = job[a].call
      BY <1>0 DEF Job
    <3>2. Moves(a, j)
      BY <2>2
    <3> HIDE DEF j
    <3>3. QED
      BY <2>2, <3>1, <3>2, <1>2
  <2>3. ASSUME NEW pc \in PCs, NEW g \in SUBSET Gaps, pc # "count",
               Moves(a, [job[a] EXCEPT !.pc = pc, !.gaps = g])
        PROVE  GoesOn(a)
    <3> DEFINE j == [job[a] EXCEPT !.pc = pc, !.gaps = g]
    <3>1. j \in Job /\ j.pc = pc /\ j.call = job[a].call
      BY <1>0 DEF Job
    <3>2. Moves(a, j)
      BY <2>3
    <3> HIDE DEF j
    <3>3. QED
      BY <2>3, <3>1, <3>2, <1>2
  <2>4. ASSUME NEW pc \in PCs, NEW g \in SUBSET Gaps, pc # "count",
               Moves(a, [job[a] EXCEPT !.pc = pc, !.next = "done", !.gaps = g])
        PROVE  GoesOn(a)
    <3> DEFINE j == [job[a] EXCEPT !.pc = pc, !.next = "done", !.gaps = g]
    <3>1. j \in Job /\ j.pc = pc /\ j.call = job[a].call
      BY <1>0 DEF Job
    <3>2. Moves(a, j)
      BY <2>4
    <3> HIDE DEF j
    <3>3. QED
      BY <2>4, <3>1, <3>2, <1>2
  <2>5. ASSUME Moves(a, [job[a] EXCEPT !.pc = "done", !.ok = TRUE]) PROVE GoesOn(a)
    <3> DEFINE j == [job[a] EXCEPT !.pc = "done", !.ok = TRUE]
    <3>1. j \in Job /\ j.pc = "done" /\ j.call = job[a].call
      BY <1>0 DEF Job, PCs
    <3>2. Moves(a, j)
      BY <2>5
    <3> HIDE DEF j
    <3>3. QED
      BY <3>1, <3>2, <1>2
  <2>6. QED
    BY <2>1, <2>2, <2>3, <2>4, <2>5
<1>p. /\ {"mark", "rules", "validate", "write", "sysrc", "restart", "confirm", "commit",
          "done", "fallback", "demote", "stop", "off"} \subseteq PCs \ {"count"}
      /\ job[a].gaps \in SUBSET Gaps
      /\ job[a].next \in {"done", "fallback", "demote"}
  BY <1>0 DEF PCs, Job
<1>4. GoesOn(a)
  <2>1. CASE ValidateIpsSafety(a) \/ EnsureRules(a) \/ Validate(a) \/ WriteSuricataConfig(a)
             \/ Restart(a) \/ Confirm(a) \/ Unset(a) \/ Stop(a) \/ WriteDisabled(a)
             \/ Rewrite(a) \/ WriteEnabled(a)
    <3>1. \/ Goto(a, "rules") \/ Goto(a, "validate") \/ Goto(a, "write")
          \/ Goto(a, "sysrc") \/ Goto(a, "confirm") \/ Goto(a, "commit")
          \/ Goto(a, "stop") \/ Goto(a, "off") \/ Goto(a, "done") \/ Goto(a, "mark")
          \/ Moves(a, [job[a] EXCEPT !.pc = "mark", !.next = "done"])
          \/ Moves(a, [job[a] EXCEPT !.pc = "done", !.ok = TRUE])
      BY <2>1, Zenon DEF ValidateIpsSafety, EnsureRules, Validate, WriteSuricataConfig,
         Restart, Confirm, Unset, Stop, WriteDisabled, Rewrite, WriteEnabled, Fail
    <3>2. QED
      BY <3>1, <1>3, <1>p
  <2>2. CASE Raise(a) \/ Sysrc(a)
    <3>1. \/ Goto(a, "mark")
          \/ Moves(a, [job[a] EXCEPT !.pc = "restart", !.gaps = @ \ {"boot"}])
          \/ Moves(a, [job[a] EXCEPT !.pc = "done", !.gaps = Gaps])
      BY <2>2, Zenon DEF Raise, Sysrc, Raises, Fail
    <3>2. job[a].gaps \ {"boot"} \in SUBSET Gaps /\ Gaps \in SUBSET Gaps
      BY <1>p
    <3>3. QED
      BY <3>1, <3>2, <1>3, <1>p
  <2>3. CASE Demote(a)
    <3>1. job[a].gaps \cup {"mode"} \in SUBSET Gaps
      BY <1>p DEF Gaps
    <3>2. QED
      BY <2>3, <3>1, <1>3, <1>p DEF Demote
  <2>4. CASE TryIdsFallback(a)
    <3>1. CASE Goto(a, "done")
      BY <3>1, <1>3, <1>p
    <3>2. ASSUME NEW lost \in SUBSET {"boot", "vars"},
                 Moves(a, [job[a] EXCEPT !.pc = "restart", !.next = "done",
                             !.gaps = (@ \ {"boot"}) \cup (lost \ {"vars"})])
          PROVE  GoesOn(a)
      <4> DEFINE g == (job[a].gaps \ {"boot"}) \cup (lost \ {"vars"})
      <4>1. g \in SUBSET Gaps
        BY <1>p DEF Gaps
      <4>2. Moves(a, [job[a] EXCEPT !.pc = "restart", !.next = "done", !.gaps = g])
        BY <3>2
      <4> HIDE DEF g
      <4>3. QED
        BY <4>1, <4>2, <1>3, <1>p
    <3>3. QED
      BY <2>4, <3>1, <3>2 DEF TryIdsFallback
  <2>5. CASE MarkDisabledIfNotRunning(a)
    <3>1. PICK lost \in SUBSET {"row", "boot"} :
             Moves(a, [job[a] EXCEPT
                         !.pc = IF job[a].next = "demote" /\ netmap THEN "done"
                                ELSE job[a].next,
                         !.gaps = IF Alive THEN @ ELSE (@ \ {"row", "boot"}) \cup lost])
      BY <2>5 DEF MarkDisabledIfNotRunning
    <3> DEFINE pc == IF job[a].next = "demote" /\ netmap THEN "done" ELSE job[a].next
               g == IF Alive THEN job[a].gaps ELSE (job[a].gaps \ {"row", "boot"}) \cup lost
    <3>2. pc \in PCs /\ pc # "count" /\ g \in SUBSET Gaps
      BY <1>p DEF Gaps
    <3>3. Moves(a, [job[a] EXCEPT !.pc = pc, !.gaps = g])
      BY <3>1
    <3> HIDE DEF pc, g
    <3>4. QED
      BY <3>2, <3>3, <1>3
  <2>6. CASE Return(a)
    <3>1. IdleJob.pc # "count" /\ IdleJob.call # "recover" /\ Moves(a, IdleJob)
      BY <2>6 DEF IdleJob, Return
    <3>2. QED
      BY <3>1, IdleJobType DEF GoesOn
  <2>7. QED
    BY <2>1, <2>2, <2>3, <2>4, <2>5, <2>6 DEF Step
<1>5. QED
  BY <1>1, <1>4

\* The watchdog begins at most MaxPerHour recoveries in an hour in which its state
\* could be read and stored, for any cap: what it decides on it counts before it
\* begins it, whoever is killed in between and wherever the hour ends.
THEOREM WatchdogRateLimited == Spec => []RecoveryRateLimited
<1>1. Init => CountedInv
  BY IdsAssumption DEF Init, CountedInv, IdleJob, At
<1>2. TypeOK /\ CountedInv /\ [Next]_vars => CountedInv'
  <2> SUFFICES ASSUME TypeOK, CountedInv, [Next]_vars PROVE CountedInv'
    OBVIOUS
  <2>1. ASSUME NEW a \in Actors, Step(a) \/ Raise(a), ~BumpHourCounter(a)
        PROVE  CountedInv'
    <3>1. UNCHANGED <<tries, begun, blind>> /\ GoesOn(a)
      BY <2>1, StepsOn, Zenon
    <3>2. QED
      BY <3>1, OtherKeepsCount DEF GoesOn
  <2>2. ASSUME NEW a \in Actors, BumpHourCounter(a) PROVE CountedInv'
    <3>1. job[a] \in Job
      BY DEF TypeOK, Job
    <3> DEFINE j == Begun("recover", job[a].clean)
    <3>2. j \in Job /\ Moves(a, j) /\ j.call = "recover" /\ j.pc # "count"
      BY <2>2, <3>1, BegunType DEF BumpHourCounter, Job
    <3> HIDE DEF j
    <3>3. At(a, "count") /\ job[a].call = "recover" /\ (~blind => tries < MaxPerHour)
      BY <2>2 DEF BumpHourCounter, CountedInv
    <3>4. ASSUME NEW x \in Actors
          PROVE  ~At(x, "count")' /\ (job'[x].call = "recover" => x = a)
      <4>1. CASE x = a
        BY <3>2, <4>1 DEF Moves, At
      <4>2. CASE x # a
        <5>1. job'[x] = [job[x] EXCEPT !.clean = FALSE] /\ job[x] \in Job
          BY <3>2, <4>2 DEF Moves, TypeOK, Job
        <5>2. job'[x].pc = job[x].pc /\ job'[x].call = job[x].call
          BY <5>1 DEF Job
        <5>3. job[x].call # "recover" /\ ~At(x, "count")
          BY <3>3, <4>2 DEF CountedInv
        <5>4. QED
          BY <5>2, <5>3 DEF At
      <4>3. QED
        BY <4>1, <4>2
    <3>5. ~blind' => begun' =< tries' /\ tries' =< MaxPerHour
      <4>1. \/ begun' = begun + 1 /\ tries' = tries + 1 /\ blind' = blind
            \/ blind' = TRUE
        BY <2>2 DEF BumpHourCounter
      <4>2. begun \in Nat /\ tries \in Nat /\ MaxPerHour \in Nat
        BY IdsAssumption DEF TypeOK
      <4>3. ~blind => begun =< tries /\ tries < MaxPerHour
        BY <3>3 DEF CountedInv
      <4>4. QED
        BY <4>1, <4>2, <4>3
    <3>6. QED
      BY <3>4, <3>5 DEF CountedInv
  <2>3. ASSUME NEW a \in Actors, Enable(a) \/ ApplyIds(a) PROVE CountedInv'
    <3>1. Alone(a) \in BOOLEAN
      BY DEF Alone
    <3>2. PICK call \in {"toggle", "apply"} : Begin(a, call, Alone(a))
      BY <2>3 DEF Enable, ApplyIds
    <3>3. UNCHANGED <<tries, begun, blind>>
      BY <2>3 DEF Enable, ApplyIds, Watch
    <3> DEFINE j == Begun(call, Alone(a))
    <3>4. j \in Job /\ Moves(a, j) /\ j.call = call /\ j.pc # "count"
      BY <3>1, <3>2, BegunType
    <3> HIDE DEF j
    <3>5. QED
      BY <3>2, <3>3, <3>4, OtherKeepsCount
  <2>4. ASSUME NEW a \in Actors,
               Disable(a) \/ IdsSave(a) \/ UpdateRules(a) \/ Crash(a)
        PROVE  CountedInv'
    <3>1. UNCHANGED <<tries, begun, blind>>
      BY <2>4 DEF Disable, IdsSave, UpdateRules, Crash, Rest, Watch
    <3>2. \/ Moves(a, [IdleJob EXCEPT !.pc = "unset", !.call = "disable"])
          \/ Moves(a, [IdleJob EXCEPT !.pc = "rewrite", !.call = "save"])
          \/ Moves(a, IdleJob)
      BY <2>4 DEF Disable, IdsSave, UpdateRules, Crash
    <3>3. /\ [IdleJob EXCEPT !.pc = "unset", !.call = "disable"].pc = "unset"
          /\ [IdleJob EXCEPT !.pc = "unset", !.call = "disable"].call = "disable"
          /\ [IdleJob EXCEPT !.pc = "rewrite", !.call = "save"].pc = "rewrite"
          /\ [IdleJob EXCEPT !.pc = "rewrite", !.call = "save"].call = "save"
          /\ IdleJob.pc = "idle" /\ IdleJob.call = "none"
      BY DEF IdleJob
    <3>4. QED
      BY <3>1, <3>2, <3>3, StartType, IdleJobType, OtherKeepsCount
  <2>5. ASSUME NEW a \in Actors, AttemptRecovery(a) PROVE CountedInv'
    <3> DEFINE j == [IdleJob EXCEPT !.pc = "count", !.call = "recover",
                                    !.clean = Alone(a)]
    <3>1. Moves(a, j) /\ \A x \in Actors : job[x].call # "recover"
      BY <2>5 DEF AttemptRecovery
    <3>2. j.pc = "count" /\ j.call = "recover"
      BY DEF IdleJob
    <3> HIDE DEF j
    <3>3. ASSUME NEW x \in Actors, x # a
          PROVE  job'[x].call # "recover" /\ ~At(x, "count")'
      <4>1. job'[x] = [job[x] EXCEPT !.clean = FALSE] /\ job[x] \in Job
        BY <3>1, <3>3 DEF Moves, TypeOK, Job
      <4>2. job'[x].pc = job[x].pc /\ job'[x].call = job[x].call
        BY <4>1 DEF Job
      <4>3. ~At(x, "count")
        BY <3>1 DEF CountedInv
      <4>4. QED
        BY <3>1, <4>2, <4>3 DEF At
    <3>4. job'[a].call = "recover"
      BY <3>1, <3>2 DEF Moves
    <3>5. /\ UNCHANGED <<tries, begun>>
          /\ (tries < MaxPerHour /\ blind' = blind) \/ blind' = TRUE
      BY <2>5 DEF AttemptRecovery, ShouldAttempt
    <3>6. QED
      BY <3>3, <3>4, <3>5 DEF CountedInv
  <2>6. CASE HourPasses
    <3>1. begun' = 0 /\ tries' = 0 /\ UNCHANGED job
      BY <2>6 DEF HourPasses, HourCounter
    <3>2. 0 =< MaxPerHour /\ 0 < MaxPerHour
      BY IdsAssumption
    <3>3. \A a \in Actors : At(a, "count")' => job'[a].call = "recover"
      BY <3>1 DEF CountedInv, At
    <3>4. \A a, b \in Actors :
             job'[a].call = "recover" /\ job'[b].call = "recover" => a = b
      BY <3>1 DEF CountedInv
    <3>5. begun' =< tries' /\ tries' =< MaxPerHour /\ tries' < MaxPerHour
      BY <3>1, <3>2
    <3>6. QED
      BY <3>3, <3>4, <3>5 DEF CountedInv
  <2>7. CASE SuricataDies
    <3>1. UNCHANGED <<tries, begun, blind>>
      BY <2>7 DEF SuricataDies, Rest, Watch
    <3>2. ASSUME NEW x \in Actors
          PROVE  job'[x].pc = job[x].pc /\ job'[x].call = job[x].call
      <4>1. job'[x] = [job[x] EXCEPT !.clean = FALSE] /\ job[x] \in Job
        BY <2>7 DEF SuricataDies, TypeOK, Job
      <4>2. QED
        BY <4>1 DEF Job
    <3>3. QED
      BY <3>1, <3>2 DEF CountedInv, At
  <2>8. CASE CooldownPasses \/ UNCHANGED vars
    BY <2>8 DEF CooldownPasses, vars, CountedInv, At
  <2>9. QED
    BY <2>1, <2>2, <2>3, <2>4, <2>5, <2>6, <2>7, <2>8 DEF Next, Step
<1>3. TypeOK /\ CountedInv => RecoveryRateLimited
  BY IdsAssumption DEF TypeOK, CountedInv, RecoveryRateLimited
<1>4. QED
  BY <1>1, <1>2, <1>3, TypeCorrect, PTL DEF Spec
=============================================================================
