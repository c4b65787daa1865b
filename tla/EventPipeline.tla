--------------------------- MODULE EventPipeline ---------------------------
(***************************************************************************)
(* Security events from the log files to the operator.  Collector threads  *)
(* tail log files from a saved offset; log_event stores every event, runs  *)
(* the playbooks it triggers and offers it to the mail alerts; the         *)
(* correlation engine, the forwarder and the retention pruner read the     *)
(* event table behind them.  All of it runs in threads of one process, and *)
(* everything that is not in the database is lost when the process dies.   *)
(*                                                                         *)
(* A thread's pending work is a sequence of frames, the calls it has still *)
(* to make, executed from the head.                                        *)
(***************************************************************************)
EXTENDS Naturals, Sequences, FiniteSets, FiniteSetsExt

CONSTANTS
    Sources,     \* the log files that are tailed
    Operators,   \* request threads
    Threshold,   \* events within its window that a correlation rule asks for
    MaxPerHour,  \* mail_alert_config.max_per_hour
    MaxLines,    \* bound on the lines written to the logs
    MaxCalls,    \* bound on requests and on events that come from no log
    MaxFaults,   \* bound on failures, crashes, rotations and overlaps
    MaxLogged,   \* bound on the rows of the event table
    Never        \* the forwarder has not run yet

ASSUME PipelineAssumption ==
    /\ Sources \subseteq {"eve", "dns", "auth", "messages", "strongswan", "mpd5"}
    /\ {Threshold, MaxPerHour, MaxLines, MaxCalls, MaxFaults, MaxLogged} \subseteq Nat
    /\ Never \notin Nat

VARIABLES
    lines,    \* the number of lines written to the logs so far
    src,      \* each log file and how far it has been read
    todo,     \* the frames of each thread
    events,   \* the event table
    nextId,   \* its last id: AUTOINCREMENT
    dlq,      \* event_dead_letter: line numbers, 0 for a packet log line
    pb,       \* the playbook
    runs,     \* playbook_runs
    mail,     \* the mail alerts
    fired,    \* the correlation rule is in its cooldown
    fwd,      \* the log forwarder
    handled,  \* history: lines that reached the event log or the dead letters
    gone,     \* history: lines torn by a read, hidden by a rotation, or of which
              \* nothing could be stored
    calls, faults

vars == <<lines, src, todo, events, nextId, dlq, pb, runs, mail, fired,
          fwd, handled, gone, calls, faults>>

-----------------------------------------------------------------------------
Threads == Sources \cup Operators \cup {"engine", "stream", "mailer"}

\* What a line may give, each time it is read: an event (hot: at or above the
\* severity that mail alerts and playbooks ask for), a dead letter, nothing, or
\* an exception in its handler.
Hot == "hot"
Cool == "cool"
Unparsed == "dead"
Nothing == "nothing"
Poison == "raise"

HandleAlertEvent == {Hot, Cool, Poison}
HandleFileinfoEvent == {Hot, Nothing}
HandleHttpEvent == {Hot, Cool, Nothing}
CollectIdsAlerts ==
    HandleAlertEvent \cup HandleFileinfoEvent \cup HandleHttpEvent
        \cup {Nothing, Unparsed}
CollectDnsQueries == {Hot, Cool, Nothing, Unparsed}
CollectSyslogEvents == {Hot, Cool, Nothing, Unparsed}
CollectSystemEvents == {Hot, Cool, Nothing, Unparsed}
CollectStrongswanLines == {Hot, Cool, Nothing, Unparsed}
CollectMpd5Lines == {Cool, Nothing, Unparsed}

Kinds ==
    [eve |-> CollectIdsAlerts, dns |-> CollectDnsQueries,
     auth |-> CollectSyslogEvents, messages |-> CollectSystemEvents,
     strongswan |-> CollectStrongswanLines, mpd5 |-> CollectMpd5Lines]

\* Events that come from no file: the packet log, with a cooldown per flow, the
\* syslog listener, the saved searches, and the collectors that compare what
\* they see with what they saw before.
HandlePflogLine == {Hot, Cool, Nothing, Unparsed}
ListenerLoop == {Hot, Cool}
ExecuteDue == {Cool, Nothing}
Watched == {Hot, Cool}

Streamed == UNION {HandlePflogLine, ListenerLoop, ExecuteDue, Watched}

-----------------------------------------------------------------------------
\* own: the frame belongs to a playbook run that on_event started.
Frame(op, act, hot, n) ==
    [op |-> op, act |-> act, hot |-> hot, n |-> n, i |-> 0, own |-> FALSE,
     steps |-> <<>>]

LogEvent(act, hot, n) == Frame("log", act, hot, n)

Fault == faults < MaxFaults /\ faults' = faults + 1
Calm == UNCHANGED faults

\* Nothing is under way.
Quiet == fwd.upto = 0 /\ \A u \in Threads : todo[u] = <<>>

\* What starts while something is under way is counted as a fault: the bound on
\* the faults is also the bound on the overlaps.
Overlaps == IF Quiet THEN Calm ELSE Fault

\* t starts to work.
Begin(t, frames) ==
    /\ todo[t] = <<>>
    /\ todo' = [todo EXCEPT ![t] = frames]
    /\ Overlaps

Asked == calls < MaxCalls /\ calls' = calls + 1

At(t, op) == todo[t] # <<>> /\ Head(todo[t]).op = op
Top(t) == Head(todo[t])

\* The head frame has been executed and calls for these.
Then(t, frames) == todo' = [todo EXCEPT ![t] = frames \o Tail(@)]

\* _PLAYBOOK_RUNNING.active: t is inside on_event.
Running(t) == \E k \in DOMAIN todo[t] : todo[t][k].op = "done"

Files == <<lines, src, gone>>
Table == <<events, nextId>>
Book == <<pb, runs>>
-----------------------------------------------------------------------------
\* How far the file is, or is about to be, read.
Offsets(s) == {src[s].off, src[s].mem} \cup
              {todo[s][k].n : k \in {j \in DOMAIN todo[s] : todo[s][j].op = "save"}}

\* A daemon writes a line.  One written to a rotated file, behind an offset in
\* the old one, may be skipped.
Append1(s) ==
    /\ lines < MaxLines
    /\ Overlaps
    /\ lines' = lines + 1
    /\ src' = [src EXCEPT ![s].file = Append(@, lines + 1)]
    /\ gone' = IF Len(src[s].file) < Max(Offsets(s))
               THEN gone \cup {lines + 1} ELSE gone
    /\ UNCHANGED <<todo, Table, dlq, Book, mail, fired, fwd, handled, calls>>

\* newsyslog rotates the log: what was not handled yet can no longer be read.
Rotate(s) ==
    /\ src[s].file # <<>>
    /\ Fault
    /\ gone' = gone \cup ({src[s].file[k] : k \in DOMAIN src[s].file} \ handled)
    /\ src' = [src EXCEPT ![s].file = <<>>]
    /\ UNCHANGED <<lines, todo, Table, dlq, Book, mail, fired, fwd, handled,
                   calls>>

\* _tail_file: where to read from, after a truncation from the start.
ReadFrom(s) == IF Len(src[s].file) < src[s].mem THEN 0 ELSE src[s].mem

\* Mutant: the offset is written when the lines are read.
TailFirst(s) ==
    LET f == src[s].file
        batch == SubSeq(f, ReadFrom(s) + 1, Len(f))
    IN  /\ batch # <<>> /\ nextId < MaxLogged
        /\ Begin(s, <<Frame("save", "line", FALSE, Len(f))>> \o
                    [k \in DOMAIN batch |-> Frame("line", "line", FALSE, batch[k])])
        /\ UNCHANGED gone
    /\ UNCHANGED <<lines, src, Table, dlq, Book, mail, fired, fwd, handled,
                   calls>>

\* A poll: the new lines, and the offset once all of them are done.  The last
\* one may be half written; both halves are then read as lines of their own.
TailFile(s) ==
    LET f == src[s].file
        batch == SubSeq(f, ReadFrom(s) + 1, Len(f))
        last == Len(batch)
        work(op) == [k \in DOMAIN batch |->
                        Frame(IF k = last THEN op ELSE "line", "line", FALSE, batch[k])]
        save == Frame("save", "line", FALSE, Len(f))
    IN  /\ batch # <<>> /\ nextId < MaxLogged
        /\ \/ /\ Begin(s, Append(work("line"), save))
              /\ UNCHANGED gone
           \/ /\ Quiet
              /\ todo' = [todo EXCEPT ![s] = Append(work("torn"), save)]
              /\ Fault
              /\ gone' = gone \cup {batch[last]}
    /\ UNCHANGED <<lines, src, Table, dlq, Book, mail, fired, fwd, handled,
                   calls>>

\* record_dead_letter stores what could not be parsed; a database that fails is
\* not noticed.
RecordDeadLetter(n) ==
    \/ dlq' = dlq \cup {n} /\ Calm
    \/ UNCHANGED dlq /\ Fault

\* Half a line is not JSON, and matches none of the patterns.
HandleTorn(t) ==
    /\ At(t, "torn")
    /\ IF t = "eve" THEN RecordDeadLetter(Top(t).n) ELSE UNCHANGED dlq /\ Calm
    /\ Then(t, <<>>)
    /\ UNCHANGED <<Files, Table, Book, mail, fired, fwd, handled, calls>>

\* One line.  A handler that raises ends the poll, and the offset stays; a dead
\* letter that was not stored does not.
HandleLine(t) ==
    /\ At(t, "line")
    /\ LET n == Top(t).n
       IN  \E k \in Kinds[t] :
              \/ /\ k = "raise"
                 /\ Fault
                 /\ todo' = [todo EXCEPT ![t] = <<>>]
                 /\ UNCHANGED <<dlq, handled, gone>>
              \/ /\ k \in {"hot", "cool"}
                 /\ Then(t, <<LogEvent("line", k = "hot", n)>>)
                 /\ Calm
                 /\ UNCHANGED <<dlq, handled, gone>>
              \/ /\ k = "nothing"
                 /\ Then(t, <<>>)
                 /\ Calm
                 /\ handled' = handled \cup {n}
                 /\ UNCHANGED <<dlq, gone>>
              \/ /\ k = "dead"
                 /\ Then(t, <<>>)
                 /\ RecordDeadLetter(n)
                 /\ handled' = handled \cup (dlq' \cap {n})
                 /\ gone' = gone \cup ({n} \ dlq')
    /\ UNCHANGED <<lines, src, Table, Book, mail, fired, fwd, calls>>

\* _save_offset: silent when it fails, and the thread goes on from memory.
SaveOffset(t) ==
    /\ At(t, "save")
    /\ \/ src' = [src EXCEPT ![t].off = Top(t).n, ![t].mem = Top(t).n] /\ Calm
       \/ src' = [src EXCEPT ![t].mem = Top(t).n] /\ Fault
    /\ Then(t, <<>>)
    /\ UNCHANGED <<lines, gone, Table, dlq, Book, mail, fired, fwd, handled,
                   calls>>

\* An event that comes from no log file.
Stream ==
    /\ Asked /\ nextId < MaxLogged
    /\ \E k \in Streamed \ {Nothing} :
          IF k = Unparsed
          THEN /\ UNCHANGED todo
               /\ \/ dlq' = dlq \cup {0} /\ Overlaps
                  \/ UNCHANGED dlq /\ Fault
          ELSE /\ Begin("stream", <<LogEvent("line", k = "hot", 0)>>)
               /\ UNCHANGED dlq
    /\ UNCHANGED <<Files, Table, Book, mail, fired, fwd, handled>>

\* replay_dead_letter handles packet log lines only, and deletes the row after.
ReplayDeadLetter(o) ==
    /\ Asked /\ nextId < MaxLogged
    /\ 0 \in dlq
    /\ Begin(o, <<LogEvent("line", FALSE, 0), Frame("replayed", "line", FALSE, 0)>>)
    /\ UNCHANGED <<Files, Table, dlq, Book, mail, fired, fwd, handled>>

ReplayDone(o) ==
    /\ At(o, "replayed")
    /\ dlq' = dlq \ {0}
    /\ Then(o, <<>>)
    /\ UNCHANGED <<Files, Table, Book, mail, fired, fwd, handled, calls, faults>>

PurgeDeadLetter ==
    /\ dlq # {} /\ Asked /\ Overlaps
    /\ dlq' = {}
    /\ UNCHANGED <<Files, todo, Table, Book, mail, fired, fwd, handled>>
-----------------------------------------------------------------------------
\* log_event: the audit file, the table, then the two hooks.  The file or the
\* table may fail, or both; an exception ends the call, and its callers go on.
Log(t) ==
    /\ At(t, "log")
    /\ LET f == Top(t)
           line == {f.n} \ {0}
           hooks == <<[f EXCEPT !.op = "dispatch"], [f EXCEPT !.op = "notify"]>>
       IN  \/ /\ events' = events \cup {[id |-> nextId + 1, line |-> f.act = "line",
                                         old |-> FALSE]}
              /\ nextId' = nextId + 1
              /\ handled' = handled \cup line
              /\ Then(t, hooks)
              /\ Calm
              /\ UNCHANGED gone
           \/ /\ Fault
              /\ handled' = handled \cup line
              /\ Then(t, hooks)
              /\ UNCHANGED <<Table, gone>>
           \/ /\ Fault
              /\ gone' = gone \cup line
              /\ Then(t, hooks) \/ Then(t, <<>>)
              /\ UNCHANGED <<Table, handled>>
    /\ UNCHANGED <<lines, src, dlq, Book, mail, fired, fwd, calls>>

NewRun(f) ==
    [status |-> "running", at |-> 0, approved |-> 0,
     cause |-> IF f.act # "playbook" THEN "outside"
               ELSE IF f.own THEN "own" ELSE "approved"]

Step(r, i, own, steps) ==
    [Frame("step", "playbook", FALSE, r) EXCEPT !.i = i, !.own = own,
                                                !.steps = steps]

\* _match_playbooks.
Matches(f) == pb.on /\ f.hot /\ pb.trigger \in {f.act, "any"}

\* Mutant: no re-entry guard.
DispatchAgain(t) ==
    /\ At(t, "dispatch")
    /\ IF Matches(Top(t)) /\ Len(runs) < MaxLogged
       THEN /\ runs' = Append(runs, NewRun(Top(t)))
            /\ Then(t, <<Step(Len(runs) + 1, 1, TRUE, pb.steps),
                         Frame("done", "playbook", FALSE, 0)>>)
       ELSE Then(t, <<>>) /\ UNCHANGED runs
    /\ UNCHANGED <<Files, Table, dlq, pb, mail, fired, fwd, handled, calls, faults>>

\* on_event.
Dispatch(t) ==
    /\ At(t, "dispatch")
    /\ IF ~Running(t) /\ Matches(Top(t))
       THEN /\ runs' = Append(runs, NewRun(Top(t)))
            /\ Then(t, <<Step(Len(runs) + 1, 1, TRUE, pb.steps),
                         Frame("done", "playbook", FALSE, 0)>>)
       ELSE Then(t, <<>>) /\ UNCHANGED runs
    /\ UNCHANGED <<Files, Table, dlq, pb, mail, fired, fwd, handled, calls, faults>>

Dispatched(t) ==
    /\ At(t, "done")
    /\ Then(t, <<>>)
    /\ UNCHANGED <<Files, Table, dlq, Book, mail, fired, fwd, handled, calls, faults>>

\* Mutant: a gate is logged and the steps behind it run at once.
ExecuteStepOn(t) ==
    /\ At(t, "step")
    /\ LET f == Top(t)
       IN  IF f.i > Len(f.steps)
           THEN /\ runs' = [runs EXCEPT ![f.n].status = "done"]
                /\ Then(t, <<>>)
           ELSE /\ runs' = IF f.steps[f.i].gate
                           THEN [runs EXCEPT ![f.n].status = "awaiting_approval",
                                             ![f.n].at = f.i] ELSE runs
                /\ Then(t, <<[f EXCEPT !.i = f.i + 1]>>)
    /\ UNCHANGED <<Files, Table, dlq, pb, mail, fired, fwd, handled, calls, faults>>

\* _execute_steps, one step: a gate ends the execution and waits for an
\* approval; _step_log and _step_notify log; the other steps concern the cases
\* and the blocklist alone.
ExecuteStep(t) ==
    /\ At(t, "step")
    /\ LET f == Top(t)
           next == [f EXCEPT !.i = f.i + 1]
           type == f.steps[f.i].type
       IN  IF f.i > Len(f.steps)
           THEN /\ runs' = [runs EXCEPT ![f.n].status = "done"]
                /\ Then(t, <<>>)
           ELSE IF f.steps[f.i].gate
           THEN /\ runs' = [runs EXCEPT ![f.n].status = "awaiting_approval",
                                        ![f.n].at = f.i]
                /\ Then(t, <<>>)
           ELSE /\ Then(t, IF type \in {"log", "notify"}
                           THEN <<[LogEvent("playbook", TRUE, 0) EXCEPT !.own = f.own],
                                  next>>
                           ELSE <<next>>)
                /\ UNCHANGED runs
    /\ UNCHANGED <<Files, Table, dlq, pb, mail, fired, fwd, handled, calls, faults>>

\* approve_run: the status is read, and written in a later statement.
ApproveRun(o) ==
    /\ Asked /\ nextId < MaxLogged
    /\ \E r \in DOMAIN runs :
          /\ runs[r].status = "awaiting_approval"
          /\ Begin(o, <<Frame("resume", "admin", FALSE, r)>>)
    /\ UNCHANGED <<Files, Table, dlq, Book, mail, fired, fwd, handled>>

\* It goes on behind the gate, with the playbook as it is now, outside the
\* re-entry guard; the page logs the approval.
ResumeRun(o) ==
    /\ At(o, "resume")
    /\ LET r == Top(o).n
       IN  /\ runs' = [runs EXCEPT ![r].status = "running", ![r].approved = @ + 1]
           /\ Then(o, <<Step(r, runs[r].at + 1, FALSE, pb.steps),
                        LogEvent("admin", FALSE, 0)>>)
    /\ UNCHANGED <<Files, Table, dlq, pb, mail, fired, fwd, handled, calls, faults>>

S(type, gate) == [type |-> type, gate |-> gate]
Gated == <<S("log", FALSE), S("block_ip", TRUE), S("notify", FALSE)>>
Steps == {Gated, <<S("open_case", FALSE), S("notify", FALSE)>>}

Triggers == {"match", "any"}

\* upsert_playbook, and the page that logs it.
UpsertPlaybook(o) ==
    /\ Asked /\ nextId < MaxLogged
    /\ \/ pb' = [pb EXCEPT !.on = FALSE]
       \/ \E tr \in Triggers, st \in Steps :
             pb' = [on |-> TRUE, trigger |-> tr, steps |-> st]
    /\ Begin(o, <<LogEvent("admin", FALSE, 0)>>)
    /\ UNCHANGED <<Files, Table, dlq, runs, mail, fired, fwd, handled>>
-----------------------------------------------------------------------------
\* Off, a mail for every event, one per cooldown, or a digest.
MailModes == {"off", "each", "cooled", "digest"}

\* The switch, the loop guard, the severity and the cooldowns.
Mailed(f) ==
    mail.mode # "off" /\ f.act # "mail" /\ f.hot /\ f.act \notin mail.cooled

\* notify_event up to the counter.  In digest mode the event is buffered and not
\* counted; a count that cannot be read counts as none.
Notify(t) ==
    /\ At(t, "notify")
    /\ LET f == Top(t)
       IN  IF ~Mailed(f)
           THEN Then(t, <<>>) /\ Calm /\ UNCHANGED mail
           ELSE /\ mail' = [mail EXCEPT
                      !.cooled = IF mail.mode = "cooled" THEN @ \cup {f.act} ELSE @,
                      !.buffer = IF mail.mode = "digest" THEN @ + 1 ELSE @]
                /\ IF mail.mode = "digest" THEN Then(t, <<>>) /\ Calm
                   ELSE \E n \in {0, mail.count} :
                          /\ Then(t, <<[f EXCEPT !.op = "charge", !.n = n]>>)
                          /\ IF n = mail.count THEN Calm ELSE Fault
    /\ UNCHANGED <<Files, Table, dlq, Book, fired, fwd, handled, calls>>

\* A counter written for an hour that is over (i = 1) reads as zero.
Counter(f) == IF f.i = 1 THEN 0 ELSE f.n + 1

\* Mutant: the counter is not written back.
ChargeNothing(t) ==
    /\ At(t, "charge")
    /\ mail' = [mail EXCEPT !.queue = @ + 1, !.sent = @ + 1]
    /\ Then(t, <<>>)
    /\ UNCHANGED <<Files, Table, dlq, Book, fired, fwd, handled, calls, faults>>

\* The rest of notify_event, on the count it has read: below the cap, if there
\* is one, the event is queued; at the cap a notice is logged, once.  A count
\* that was not stored is not noticed.
Charge(t) ==
    /\ At(t, "charge")
    /\ LET f == Top(t)
           over == MaxPerHour > 0 /\ f.n >= MaxPerHour
           more == IF over THEN 0 ELSE 1
       IN  /\ IF over /\ f.n > MaxPerHour
              THEN UNCHANGED mail /\ Calm
              ELSE \/ /\ mail' = [mail EXCEPT
                                   !.count = Counter(f),
                                   !.queue = @ + more, !.sent = @ + more,
                                   !.loose = @ \/ f.i = 1 \/ f.n # mail.count]
                      /\ Calm
                   \/ /\ mail' = [mail EXCEPT
                                   !.queue = @ + more, !.sent = @ + more,
                                   !.loose = TRUE]
                      /\ Fault
           /\ Then(t, IF over /\ f.n = MaxPerHour
                      THEN <<LogEvent("mail", FALSE, 0)>> ELSE <<>>)
    /\ UNCHANGED <<Files, Table, dlq, Book, fired, fwd, handled, calls>>

\* _digest_ticker: the window is over.
FlushDigest ==
    /\ mail.mode = "digest" /\ mail.buffer > 0 /\ Overlaps
    /\ mail' = [mail EXCEPT !.buffer = 0, !.queue = @ + 1]
    /\ UNCHANGED <<Files, todo, Table, dlq, Book, fired, fwd, handled, calls>>

\* _worker: the mail goes out or not, and either is logged.
Deliver ==
    /\ mail.queue > 0 /\ nextId < MaxLogged
    /\ mail' = [mail EXCEPT !.queue = @ - 1]
    /\ IF mail.mode # "off" THEN Begin("mailer", <<LogEvent("mail", TRUE, 0)>>)
       ELSE UNCHANGED todo /\ Overlaps
    /\ UNCHANGED <<Files, Table, dlq, Book, fired, fwd, handled, calls>>

\* The settings page.
SaveMailConfig ==
    /\ Asked /\ Overlaps
    /\ \E mode \in MailModes : mail' = [mail EXCEPT !.mode = mode]
    /\ UNCHANGED <<Files, todo, Table, dlq, Book, fired, fwd, handled>>

\* A new hour: a count of the old one no longer counts.
HourCounter ==
    /\ mail.sent > 0 \/ \E t \in Threads : At(t, "charge")
    /\ Asked /\ Overlaps
    /\ mail' = [mail EXCEPT !.count = 0, !.sent = 0, !.loose = FALSE]
    /\ todo' = [t \in Threads |-> [k \in DOMAIN todo[t] |->
                  IF todo[t][k].op = "charge" THEN [todo[t][k] EXCEPT !.i = 1]
                  ELSE todo[t][k]]]
    /\ UNCHANGED <<Files, Table, dlq, Book, fired, fwd, handled>>
-----------------------------------------------------------------------------
\* evaluate: enough events in the window, its own matches not counted, and the
\* rule outside its cooldown.
Evaluate ==
    /\ ~fired /\ nextId < MaxLogged
    /\ Cardinality({e \in events : ~e.old /\ e.line}) >= Threshold
    /\ fired' = TRUE
    /\ Begin("engine", <<LogEvent("match", TRUE, 0)>>)
    /\ UNCHANGED <<Files, Table, dlq, Book, mail, fwd, handled, calls>>

\* Time passes: the events leave the rule's window and, in the end, the
\* retention window; both cooldowns are over.
TimePasses ==
    /\ \E e \in events : ~e.old
    /\ Asked /\ Overlaps
    /\ events' = {[e EXCEPT !.old = TRUE] : e \in events}
    /\ fired' = FALSE
    /\ mail' = [mail EXCEPT !.cooled = {}]
    /\ UNCHANGED <<Files, todo, nextId, dlq, Book, fwd, handled>>

\* prune_once.
PruneOnce ==
    /\ \E e \in events : e.old
    /\ Overlaps
    /\ events' = {e \in events : ~e.old}
    /\ UNCHANGED <<Files, todo, nextId, dlq, Book, mail, fired, fwd, handled,
                   calls>>

Unsent == {e \in events : e.id > fwd.off}

\* Mutant: the offset is taken whether or not the batch was sent.
ForwardTickLossy ==
    /\ fwd.on /\ fwd.upto = 0
    /\ \/ /\ fwd.off = Never
          /\ fwd' = [fwd EXCEPT !.off = 0]
       \/ /\ fwd.off # Never /\ Unsent # {}
          /\ fwd' = [fwd EXCEPT !.upto = Max({e.id : e \in Unsent})]
    /\ UNCHANGED <<Files, todo, Table, dlq, Book, mail, fired, handled, calls, faults>>

\* _forward_tick: the first one only takes the highest id there is; a later one
\* sends what is behind the offset.
ForwardTick ==
    /\ fwd.on /\ fwd.upto = 0
    /\ \/ /\ fwd.off = Never
          /\ LET m == Max({0} \cup {e.id : e \in events})
             IN  fwd' = [fwd EXCEPT !.off = m, !.base = m]
          /\ Overlaps
       \/ /\ fwd.off # Never /\ Unsent # {}
          /\ fwd' = [fwd EXCEPT !.sent = @ \cup {e.id : e \in Unsent},
                                !.upto = Max({e.id : e \in Unsent})]
          /\ Overlaps
       \/ /\ fwd.off # Never /\ Unsent # {}
          /\ Fault
          /\ UNCHANGED fwd
    /\ UNCHANGED <<Files, todo, Table, dlq, Book, mail, fired, handled, calls>>

\* The offset, once the send has succeeded.
ForwardSave ==
    /\ fwd.upto # 0
    /\ fwd' = [fwd EXCEPT !.off = fwd.upto, !.upto = 0]
    /\ UNCHANGED <<Files, todo, Table, dlq, Book, mail, fired, handled, calls, faults>>

\* log_forwarding_settings, logged.
LogForwardingSettings(o) ==
    /\ Asked /\ nextId < MaxLogged
    /\ fwd' = [fwd EXCEPT !.on = ~@]
    /\ Begin(o, <<LogEvent("admin", FALSE, 0)>>)
    /\ UNCHANGED <<Files, Table, dlq, Book, mail, fired, handled>>

\* The process dies and starts again.  Offsets come from the database; frames,
\* queues, cooldowns and the read position are lost.
Restart ==
    /\ Fault
    /\ todo' = [t \in Threads |-> <<>>]
    /\ src' = [s \in Sources |-> [src[s] EXCEPT !.mem = src[s].off]]
    /\ mail' = [mail EXCEPT !.queue = 0, !.buffer = 0, !.cooled = {}]
    /\ fired' = FALSE
    /\ fwd' = [fwd EXCEPT !.upto = 0]
    /\ UNCHANGED <<lines, gone, Table, dlq, Book, handled, calls>>
-----------------------------------------------------------------------------
\* One of the three readers is configured; the operators configure the others.
Init == \E use \in {"playbook", "mail", "forward"} :
    /\ lines = 0
    /\ src = [s \in Sources |-> [file |-> <<>>, off |-> 0, mem |-> 0]]
    /\ todo = [t \in Threads |-> <<>>]
    /\ events = {} /\ nextId = 0
    /\ dlq = {}
    /\ pb = [on |-> use = "playbook", trigger |-> "any", steps |-> Gated]
    /\ runs = <<>>
    /\ mail = [mode |-> IF use = "mail" THEN "each" ELSE "off", count |-> 0,
               queue |-> 0, buffer |-> 0, cooled |-> {}, sent |-> 0, loose |-> FALSE]
    /\ fired = FALSE
    /\ fwd = [on |-> use = "forward", off |-> Never, base |-> 0, sent |-> {},
              upto |-> 0]
    /\ handled = {} /\ gone = {}
    /\ calls = 0 /\ faults = 0

Work(t) ==
    \/ HandleLine(t) \/ HandleTorn(t) \/ SaveOffset(t)
    \/ Log(t) \/ Dispatch(t) \/ Dispatched(t) \/ ExecuteStep(t) \/ Notify(t)
    \/ Charge(t) \/ ReplayDone(t) \/ ResumeRun(t)

Next ==
    \/ \E s \in Sources : Append1(s) \/ Rotate(s) \/ TailFile(s)
    \/ \E o \in Operators :
          \/ ReplayDeadLetter(o) \/ ApproveRun(o) \/ UpsertPlaybook(o)
          \/ LogForwardingSettings(o)
    \/ \E t \in Threads : Work(t)
    \/ Stream \/ PurgeDeadLetter \/ FlushDigest \/ Deliver \/ SaveMailConfig
    \/ HourCounter \/ Evaluate \/ TimePasses \/ PruneOnce \/ ForwardTick
    \/ ForwardSave \/ Restart

Spec == Init /\ [][Next]_vars
-----------------------------------------------------------------------------
\* Every line before the saved offset has become an event or a dead letter, or
\* asked for neither, crashes and failed saves of the offset included; the
\* exceptions are a line read half written, the lines a rotation hid, and a line
\* for which the audit file and the table both failed, log_event raised, or the
\* dead letter could not be stored.
NoLineLost ==
    \A s \in Sources :
        \A p \in DOMAIN src[s].file :
            p =< src[s].off => src[s].file[p] \in handled \cup gone

\* What the forwarder has behind it was sent or is no longer in the table.
ForwardNoGap ==
    fwd.off # Never =>
        \A e \in events : e.id \in (fwd.base + 1)..fwd.off => e.id \in fwd.sent

\* An hour brings no more alerts than the cap, if there is one, as long as no two
\* notifications overlapped and the count of each was read and stored.
MailCap == MaxPerHour > 0 /\ ~mail.loose => mail.sent =< MaxPerHour

\* "A playbook's own emitted events cannot recursively re-fire it" is true of what
\* on_event runs.  What an approval resumes runs outside the guard, and its events
\* do start runs: a run that an event of a playbook started, on whatever thread,
\* has an older run behind it that an operator approved, and never the guarded
\* part of one.
NoSelfTrigger ==
    \A r \in DOMAIN runs :
        /\ runs[r].cause # "own"
        /\ runs[r].cause = "approved" => \E q \in 1..(r - 1) : runs[q].approved > 0

\* A run that waits for approval executes nothing, unless two operators
\* approved it at the same time.
GateHolds ==
    \A r \in DOMAIN runs :
        runs[r].status = "awaiting_approval" /\ runs[r].approved < 2 =>
            \A t \in Threads : \A k \in DOMAIN todo[t] :
                ~(todo[t][k].op = "step" /\ todo[t][k].n = r)
=============================================================================
