------------------------ MODULE EventPipelineProofs ------------------------
(***************************************************************************)
(* Proofs about EventPipeline for any set of log files and operators and   *)
(* any bound on lines, calls, faults and rows: no line is lost behind a    *)
(* saved offset, the forwarder leaves no gap, the hourly cap on mails, the *)
(* playbooks' re-entry guard and their approval gates.                     *)
(***************************************************************************)
EXTENDS EventPipeline, SequenceTheorems, FiniteSetTheorems,
        NaturalsInduction, WellFoundedInduction, TLAPS

Ops == {"line", "torn", "save", "log", "dispatch", "notify", "charge", "done",
        "step", "resume", "replayed"}
Acts == {"line", "playbook", "admin", "mail", "match"}
FrameType == [op : Ops, act : Acts, hot : BOOLEAN, n : Nat, i : Nat,
              own : BOOLEAN, steps : Steps \cup {<<>>}]
Stack == Seq(FrameType)
SourceType == [file : Seq(Nat \ {0}), off : Nat, mem : Nat]
EventType == [id : Nat \ {0}, line : BOOLEAN, old : BOOLEAN]
RunType == [status : {"running", "awaiting_approval", "done"}, at : Nat,
            approved : Nat, cause : {"outside", "own", "approved"}]
MailType == [mode : MailModes, count : Nat, queue : Nat, buffer : Nat,
             cooled : SUBSET Acts, sent : Nat, loose : BOOLEAN]
FwdType == [on : BOOLEAN, off : Nat \cup {Never}, base : Nat,
            sent : SUBSET Nat, upto : Nat]

FilesOk == lines \in Nat /\ src \in [Sources -> SourceType]
TodoOk == todo \in [Threads -> Stack]
BookOk == /\ pb \in [on : BOOLEAN, trigger : Triggers, steps : Steps]
          /\ runs \in Seq(RunType)
MailOk == mail \in MailType

\* The type invariant of the event table and the forwarder.
TableOk == events \in SUBSET EventType /\ nextId \in Nat /\ fwd \in FwdType

\* A step or an approval under way is one of a run there is.
Known(q, n) ==
    \A k \in 1..Len(q) : q[k].op \in {"step", "resume"} => q[k].n \in 1..n
KnownRuns == \A t \in Threads : Known(todo[t], Len(runs))

\* The type invariant of the collectors, the playbooks and the mails.
PipeType == FilesOk /\ TodoOk /\ BookOk /\ MailOk /\ KnownRuns
-----------------------------------------------------------------------------
\* The end of on_event.
LEMMA DoneFrameIs ==
    /\ Frame("done", "playbook", FALSE, 0) \in FrameType
    /\ Frame("done", "playbook", FALSE, 0).op = "done"
    /\ Frame("done", "playbook", FALSE, 0).own = FALSE
<1>1. "done" \in Ops /\ "playbook" \in Acts
  BY DEF Ops, Acts
<1>2. QED
  BY <1>1 DEF Frame, FrameType

\* A call at or above it.
LEMMA HotFrameIs ==
  ASSUME NEW op \in Ops, NEW act \in Acts, NEW n \in Nat
  PROVE  /\ Frame(op, act, TRUE, n) \in FrameType
         /\ Frame(op, act, TRUE, n).op = op
         /\ Frame(op, act, TRUE, n).n = n
         /\ Frame(op, act, TRUE, n).own = FALSE
         /\ Frame(op, act, TRUE, n).act = act
BY DEF Frame, FrameType

\* A step of a playbook run, as Step builds it.
LEMMA StepIs ==
  ASSUME NEW r \in Nat, NEW i \in Nat, NEW own \in BOOLEAN, NEW st \in Steps
  PROVE  /\ Step(r, i, own, st) \in FrameType
         /\ Step(r, i, own, st).op = "step"
         /\ Step(r, i, own, st).n = r
         /\ Step(r, i, own, st).own = own
<1> DEFINE f == Frame("step", "playbook", FALSE, r)
           g == [[[f EXCEPT !.i = i] EXCEPT !.own = own] EXCEPT !.steps = st]
<1>1. f \in FrameType /\ f.op = "step" /\ f.n = r
  <2>1. "step" \in Ops /\ "playbook" \in Acts /\ FALSE \in BOOLEAN
    BY DEF Ops, Acts
  <2>2. QED
    BY <2>1 DEF Frame, FrameType
<1>2. Step(r, i, own, st) = [f EXCEPT !.i = i, !.own = own, !.steps = st]
  BY DEF Step
<1> HIDE DEF f
<1>3. [f EXCEPT !.i = i, !.own = own, !.steps = st] = g
  OBVIOUS
<1>4. g \in FrameType /\ g.op = f.op /\ g.n = f.n
  BY <1>1 DEF FrameType
<1>5. g.own = own
  BY <1>1 DEF FrameType
<1>6. QED
  BY <1>1, <1>2, <1>3, <1>4, <1>5

\* The frames of a thread whose head called for fs.
LEMMA Pushed ==
  ASSUME NEW F, NEW s \in Seq(F), s # <<>>, NEW fs \in Seq(F)
  PROVE  /\ fs \o Tail(s) \in Seq(F)
         /\ Len(fs \o Tail(s)) = Len(fs) + Len(s) - 1
         /\ \A j \in 1..Len(fs) : (fs \o Tail(s))[j] = fs[j]
         /\ \A j \in 2..Len(s) : (fs \o Tail(s))[j + Len(fs) - 1] = s[j]
         /\ \A j \in 1..Len(fs \o Tail(s)) :
               j > Len(fs) => /\ (fs \o Tail(s))[j] = s[j - Len(fs) + 1]
                              /\ j - Len(fs) + 1 \in 2..Len(s)
<1>1. Tail(s) \in Seq(F) /\ Len(Tail(s)) = Len(s) - 1
      /\ \A j \in 1..Len(s) - 1 : Tail(s)[j] = s[j + 1]
  OBVIOUS
<1> DEFINE q == Tail(s)
<1>2. fs \o q \in Seq(F) /\ Len(fs \o q) = Len(fs) + Len(q)
      /\ \A j \in 1..Len(fs) + Len(q) :
            (fs \o q)[j] = IF j =< Len(fs) THEN fs[j] ELSE q[j - Len(fs)]
  BY <1>1
<1>3. Len(fs) \in Nat /\ Len(s) \in Nat /\ Len(s) > 0
  OBVIOUS
<1>4. q \in Seq(F) /\ Len(q) = Len(s) - 1
      /\ \A j \in 1..Len(s) - 1 : q[j] = s[j + 1]
  BY <1>1
<1> HIDE DEF q
<1>5. /\ fs \o q \in Seq(F)
      /\ Len(fs \o q) = Len(fs) + Len(s) - 1
      /\ \A j \in 1..Len(fs) : (fs \o q)[j] = fs[j]
      /\ \A j \in 2..Len(s) : (fs \o q)[j + Len(fs) - 1] = s[j]
      /\ \A j \in 1..Len(fs \o q) :
            j > Len(fs) => /\ (fs \o q)[j] = s[j - Len(fs) + 1]
                           /\ j - Len(fs) + 1 \in 2..Len(s)
  <2>1. ASSUME NEW j \in 2..Len(s) PROVE (fs \o q)[j + Len(fs) - 1] = s[j]
    <3>1. j + Len(fs) - 1 \in 1..Len(fs) + Len(q) /\ j + Len(fs) - 1 > Len(fs)
      BY <1>3, <1>4
    <3>2. (fs \o q)[j + Len(fs) - 1] = q[j + Len(fs) - 1 - Len(fs)]
      BY <1>2, <3>1, <1>3
    <3>3. j + Len(fs) - 1 - Len(fs) = j - 1 /\ j - 1 \in 1..Len(s) - 1
      BY <1>3
    <3>4. QED
      BY <3>2, <3>3, <1>4
  <2>2. ASSUME NEW j \in 1..Len(fs \o q), j > Len(fs)
        PROVE /\ (fs \o q)[j] = s[j - Len(fs) + 1]
              /\ j - Len(fs) + 1 \in 2..Len(s)
    <3>1. (fs \o q)[j] = q[j - Len(fs)]
      BY <1>2, <2>2, <1>3
    <3>2. j - Len(fs) \in 1..Len(s) - 1
      BY <1>2, <1>3, <1>4, <2>2
    <3>3. q[j - Len(fs)] = s[j - Len(fs) + 1]
      BY <3>2, <1>4
    <3>4. j - Len(fs) + 1 \in 2..Len(s)
      BY <3>2, <1>3
    <3>5. QED
      BY <3>1, <3>3, <3>4
  <2>3. QED
    BY <1>2, <1>3, <1>4, <2>1, <2>2
<1>6. QED
  BY <1>5 DEF q
-----------------------------------------------------------------------------
\* A call that has become another one keeps its argument and its run.
LEMMA BecomesIs ==
  ASSUME NEW f \in FrameType, NEW op \in Ops
  PROVE  LET g == [f EXCEPT !.op = op]
         IN  /\ g \in FrameType /\ g.op = op /\ g.n = f.n
             /\ g.own = f.own /\ g.act = f.act
<1> DEFINE g == [f EXCEPT !.op = op]
<1>1. g \in FrameType /\ g.op = op /\ g.n = f.n
  BY DEF FrameType
<1>2. g.own = f.own /\ g.act = f.act
  BY DEF FrameType
<1>3. QED
  BY <1>1, <1>2

\* A notification that has read the counter.
LEMMA ChargeIs ==
  ASSUME NEW f \in FrameType, NEW n \in Nat
  PROVE  LET g == [f EXCEPT !.op = "charge", !.n = n]
         IN  /\ g \in FrameType /\ g.op = "charge"
             /\ g.own = f.own /\ g.act = f.act
<1> DEFINE g == [f EXCEPT !.op = "charge", !.n = n]
<1>1. g \in FrameType /\ g.op = "charge"
  BY DEF FrameType, Ops
<1>2. g.own = f.own /\ g.act = f.act
  BY DEF FrameType
<1>3. QED
  BY <1>1, <1>2

\* A run that goes on to its next step.
LEMMA NextStepIs ==
  ASSUME NEW f \in FrameType
  PROVE  LET g == [f EXCEPT !.i = f.i + 1]
         IN  g \in FrameType /\ g.op = f.op /\ g.n = f.n /\ g.own = f.own
<1> DEFINE g == [f EXCEPT !.i = f.i + 1]
<1>1. g \in FrameType /\ g.op = f.op /\ g.n = f.n
  BY DEF FrameType
<1>2. g.own = f.own
  BY DEF FrameType
<1>3. QED
  BY <1>1, <1>2

\* A frame with another owner.
LEMMA OwnedIs ==
  ASSUME NEW f \in FrameType, NEW own \in BOOLEAN
  PROVE  LET g == [f EXCEPT !.own = own]
         IN  g \in FrameType /\ g.op = f.op /\ g.n = f.n /\ g.own = own
<1> DEFINE g == [f EXCEPT !.own = own]
<1>1. g \in FrameType /\ g.op = f.op /\ g.n = f.n
  BY DEF FrameType
<1>2. g.own = own
  BY DEF FrameType
<1>3. QED
  BY <1>1, <1>2

\* An event of a playbook step.
LEMMA StepEventIs ==
  ASSUME NEW own \in BOOLEAN
  PROVE  LET g == [LogEvent("playbook", TRUE, 0) EXCEPT !.own = own]
         IN  g \in FrameType /\ g.op = "log" /\ g.own = own
<1>1. "log" \in Ops /\ "playbook" \in Acts /\ 0 \in Nat
  BY DEF Ops, Acts
<1>2. LogEvent("playbook", TRUE, 0) \in FrameType
      /\ LogEvent("playbook", TRUE, 0).op = "log"
  BY <1>1, HotFrameIs DEF LogEvent
<1>3. QED
  BY <1>2, OwnedIs

-----------------------------------------------------------------------------
\* The frames t has still to execute, its head replaced by what it calls for.
Pushes(t, fs) ==
    todo[t] # <<>> /\ todo' = [todo EXCEPT ![t] = fs \o Tail(todo[t])]

\* t, which had nothing to do, starts with fs.
Starts(t, fs) == todo[t] = <<>> /\ todo' = [todo EXCEPT ![t] = fs]

\* A frame of a run outside on_event's guard, or of an event that such a run emitted.
Speaks(g) == ~g.own /\ (g.op = "step" \/ (g.act = "playbook" /\ g.op # "done"))

\* What f calls for belongs to the same run, inside or outside the guard.
Keeps(g, f) == (g.own => f.own) /\ (Speaks(g) => Speaks(f))

\* What a frame f calls for when it concerns neither a step of a run nor an
\* approval: the events of a run's steps stay its own, and a line that is read is
\* handled, in H, or about to be logged.
Plain(f, fs, H) ==
    /\ fs \in Stack
    /\ \A k \in 1..Len(fs) : /\ fs[k].op \notin {"save", "resume", "step"}
                             /\ Keeps(fs[k], f)
    /\ f.op \in {"line", "log"} /\ f.n # 0 =>
          \/ f.n \in H
          \/ \E k \in 1..Len(fs) : fs[k].op = "log" /\ fs[k].n = f.n

\* A step f of a run calls for the next one, perhaps after an event.
OnStep(f, fs) ==
    /\ fs \in Stack
    /\ f.op = "step"
    /\ \A k \in 1..Len(fs) : /\ fs[k].op \notin {"save", "resume"}
                             /\ Keeps(fs[k], f)
                             /\ fs[k].op = "step" => k = Len(fs) /\ fs[k].n = f.n

\* on_event starts run r, inside its guard.
NewStep(fs, r) ==
    /\ fs \in Stack /\ Len(fs) = 2
    /\ fs[1].op = "step" /\ fs[1].n = r /\ fs[1].own
    /\ fs[2].op = "done" /\ fs[2].own = FALSE

\* An approved run r goes on, outside the guard.
Resumed(fs, r) ==
    /\ fs \in Stack /\ Len(fs) = 2
    /\ fs[1].op = "step" /\ fs[1].n = r /\ fs[1].own = FALSE
    /\ fs[2].op = "log" /\ fs[2].own = FALSE /\ fs[2].act = "admin"

\* Nothing, one call and two calls.
LEMMA PlainNone ==
  ASSUME NEW f, NEW H, f.op \notin {"line", "log"} \/ f.n \in H
  PROVE  Plain(f, <<>>, H)
BY DEF Plain, Stack

\* A frame replaced by one ordinary frame.
LEMMA PlainOne ==
  ASSUME NEW f, NEW H, NEW g \in FrameType,
         g.op \notin {"save", "resume", "step"}, Keeps(g, f),
         \/ f.op \notin {"line", "log"} \/ f.n \in H
         \/ g.op = "log" /\ g.n = f.n
  PROVE  Plain(f, <<g>>, H)
<1>1. <<g>> \in Stack /\ Len(<<g>>) = 1 /\ <<g>>[1] = g
  BY DEF Stack
<1>2. \A k \in 1..Len(<<g>>) : <<g>>[k] = g
  BY <1>1
<1>3. 1 \in 1..Len(<<g>>)
  BY <1>1
<1>4. QED
  BY <1>1, <1>2, <1>3 DEF Plain

\* A frame replaced by two ordinary frames.
LEMMA PlainTwo ==
  ASSUME NEW f, NEW H, NEW g \in FrameType, NEW h \in FrameType,
         g.op \notin {"save", "resume", "step"}, Keeps(g, f),
         h.op \notin {"save", "resume", "step"}, Keeps(h, f),
         f.op \notin {"line", "log"} \/ f.n \in H \/ f.n = 0
  PROVE  Plain(f, <<g, h>>, H)
<1>1. <<g, h>> \in Stack /\ Len(<<g, h>>) = 2 /\ <<g, h>>[1] = g /\ <<g, h>>[2] = h
  BY DEF Stack
<1>2. \A k \in 1..Len(<<g, h>>) : <<g, h>>[k] = g \/ <<g, h>>[k] = h
  BY <1>1
<1>3. QED
  BY <1>1, <1>2 DEF Plain
-----------------------------------------------------------------------------
\* The frame that is executed.
LEMMA TopIs ==
  ASSUME TodoOk, NEW t \in Threads, NEW op, At(t, op)
  PROVE  /\ todo[t] \in Stack /\ todo[t] # <<>>
         /\ Top(t) \in FrameType /\ Top(t) = todo[t][1] /\ Top(t).op = op
<1>1. todo[t] \in Seq(FrameType) /\ todo[t] # <<>>
  BY DEF TodoOk, Stack, At
<1>2. Head(todo[t]) = todo[t][1] /\ 1 \in 1..Len(todo[t])
  BY <1>1
<1>3. QED
  BY <1>1, <1>2 DEF Top, At, Stack

\* Executing the head frame.
LEMMA ThenPushes ==
  ASSUME TodoOk, NEW t \in Threads, NEW op, At(t, op), NEW fs, Then(t, fs)
  PROVE  Pushes(t, fs)
<1>1. todo[t] # <<>>
  BY TopIs
<1>2. todo \in [Threads -> Stack]
  BY DEF TodoOk
<1>3. QED
  BY <1>1, <1>2 DEF Then, Pushes

\* Replacing the head of a thread's stack by frames keeps the stacks well formed.
LEMMA PushType ==
  ASSUME TodoOk, NEW t \in Threads, NEW fs \in Stack, Pushes(t, fs)
  PROVE  TodoOk'
<1>1. todo[t] \in Seq(FrameType) /\ todo[t] # <<>> /\ fs \in Seq(FrameType)
  BY DEF TodoOk, Pushes, Stack
<1>2. fs \o Tail(todo[t]) \in Stack
  BY <1>1, Pushed DEF Stack
<1>3. QED
  BY <1>2 DEF TodoOk, Pushes
-----------------------------------------------------------------------------
\* A handler that raised ends the poll.
Drops(t) == todo[t] # <<>> /\ todo' = [todo EXCEPT ![t] = <<>>]

\* The last step of run r is done, or a gate has been reached.
Ends(r) ==
    \/ runs' = [runs EXCEPT ![r].status = "done"]
    \/ \E i \in Nat : runs' = [runs EXCEPT ![r].status = "awaiting_approval",
                                           ![r].at = i]

\* The lines a collector has dealt with, or could not store; the other threads
\* read none.
Reached(t) == IF t \in Sources THEN handled' \cup gone' ELSE Nat

\* What was handled or is gone stays so.
Onward == handled \subseteq handled' /\ gone \subseteq gone'

\* Executing the head frame f of t, in one of six ways.
PlainWork(t, f) == \E fs \in Stack :
    Pushes(t, fs) /\ Plain(f, fs, Reached(t)) /\ f.op # "step" /\ runs' = runs
EndWork(t, f) == \E fs \in Stack :
    Pushes(t, fs) /\ Plain(f, fs, Reached(t)) /\ f.op = "step" /\ Ends(f.n)
StepWork(t, f) == \E fs \in Stack :
    Pushes(t, fs) /\ OnStep(f, fs) /\ runs' = runs
RunWork(t, f) == \E fs \in Stack :
    /\ Pushes(t, fs) /\ NewStep(fs, Len(runs) + 1) /\ f.op = "dispatch"
    /\ ~Running(t) /\ runs' = Append(runs, NewRun(f))
ResumeWork(t, f) == \E fs \in Stack :
    /\ Pushes(t, fs) /\ Resumed(fs, f.n) /\ f.op = "resume"
    /\ runs' = [runs EXCEPT ![f.n].status = "running", ![f.n].approved = @ + 1]
DropWork(t) == Drops(t) /\ runs' = runs

WorkKinds(t) ==
    \/ PlainWork(t, Top(t)) \/ EndWork(t, Top(t)) \/ StepWork(t, Top(t))
    \/ RunWork(t, Top(t)) \/ ResumeWork(t, Top(t)) \/ DropWork(t)

\* A frame that is neither a line nor an event nor a step, and calls for nothing.
LEMMA QuietFrame ==
  ASSUME PipeType, NEW t \in Threads, NEW op, At(t, op),
         op \notin {"line", "log", "step"}, Then(t, <<>>), runs' = runs
  PROVE  WorkKinds(t)
<1>1. Top(t).op = op
  BY TopIs DEF PipeType
<1>2. Pushes(t, <<>>) /\ <<>> \in Stack
  BY ThenPushes DEF PipeType, Stack
<1>3. Plain(Top(t), <<>>, Reached(t))
  BY <1>1, PlainNone
<1>4. QED
  BY <1>1, <1>2, <1>3 DEF WorkKinds, PlainWork

\* One that calls for a frame that is no step and no approval.
LEMMA QuietCall ==
  ASSUME PipeType, NEW t \in Threads, NEW op, At(t, op),
         op \notin {"line", "log", "step"}, NEW g \in FrameType,
         g.op \notin {"save", "resume", "step"}, Keeps(g, Top(t)),
         Then(t, <<g>>), runs' = runs
  PROVE  WorkKinds(t)
<1>1. Top(t).op = op
  BY TopIs DEF PipeType
<1>2. Pushes(t, <<g>>) /\ <<g>> \in Stack
  BY ThenPushes DEF PipeType, Stack
<1>3. Plain(Top(t), <<g>>, Reached(t))
  BY <1>1, PlainOne
<1>4. QED
  BY <1>1, <1>2, <1>3 DEF WorkKinds, PlainWork

\* Handling a line is one of the ways a head frame is executed.
LEMMA LineIs ==
  ASSUME PipeType, NEW t \in Threads, HandleLine(t)
  PROVE  WorkKinds(t) /\ Onward
<1> DEFINE f == Top(t)
<1>1. f \in FrameType /\ f.op = "line" /\ At(t, "line") /\ todo[t] # <<>>
  BY TopIs DEF PipeType, HandleLine
<1>2. PICK k \in Kinds[t] :
        \/ /\ k = "raise" /\ todo' = [todo EXCEPT ![t] = <<>>]
           /\ UNCHANGED <<handled, gone>>
        \/ /\ k \in {"hot", "cool"} /\ Then(t, <<LogEvent("line", k = "hot", f.n)>>)
           /\ UNCHANGED <<handled, gone>>
        \/ /\ k = "nothing" /\ Then(t, <<>>)
           /\ handled' = handled \cup {f.n} /\ gone' = gone
        \/ /\ k = "dead" /\ Then(t, <<>>)
           /\ handled' = handled \cup (dlq' \cap {f.n})
           /\ gone' = gone \cup ({f.n} \ dlq')
  BY Zenon DEF HandleLine
<1>3. runs' = runs
  BY DEF HandleLine, Book
<1>5. Onward
  BY <1>2 DEF Onward
<1>6. f.n \in Nat
  BY <1>1 DEF FrameType
<1>7. CASE k = "raise"
  BY <1>1, <1>2, <1>3, <1>5, <1>7 DEF Drops, DropWork, WorkKinds
<1>8. CASE k \in {"hot", "cool"}
  <2> DEFINE g == LogEvent("line", k = "hot", f.n)
  <2>1. Then(t, <<g>>)
    BY <1>2, <1>8
  <2>2. "log" \in Ops /\ "line" \in Acts /\ (k = "hot") \in BOOLEAN
    BY DEF Ops, Acts
  <2>3. g \in FrameType /\ g.op = "log" /\ g.n = f.n /\ g.own = FALSE /\ g.act = "line"
    <3>1. \A b \in BOOLEAN : LET h == Frame("log", "line", b, f.n)
          IN  /\ h \in FrameType /\ h.op = "log" /\ h.n = f.n /\ h.own = FALSE
              /\ h.act = "line"
      <4>1. SUFFICES ASSUME NEW b \in BOOLEAN
                     PROVE  LET h == Frame("log", "line", b, f.n)
                            IN  /\ h \in FrameType /\ h.op = "log"
                                /\ h.n = f.n /\ h.own = FALSE
                                /\ h.act = "line"
        OBVIOUS
      <4>2. QED
        BY <2>2, <1>6 DEF Frame, FrameType
    <3>2. QED
      BY <3>1, <2>2, Zenon DEF LogEvent
  <2> HIDE DEF g
  <2>4. Keeps(g, f)
    BY <2>3 DEF Keeps, Speaks
  <2>5. Plain(f, <<g>>, Reached(t))
    BY <2>3, <2>4, PlainOne
  <2>6. Pushes(t, <<g>>) /\ <<g>> \in Stack
    BY <1>1, <2>1, <2>3, ThenPushes DEF PipeType, Stack
  <2>7. QED
    BY <1>1, <1>3, <1>5, <2>5, <2>6 DEF PlainWork, WorkKinds
<1>9. CASE k \in {"nothing", "dead"}
  <2>1. Then(t, <<>>)
    BY <1>2, <1>9
  <2>2. f.n \in Reached(t)
    BY <1>2, <1>6, <1>9 DEF Reached
  <2>3. Plain(f, <<>>, Reached(t))
    BY <2>2, PlainNone
  <2>4. Pushes(t, <<>>) /\ <<>> \in Stack
    BY <1>1, <2>1, ThenPushes DEF PipeType, Stack
  <2>5. QED
    BY <1>1, <1>3, <1>5, <2>3, <2>4 DEF PlainWork, WorkKinds
<1>10. QED
  BY <1>2, <1>7, <1>8, <1>9

\* log_event: the line is handled or nothing of it is stored, and the hooks, if
\* they are called, keep the event's run.
LEMMA LogIs ==
  ASSUME PipeType, NEW t \in Threads, Log(t)
  PROVE  WorkKinds(t) /\ Onward
<1> DEFINE f == Top(t)
           g == [f EXCEPT !.op = "dispatch"]
           h == [f EXCEPT !.op = "notify"]
<1>1. f \in FrameType /\ f.op = "log" /\ At(t, "log")
  BY TopIs DEF PipeType, Log
<1>2. /\ \/ handled' = handled \cup ({f.n} \ {0}) /\ gone' = gone
         \/ handled' = handled /\ gone' = gone \cup ({f.n} \ {0})
      /\ Then(t, <<g, h>>) \/ Then(t, <<>>)
  BY Zenon DEF Log
<1>3. runs' = runs
  BY DEF Log, Book
<1>4. Onward
  BY <1>2 DEF Onward
<1>5. "dispatch" \in Ops /\ "notify" \in Ops
  BY DEF Ops
<1>6. g \in FrameType /\ g.op = "dispatch" /\ Keeps(g, f)
  <2>1. g \in FrameType /\ g.op = "dispatch" /\ g.own = f.own /\ g.act = f.act
    BY <1>1, <1>5, BecomesIs
  <2> HIDE DEF g
  <2>2. QED
    BY <1>1, <2>1 DEF Keeps, Speaks
<1>7. h \in FrameType /\ h.op = "notify" /\ Keeps(h, f)
  <2>1. h \in FrameType /\ h.op = "notify" /\ h.own = f.own /\ h.act = f.act
    BY <1>1, <1>5, BecomesIs
  <2> HIDE DEF h
  <2>2. QED
    BY <1>1, <2>1 DEF Keeps, Speaks
<1>8. f.n \in Nat
  BY <1>1 DEF FrameType
<1> HIDE DEF g, h
<1>9. f.n \in Reached(t) \/ f.n = 0
  BY <1>2, <1>8 DEF Reached
<1>10. Plain(f, <<g, h>>, Reached(t))
  BY <1>6, <1>7, <1>9, PlainTwo
<1>11. Plain(f, <<>>, Reached(t))
  BY <1>9 DEF Plain, Stack
<1>12. (Pushes(t, <<g, h>>) /\ <<g, h>> \in Stack) \/ (Pushes(t, <<>>) /\ <<>> \in Stack)
  BY <1>1, <1>2, <1>6, <1>7, ThenPushes DEF PipeType, Stack
<1>13. QED
  BY <1>1, <1>3, <1>4, <1>10, <1>11, <1>12 DEF PlainWork, WorkKinds

\* on_event: a run is started when the thread is not inside another one's.
LEMMA DispatchIs ==
  ASSUME PipeType, NEW t \in Threads, Dispatch(t)
  PROVE  WorkKinds(t)
<1> DEFINE f == Top(t)
           g == Step(Len(runs) + 1, 1, TRUE, pb.steps)
           h == Frame("done", "playbook", FALSE, 0)
<1>1. f \in FrameType /\ f.op = "dispatch" /\ At(t, "dispatch")
  BY TopIs DEF PipeType, Dispatch
<1>2. CASE ~Running(t) /\ Matches(f)
  <2>1. runs' = Append(runs, NewRun(f)) /\ Then(t, <<g, h>>)
    BY <1>2 DEF Dispatch
  <2>2. /\ "done" \in Ops /\ "playbook" \in Acts /\ 0 \in Nat /\ pb.steps \in Steps
        /\ Len(runs) + 1 \in Nat /\ 1 \in Nat
    BY DEF Ops, Acts, PipeType, BookOk
  <2>3. h \in FrameType /\ h.op = "done" /\ h.own = FALSE
    BY DoneFrameIs, Zenon
  <2>4. g \in FrameType /\ g.op = "step" /\ g.n = Len(runs) + 1 /\ g.own = TRUE
    <3>1. \A own \in BOOLEAN : LET s == Step(Len(runs) + 1, 1, own, pb.steps)
          IN  s \in FrameType /\ s.op = "step" /\ s.n = Len(runs) + 1 /\ s.own = own
      BY <2>2, StepIs
    <3>2. TRUE \in BOOLEAN
      OBVIOUS
    <3>3. QED
      BY <3>1, <3>2, Zenon
  <2> HIDE DEF g, h
  <2>5. <<g, h>> \in Stack /\ Len(<<g, h>>) = 2 /\ <<g, h>>[1] = g /\ <<g, h>>[2] = h
    BY <2>3, <2>4 DEF Stack
  <2>6. NewStep(<<g, h>>, Len(runs) + 1)
    BY <2>3, <2>4, <2>5 DEF NewStep
  <2>7. Pushes(t, <<g, h>>)
    BY <1>1, <2>1, ThenPushes DEF PipeType
  <2>8. QED
    BY <1>1, <1>2, <2>1, <2>5, <2>6, <2>7 DEF RunWork, WorkKinds
<1>3. CASE ~(~Running(t) /\ Matches(f))
  <2>1. runs' = runs /\ Then(t, <<>>)
    BY <1>3 DEF Dispatch
  <2>2. "dispatch" \notin {"line", "log", "step"}
    OBVIOUS
  <2>3. QED
    BY <1>1, <2>1, <2>2, QuietFrame
<1>4. QED
  BY <1>2, <1>3

\* _execute_steps: the end of a run, a gate, or a step and the next one.
LEMMA ExecuteIs ==
  ASSUME PipeType, NEW t \in Threads, ExecuteStep(t)
  PROVE  WorkKinds(t)
<1> DEFINE f == Top(t)
           next == [f EXCEPT !.i = f.i + 1]
           g == [LogEvent("playbook", TRUE, 0) EXCEPT !.own = f.own]
<1>1. f \in FrameType /\ f.op = "step" /\ At(t, "step")
  BY TopIs DEF PipeType, ExecuteStep
<1>2. next \in FrameType /\ next.op = "step" /\ next.n = f.n /\ next.own = f.own
  BY <1>1, NextStepIs
<1>3. f.own \in BOOLEAN /\ f.i \in Nat
  BY <1>1 DEF FrameType
<1>4. g \in FrameType /\ g.op = "log" /\ g.own = f.own
  BY <1>3, StepEventIs
<1>5. \/ Then(t, <<>>) /\ Ends(f.n)
      \/ Then(t, <<g, next>>) /\ runs' = runs
      \/ Then(t, <<next>>) /\ runs' = runs
  BY <1>3 DEF ExecuteStep, Ends
<1> HIDE DEF g, next
<1>6. CASE Then(t, <<>>) /\ Ends(f.n)
  <2>1. Pushes(t, <<>>) /\ <<>> \in Stack
    BY <1>1, <1>6, ThenPushes DEF PipeType, Stack
  <2>2. Plain(f, <<>>, Reached(t))
    BY <1>1, PlainNone
  <2>3. QED
    BY <1>1, <1>6, <2>1, <2>2 DEF EndWork, WorkKinds
<1>7. CASE Then(t, <<g, next>>) /\ runs' = runs
  <2>1. /\ <<g, next>> \in Stack /\ Len(<<g, next>>) = 2
        /\ <<g, next>>[1] = g /\ <<g, next>>[2] = next
    BY <1>2, <1>4 DEF Stack
  <2>2. \A k \in 1..Len(<<g, next>>) :
          (k = 1 /\ <<g, next>>[k] = g) \/ (k = 2 /\ <<g, next>>[k] = next)
    BY <2>1
  <2>3. Keeps(g, f) /\ Keeps(next, f)
    BY <1>1, <1>2, <1>4 DEF Keeps, Speaks
  <2>4. OnStep(f, <<g, next>>)
    BY <1>1, <1>2, <1>4, <2>1, <2>2, <2>3 DEF OnStep
  <2>5. Pushes(t, <<g, next>>)
    BY <1>1, <1>7, ThenPushes DEF PipeType
  <2>6. QED
    BY <1>7, <2>1, <2>4, <2>5 DEF StepWork, WorkKinds
<1>8. CASE Then(t, <<next>>) /\ runs' = runs
  <2>1. <<next>> \in Stack /\ Len(<<next>>) = 1 /\ <<next>>[1] = next
    BY <1>2 DEF Stack
  <2>2. \A k \in 1..Len(<<next>>) : k = 1 /\ <<next>>[k] = next
    BY <2>1
  <2>3. Keeps(next, f)
    BY <1>1, <1>2 DEF Keeps, Speaks
  <2>4. OnStep(f, <<next>>)
    BY <1>1, <1>2, <2>1, <2>2, <2>3 DEF OnStep
  <2>5. Pushes(t, <<next>>)
    BY <1>1, <1>8, ThenPushes DEF PipeType
  <2>6. QED
    BY <1>8, <2>1, <2>4, <2>5 DEF StepWork, WorkKinds
<1>9. QED
  BY <1>5, <1>6, <1>7, <1>8

\* approve_run, its second statement.
LEMMA ResumeIs ==
  ASSUME PipeType, NEW t \in Threads, ResumeRun(t)
  PROVE  WorkKinds(t)
<1> DEFINE f == Top(t)
           g == Step(f.n, runs[f.n].at + 1, FALSE, pb.steps)
           h == LogEvent("admin", FALSE, 0)
<1>1. f \in FrameType /\ f.op = "resume" /\ At(t, "resume") /\ f = todo[t][1]
      /\ todo[t] \in Seq(FrameType) /\ todo[t] # <<>>
  BY TopIs DEF PipeType, ResumeRun, Stack
<1>2. f.n \in 1..Len(runs)
  BY <1>1 DEF PipeType, KnownRuns, Known
<1>3. runs[f.n].at + 1 \in Nat /\ f.n \in Nat /\ pb.steps \in Steps
  <2>1. runs \in Seq(RunType) /\ pb.steps \in Steps
    BY DEF PipeType, BookOk
  <2>2. runs[f.n] \in RunType
    BY <1>2, <2>1
  <2>3. runs[f.n].at \in Nat
    BY <2>2 DEF RunType
  <2>4. QED
    BY <1>2, <2>1, <2>3
<1>4. /\ runs' = [runs EXCEPT ![f.n].status = "running", ![f.n].approved = @ + 1]
      /\ Then(t, <<g, h>>)
  BY DEF ResumeRun
<1>5. h \in FrameType /\ h.op = "log" /\ h.own = FALSE /\ h.act = "admin"
  <2>1. "log" \in Ops /\ "admin" \in Acts /\ 0 \in Nat
    BY DEF Ops, Acts
  <2>2. QED
    BY <2>1 DEF LogEvent, Frame, FrameType
<1>6. g \in FrameType /\ g.op = "step" /\ g.n = f.n /\ g.own = FALSE
  <2>1. \A own \in BOOLEAN : LET s == Step(f.n, runs[f.n].at + 1, own, pb.steps)
        IN  s \in FrameType /\ s.op = "step" /\ s.n = f.n /\ s.own = own
    BY <1>3, StepIs
  <2>2. FALSE \in BOOLEAN
    OBVIOUS
  <2>3. QED
    BY <2>1, <2>2, Zenon
<1> HIDE DEF g, h
<1>7. <<g, h>> \in Stack /\ Len(<<g, h>>) = 2 /\ <<g, h>>[1] = g /\ <<g, h>>[2] = h
  BY <1>5, <1>6 DEF Stack
<1>8. Resumed(<<g, h>>, f.n)
  BY <1>5, <1>6, <1>7 DEF Resumed
<1>9. Pushes(t, <<g, h>>)
  BY <1>1, <1>4, ThenPushes DEF PipeType
<1>10. QED
  BY <1>1, <1>4, <1>7, <1>8, <1>9 DEF ResumeWork, WorkKinds

\* notify_event up to the counter.
LEMMA NotifyIs ==
  ASSUME PipeType, NEW t \in Threads, Notify(t)
  PROVE  WorkKinds(t)
<1> DEFINE f == Top(t)
           g(n) == [f EXCEPT !.op = "charge", !.n = n]
<1>1. f \in FrameType /\ f.op = "notify" /\ At(t, "notify")
  BY TopIs DEF PipeType, Notify
<1>2. mail.count \in Nat
  BY DEF PipeType, MailOk, MailType
<1>3. ASSUME NEW n \in Nat
      PROVE  g(n) \in FrameType /\ g(n).op = "charge" /\ Keeps(g(n), f)
  <2>1. /\ g(n) \in FrameType /\ g(n).op = "charge"
        /\ g(n).own = f.own /\ g(n).act = f.act
    BY <1>1, ChargeIs
  <2> HIDE DEF g
  <2>2. QED
    BY <1>1, <2>1 DEF Keeps, Speaks
<1>4. (Then(t, <<>>) \/ \E n \in Nat : Then(t, <<g(n)>>)) /\ runs' = runs
  BY <1>2 DEF Notify, Book
<1>5. "notify" \notin {"line", "log", "step"} /\ "charge" \notin {"save", "resume", "step"}
  OBVIOUS
<1> HIDE DEF g
<1>6. QED
  BY <1>1, <1>3, <1>4, <1>5, QuietFrame, QuietCall

\* The rest of notify_event.
LEMMA ChargeKind ==
  ASSUME PipeType, NEW t \in Threads, Charge(t)
  PROVE  WorkKinds(t)
<1> DEFINE h == LogEvent("mail", FALSE, 0)
<1>1. At(t, "charge") /\ (Then(t, <<>>) \/ Then(t, <<h>>)) /\ runs' = runs
  BY DEF Charge, Book
<1>2. h \in FrameType /\ h.op = "log" /\ h.own = FALSE /\ h.act = "mail"
  <2>1. "log" \in Ops /\ "mail" \in Acts /\ 0 \in Nat
    BY DEF Ops, Acts
  <2>2. QED
    BY <2>1 DEF LogEvent, Frame, FrameType
<1>3. "charge" \notin {"line", "log", "step"}
  OBVIOUS
<1> HIDE DEF h
<1>4. Keeps(h, Top(t))
  BY <1>2 DEF Keeps, Speaks
<1>5. QED
  BY <1>1, <1>2, <1>3, <1>4, QuietFrame, QuietCall

\* Every step of a thread is of one of the six kinds, and handles lines only.
LEMMA WorkIs ==
  ASSUME PipeType, NEW t \in Threads, Work(t)
  PROVE  WorkKinds(t) /\ Onward
<1>1. CASE HandleTorn(t)
  <2>1. At(t, "torn") /\ Then(t, <<>>) /\ runs' = runs /\ UNCHANGED <<handled, gone>>
    BY <1>1 DEF HandleTorn, Book, Files
  <2>2. QED
    BY <2>1, QuietFrame DEF Onward
<1>2. CASE SaveOffset(t)
  <2>1. At(t, "save") /\ Then(t, <<>>) /\ runs' = runs /\ UNCHANGED <<handled, gone>>
    BY <1>2 DEF SaveOffset, Book, Files
  <2>2. QED
    BY <2>1, QuietFrame DEF Onward
<1>3. CASE Dispatched(t)
  <2>1. At(t, "done") /\ Then(t, <<>>) /\ runs' = runs /\ UNCHANGED <<handled, gone>>
    BY <1>3 DEF Dispatched, Book, Files
  <2>2. QED
    BY <2>1, QuietFrame DEF Onward
<1>4. CASE ReplayDone(t)
  <2>1. At(t, "replayed") /\ Then(t, <<>>) /\ runs' = runs /\ UNCHANGED <<handled, gone>>
    BY <1>4 DEF ReplayDone, Book, Files
  <2>2. QED
    BY <2>1, QuietFrame DEF Onward
<1>5. CASE Dispatch(t) \/ ExecuteStep(t) \/ Notify(t) \/ Charge(t) \/ ResumeRun(t)
  <2>1. UNCHANGED <<handled, gone>>
    BY <1>5 DEF Dispatch, ExecuteStep, Notify, Charge, ResumeRun, Files
  <2>2. QED
    BY <1>5, <2>1, DispatchIs, ExecuteIs, NotifyIs, ChargeKind, ResumeIs DEF Onward
<1>6. QED
  BY <1>1, <1>2, <1>3, <1>4, <1>5, LineIs, LogIs DEF Work
-----------------------------------------------------------------------------
\* Frames of a request or a daemon that starts.
Fresh(fs) ==
    /\ fs \in Stack
    /\ \A k \in 1..Len(fs) : /\ fs[k].op \notin {"save", "resume", "step"}
                             /\ fs[k].own = FALSE /\ ~Speaks(fs[k])

\* A request that starts, and one that approves run r.
StartWork(t) == \E fs \in Stack : Starts(t, fs) /\ Fresh(fs)
ApproveWork(t) == \E r \in 1..Len(runs) : \E g \in FrameType :
    /\ Starts(t, <<g>>) /\ g.op = "resume" /\ g.n = r /\ g.own = FALSE /\ ~Speaks(g)
    /\ runs[r].status = "awaiting_approval"

\* A poll of the log f from a on: every line is read, unless it is in G, and the
\* offset is saved last.
Polled(f, a, fs, G) ==
    /\ fs \in Stack /\ Len(fs) = Len(f) - a + 1
    /\ \A k \in 1..Len(fs) :
          /\ fs[k].own = FALSE /\ fs[k].op \in {"line", "torn", "save"}
          /\ ~Speaks(fs[k])
          /\ fs[k].op = "save" => k = Len(fs) /\ fs[k].n = Len(f)
    /\ \A p \in a + 1..Len(f) :
          f[p] \in G \/ (fs[p - a].op = "line" /\ fs[p - a].n = f[p])

PollWork(s) == \E fs \in Stack :
    Starts(s, fs) /\ Polled(src[s].file, ReadFrom(s), fs, gone')

\* An idle thread that begins with one ordinary frame starts work.
LEMMA FreshOne ==
  ASSUME PipeType, NEW t \in Threads, NEW g \in FrameType,
         g.op \notin {"save", "resume", "step"}, g.own = FALSE, ~Speaks(g),
         Begin(t, <<g>>)
  PROVE  StartWork(t)
<1>1. <<g>> \in Stack /\ Len(<<g>>) = 1 /\ <<g>>[1] = g
  BY DEF Stack
<1>2. \A k \in 1..Len(<<g>>) : <<g>>[k] = g
  BY <1>1
<1>3. Fresh(<<g>>)
  BY <1>1, <1>2 DEF Fresh
<1>4. QED
  BY <1>1, <1>3 DEF Begin, Starts, StartWork

\* The frames of a poll.
LEMMA PollShape ==
  ASSUME NEW f \in Seq(Nat \ {0}), NEW a \in Nat, NEW b \in Nat, b > 0,
         Len(f) = a + b,
         NEW work \in Seq(FrameType), Len(work) = b,
         \A k \in 1..b : /\ work[k].own = FALSE /\ work[k].n = f[a + k]
                         /\ ~Speaks(work[k])
                         /\ work[k].op \in {"line", "torn"},
         NEW G, \A k \in 1..b : work[k].op = "line" \/ f[a + k] \in G,
         NEW save \in FrameType, save.op = "save", save.n = Len(f), save.own = FALSE,
         ~Speaks(save)
  PROVE  Polled(f, a, Append(work, save), G)
<1> DEFINE fs == Append(work, save)
<1>1. /\ fs \in Stack /\ Len(fs) = b + 1 /\ fs[b + 1] = save
      /\ \A k \in 1..b : fs[k] = work[k]
  BY DEF Stack
<1> HIDE DEF fs
<1>2. \A k \in 1..Len(fs) : k = Len(fs) \/ k \in 1..b
  BY <1>1
<1>3. \A p \in a + 1..Len(f) : p - a \in 1..b /\ a + (p - a) = p
  OBVIOUS
<1>4. ASSUME NEW p \in a + 1..Len(f)
      PROVE  f[p] \in G \/ (fs[p - a].op = "line" /\ fs[p - a].n = f[p])
  BY <1>1, <1>3
<1>5. ASSUME NEW k \in 1..Len(fs)
      PROVE  /\ fs[k].own = FALSE /\ fs[k].op \in {"line", "torn", "save"}
             /\ ~Speaks(fs[k])
             /\ fs[k].op = "save" => k = Len(fs) /\ fs[k].n = Len(f)
  BY <1>1, <1>2
<1>6. Polled(f, a, fs, G)
  <2>1. Len(fs) = Len(f) - a + 1
    BY <1>1
  <2>2. QED
    BY <1>1, <1>4, <1>5, <2>1, Zenon DEF Polled
<1>7. QED
  BY <1>6 DEF fs

\* The rest of a file from an offset on.
LEMMA Batch ==
  ASSUME NEW Any, NEW f \in Seq(Any), NEW a \in Nat, a < Len(f)
  PROVE  /\ SubSeq(f, a + 1, Len(f)) \in Seq(Any)
         /\ Len(SubSeq(f, a + 1, Len(f))) = Len(f) - a
         /\ \A k \in 1..Len(f) - a : SubSeq(f, a + 1, Len(f))[k] = f[a + k]
<1>1. Len(f) \in Nat /\ a + 1 \in Int /\ Len(f) - (a + 1) + 1 = Len(f) - a /\ a + 1 =< Len(f)
  OBVIOUS
<1>2. \A i \in a + 1..Len(f) : f[i] \in Any
  <2>1. \A i \in 1..Len(f) : f[i] \in Any
    OBVIOUS
  <2>2. \A i \in a + 1..Len(f) : i \in 1..Len(f)
    BY <1>1
  <2>3. QED
    BY <2>1, <2>2
<1> DEFINE g == SubSeq(f, a + 1, Len(f))
<1>3. /\ g \in Seq(Any) /\ Len(g) = (IF a + 1 <= Len(f) THEN Len(f) - (a + 1) + 1 ELSE 0)
      /\ \A i \in 1..Len(f) - (a + 1) + 1 : g[i] = f[a + 1 + i - 1]
  BY <1>1, <1>2, SubSeqProperties
<1> HIDE DEF g
<1>4. \A k \in 1..Len(f) - a : a + 1 + k - 1 = a + k
  BY <1>1
<1>5. \A k \in 1..Len(f) - a : g[k] = f[a + k]
  BY <1>1, <1>3, <1>4
<1>6. g \in Seq(Any) /\ Len(g) = Len(f) - a
  BY <1>1, <1>3
<1>7. QED
  BY <1>5, <1>6 DEF g

\* _tail_file.
LEMMA PollIs ==
  ASSUME PipeType, NEW s \in Sources, TailFile(s)
  PROVE  PollWork(s)
<1> DEFINE f == src[s].file
           a == ReadFrom(s)
           b == Len(f) - a
           batch == SubSeq(f, a + 1, Len(f))
           work(op) == [k \in DOMAIN batch |->
                          Frame(IF k = Len(batch) THEN op ELSE "line", "line",
                                FALSE, batch[k])]
           save == Frame("save", "line", FALSE, Len(f))
<1>1. src[s] \in SourceType
  BY DEF PipeType, FilesOk
<1>2. f \in Seq(Nat \ {0}) /\ a \in Nat /\ a =< Len(f)
  BY <1>1 DEF SourceType, ReadFrom
<1>3. batch # <<>>
  BY DEF TailFile
<1>4. /\ \/ Begin(s, Append(work("line"), save)) /\ UNCHANGED gone
         \/ /\ Quiet /\ todo' = [todo EXCEPT ![s] = Append(work("torn"), save)]
            /\ gone' = gone \cup {batch[Len(batch)]}
  BY DEF TailFile
<1> HIDE DEF a
<1>5. /\ b \in Nat /\ b > 0 /\ Len(f) = a + b /\ Len(batch) = b
      /\ DOMAIN batch = 1..b /\ \A k \in 1..b : batch[k] = f[a + k]
      /\ \A k \in 1..b : a + k \in 1..Len(f)
  <2>1. Len(f) \in Nat
    BY <1>2
  <2>2. CASE a = Len(f)
    <3>1. batch = <<>>
      BY <1>2, <2>1, <2>2
    <3>2. QED
      BY <1>3, <3>1
  <2>3. CASE a < Len(f)
    <3>1. /\ Len(batch) = b /\ batch \in Seq(Nat \ {0})
          /\ \A k \in 1..b : batch[k] = f[a + k]
      BY <1>2, <2>3, Batch
    <3>2. b \in Nat /\ b > 0 /\ Len(f) = a + b
      BY <1>2, <2>1, <2>3
    <3>3. \A k \in 1..b : a + k \in 1..Len(f)
      BY <1>2, <3>2
    <3>4. DOMAIN batch = 1..b
      BY <3>1, <3>2
    <3>5. QED
      BY <3>1, <3>2, <3>3, <3>4
  <2>4. a = Len(f) \/ a < Len(f)
    BY <1>2, <2>1
  <2>5. QED
    BY <2>2, <2>3, <2>4
<1> HIDE DEF f, b, batch
<1>6. save \in FrameType /\ save.op = "save" /\ save.n = Len(f) /\ save.own = FALSE
      /\ ~Speaks(save)
  <2>1. "save" \in Ops /\ "line" \in Acts /\ Len(f) \in Nat
    BY <1>2 DEF Ops, Acts
  <2>2. save \in FrameType /\ save.op = "save" /\ save.n = Len(f) /\ save.own = FALSE
        /\ save.act = "line"
    BY <2>1 DEF Frame, FrameType
  <2> HIDE DEF save
  <2>3. QED
    BY <2>2 DEF Speaks
<1>7. ASSUME NEW op \in {"line", "torn"}
      PROVE  /\ work(op) \in Seq(FrameType) /\ Len(work(op)) = b
             /\ \A k \in 1..b :
                   /\ work(op)[k].own = FALSE /\ work(op)[k].n = f[a + k]
                   /\ ~Speaks(work(op)[k])
                   /\ work(op)[k].op = IF k = b THEN op ELSE "line"
  <2>1. ASSUME NEW k \in 1..b, NEW o \in {"line", "torn"}
        PROVE  LET g == Frame(o, "line", FALSE, batch[k])
               IN  /\ g \in FrameType /\ g.own = FALSE /\ g.n = f[a + k]
                   /\ g.op = o /\ ~Speaks(g)
    <3>1. o \in Ops /\ "line" \in Acts /\ batch[k] = f[a + k] /\ f[a + k] \in Nat
      BY <1>2, <1>5 DEF Ops, Acts
    <3>2. LET g == Frame(o, "line", FALSE, f[a + k])
          IN  /\ g \in FrameType /\ g.own = FALSE /\ g.n = f[a + k] /\ g.op = o
              /\ g.act = "line"
      BY <3>1 DEF Frame, FrameType
    <3>3. ~Speaks(Frame(o, "line", FALSE, f[a + k]))
      BY <3>2, o # "step", Zenon DEF Speaks
    <3>4. QED
      BY <3>1, <3>2, <3>3, Zenon
  <2>2. \A k \in 1..b :
          LET g == Frame(IF k = b THEN op ELSE "line", "line", FALSE, batch[k])
          IN  /\ g \in FrameType /\ g.own = FALSE /\ g.n = f[a + k]
              /\ g.op = (IF k = b THEN op ELSE "line") /\ ~Speaks(g)
    <3>1. ASSUME NEW k \in 1..b
          PROVE  LET g == Frame(IF k = b THEN op ELSE "line", "line", FALSE, batch[k])
                 IN  /\ g \in FrameType /\ g.own = FALSE /\ g.n = f[a + k]
                     /\ g.op = (IF k = b THEN op ELSE "line") /\ ~Speaks(g)
      <4>1. (IF k = b THEN op ELSE "line") \in {"line", "torn"}
        OBVIOUS
      <4>2. QED
        BY <2>1, <4>1
    <3>2. QED
      BY <3>1
  <2>3. work(op) = [k \in 1..b |-> Frame(IF k = b THEN op ELSE "line", "line",
                                         FALSE, batch[k])]
    BY <1>5
  <2>4. work(op) \in [1..b -> FrameType]
    BY <2>2, <2>3
  <2> HIDE DEF work
  <2>5. work(op) \in Seq(FrameType) /\ Len(work(op)) = b
    BY <1>5, <2>4
  <2>6. \A k \in 1..b : work(op)[k] = Frame(IF k = b THEN op ELSE "line", "line",
                                            FALSE, batch[k])
    BY <2>3
  <2>7. QED
    BY <2>2, <2>5, <2>6
<1>8. todo[s] = <<>>
  <2>1. s \in Threads
    BY DEF Threads
  <2>2. QED
    BY <1>4, <2>1 DEF Begin, Quiet
<1> HIDE DEF work, save
<1>9. CASE Begin(s, Append(work("line"), save)) /\ UNCHANGED gone
  <2>1. \A k \in 1..b : work("line")[k].op = "line"
    BY <1>7
  <2>2. Polled(f, a, Append(work("line"), save), gone')
    BY <1>2, <1>5, <1>6, <1>7, <2>1, PollShape
  <2>3. Append(work("line"), save) \in Stack
    BY <2>2 DEF Polled
  <2>4. Starts(s, Append(work("line"), save))
    BY <1>8, <1>9 DEF Begin, Starts
  <2>5. QED
    BY <2>2, <2>3, <2>4 DEF PollWork, a, f
<1>10. CASE /\ Quiet /\ todo' = [todo EXCEPT ![s] = Append(work("torn"), save)]
            /\ gone' = gone \cup {batch[Len(batch)]}
  <2>1. f[a + b] \in gone'
    BY <1>5, <1>10
  <2>2. \A k \in 1..b : work("torn")[k].op = "line" \/ f[a + k] \in gone'
    BY <1>7, <2>1
  <2>3. \A k \in 1..b : work("torn")[k].op \in {"line", "torn"}
    BY <1>7
  <2>4. Polled(f, a, Append(work("torn"), save), gone')
    BY <1>2, <1>5, <1>6, <1>7, <2>2, <2>3, PollShape
  <2>5. Append(work("torn"), save) \in Stack
    BY <2>4 DEF Polled
  <2>6. Starts(s, Append(work("torn"), save))
    BY <1>8, <1>10 DEF Starts
  <2>7. QED
    BY <2>4, <2>5, <2>6 DEF PollWork, a, f
<1>11. QED
  BY <1>4, <1>9, <1>10
-----------------------------------------------------------------------------
\* An event that a request or a daemon logs.
LEMMA LogEventIs ==
  ASSUME NEW act \in Acts \ {"playbook"}, NEW hot \in BOOLEAN
  PROVE  /\ LogEvent(act, hot, 0) \in FrameType
         /\ LogEvent(act, hot, 0).op = "log" /\ LogEvent(act, hot, 0).own = FALSE
         /\ LogEvent(act, hot, 0).act = act
<1>1. "log" \in Ops
  BY DEF Ops
<1>2. QED
  BY <1>1 DEF LogEvent, Frame, FrameType

\* So does one that begins with an event to log.
LEMMA BeginsEvent ==
  ASSUME PipeType, NEW t \in Threads, NEW act \in Acts \ {"playbook"},
         NEW hot \in BOOLEAN, Begin(t, <<LogEvent(act, hot, 0)>>)
  PROVE  StartWork(t)
<1> DEFINE g == LogEvent(act, hot, 0)
<1>1. g \in FrameType /\ g.op = "log" /\ g.own = FALSE /\ g.act = act
  BY LogEventIs
<1>2. Begin(t, <<g>>)
  OBVIOUS
<1> HIDE DEF g
<1>3. ~Speaks(g)
  BY <1>1 DEF Speaks
<1>4. QED
  BY <1>1, <1>2, <1>3, FreshOne

\* The stream consumer starts work or leaves the stacks alone.
LEMMA StreamIs ==
  ASSUME PipeType, Stream
  PROVE  todo' = todo \/ StartWork("stream")
<1>1. "stream" \in Threads /\ "line" \in Acts \ {"playbook"}
  BY DEF Threads, Acts
<1>2. PICK k \in Streamed \ {Nothing} :
        IF k = Unparsed THEN UNCHANGED todo
        ELSE Begin("stream", <<LogEvent("line", k = "hot", 0)>>)
  BY DEF Stream
<1>3. \A hot \in BOOLEAN : Begin("stream", <<LogEvent("line", hot, 0)>>) =>
        StartWork("stream")
  BY <1>1, BeginsEvent
<1>4. (k = "hot") \in BOOLEAN
  OBVIOUS
<1>5. QED
  BY <1>2, <1>3, <1>4, Zenon

\* Replaying a dead letter starts work.
LEMMA ReplayIs ==
  ASSUME PipeType, NEW o \in Operators, ReplayDeadLetter(o)
  PROVE  StartWork(o)
<1> DEFINE g == LogEvent("line", FALSE, 0)
           h == Frame("replayed", "line", FALSE, 0)
           fs == <<g, h>>
<1>1. "log" \in Ops /\ "replayed" \in Ops /\ "line" \in Acts /\ 0 \in Nat
  BY DEF Ops, Acts
<1>2. g \in FrameType /\ g.op = "log" /\ g.own = FALSE /\ g.act = "line"
  BY <1>1 DEF LogEvent, Frame, FrameType
<1>3. h \in FrameType /\ h.op = "replayed" /\ h.own = FALSE /\ h.act = "line"
  BY <1>1 DEF Frame, FrameType
<1>4. Begin(o, fs)
  BY DEF ReplayDeadLetter
<1> HIDE DEF g, h
<1>s. ~Speaks(g) /\ ~Speaks(h)
  BY <1>2, <1>3 DEF Speaks
<1>5. fs \in Stack /\ Len(fs) = 2 /\ fs[1] = g /\ fs[2] = h
  BY <1>2, <1>3 DEF Stack
<1> HIDE DEF fs
<1>6. \A k \in 1..Len(fs) : fs[k] = g \/ fs[k] = h
  BY <1>5
<1>7. Fresh(fs)
  BY <1>2, <1>3, <1>s, <1>5, <1>6 DEF Fresh
<1>8. QED
  BY <1>4, <1>5, <1>7 DEF Begin, Starts, StartWork

\* Approving a run starts the work of resuming it.
LEMMA ApproveIs ==
  ASSUME PipeType, NEW o \in Operators, ApproveRun(o)
  PROVE  ApproveWork(o)
<1>1. PICK r \in DOMAIN runs : /\ runs[r].status = "awaiting_approval"
                               /\ Begin(o, <<Frame("resume", "admin", FALSE, r)>>)
  BY DEF ApproveRun
<1> DEFINE g == Frame("resume", "admin", FALSE, r)
<1>2. r \in 1..Len(runs) /\ r \in Nat
  BY DEF PipeType, BookOk
<1>3. "resume" \in Ops /\ "admin" \in Acts
  BY DEF Ops, Acts
<1>4. g \in FrameType /\ g.op = "resume" /\ g.n = r /\ g.own = FALSE /\ g.act = "admin"
  BY <1>2, <1>3 DEF Frame, FrameType
<1>5. Starts(o, <<g>>)
  BY <1>1 DEF Begin, Starts
<1> HIDE DEF g
<1>6. ~Speaks(g)
  BY <1>4 DEF Speaks
<1>7. QED
  BY <1>1, <1>2, <1>4, <1>5, <1>6 DEF ApproveWork

\* Steps in which no frame is executed.
Aside ==
    /\ runs' = runs /\ handled' = handled
    /\ \/ /\ src' = src /\ gone' = gone
          /\ \/ todo' = todo
             \/ \E t \in Threads : StartWork(t) \/ ApproveWork(t)
             \/ HourCounter
       \/ \E s \in Sources : Append1(s) \/ Rotate(s)
       \/ \E s \in Sources : PollWork(s) /\ src' = src /\ gone \subseteq gone'
       \/ Restart

\* Every step is the work of one thread or a step aside from the stacks.
LEMMA NextIs ==
  ASSUME PipeType, [Next]_vars
  PROVE  Aside \/ \E t \in Threads : Work(t)
<1>1. /\ Sources \subseteq Threads /\ Operators \subseteq Threads
      /\ "engine" \in Threads /\ "stream" \in Threads /\ "mailer" \in Threads
  BY DEF Threads
<1>2. {"admin", "mail", "match"} \subseteq Acts \ {"playbook"}
  BY DEF Acts
<1>3. \A t \in Threads : \A act \in Acts \ {"playbook"} :
        /\ Begin(t, <<LogEvent(act, FALSE, 0)>>) => StartWork(t)
        /\ Begin(t, <<LogEvent(act, TRUE, 0)>>) => StartWork(t)
  <2>1. \A t \in Threads : \A act \in Acts \ {"playbook"} : \A hot \in BOOLEAN :
          Begin(t, <<LogEvent(act, hot, 0)>>) => StartWork(t)
    BY BeginsEvent
  <2>2. TRUE \in BOOLEAN /\ FALSE \in BOOLEAN
    OBVIOUS
  <2>3. QED
    BY <2>1, <2>2, Zenon
<1>4. CASE UNCHANGED vars
  BY <1>4 DEF vars, Aside
<1>5. ASSUME NEW s \in Sources, Append1(s) \/ Rotate(s) \/ TailFile(s) PROVE Aside
  <2>1. runs' = runs /\ handled' = handled
    BY <1>5 DEF Append1, Rotate, TailFile, Book
  <2>2. CASE Append1(s) \/ Rotate(s)
    BY <2>1, <2>2 DEF Aside
  <2>3. CASE TailFile(s)
    <3>1. PollWork(s)
      BY <2>3, PollIs
    <3>2. src' = src
      BY <2>3 DEF TailFile
    <3>3. gone' = gone \/ \E x : gone' = gone \cup {x}
      BY <2>3 DEF TailFile
    <3>4. QED
      BY <2>1, <3>1, <3>2, <3>3 DEF Aside
  <2>4. QED
    BY <1>5, <2>2, <2>3
<1>6. ASSUME NEW o \in Operators,
             \/ ReplayDeadLetter(o) \/ ApproveRun(o) \/ UpsertPlaybook(o)
             \/ LogForwardingSettings(o)
      PROVE  Aside
  <2>1. runs' = runs /\ handled' = handled /\ src' = src /\ gone' = gone
    BY <1>6 DEF ReplayDeadLetter, ApproveRun, UpsertPlaybook, LogForwardingSettings,
                Book, Files
  <2>2. CASE UpsertPlaybook(o) \/ LogForwardingSettings(o)
    <3>1. Begin(o, <<LogEvent("admin", FALSE, 0)>>)
      BY <2>2 DEF UpsertPlaybook, LogForwardingSettings
    <3>2. StartWork(o)
      BY <1>1, <1>2, <1>3, <3>1, Zenon
    <3>3. QED
      BY <1>1, <2>1, <3>2 DEF Aside
  <2>3. QED
    BY <1>1, <1>6, <2>1, <2>2, ReplayIs, ApproveIs DEF Aside
<1>7. CASE Stream
  <2>1. runs' = runs /\ handled' = handled /\ src' = src /\ gone' = gone
    BY <1>7 DEF Stream, Book, Files
  <2>2. QED
    BY <1>1, <1>7, <2>1, StreamIs DEF Aside
<1>8. CASE PurgeDeadLetter \/ FlushDigest \/ SaveMailConfig \/ TimePasses \/ PruneOnce
           \/ ForwardTick \/ ForwardSave
  <2>1. runs' = runs /\ handled' = handled /\ src' = src /\ gone' = gone /\ todo' = todo
    BY <1>8 DEF PurgeDeadLetter, FlushDigest, SaveMailConfig, TimePasses, PruneOnce,
                ForwardTick, ForwardSave, Book, Files
  <2>2. QED
    BY <2>1 DEF Aside
<1>9. CASE HourCounter
  <2>1. runs' = runs /\ handled' = handled /\ src' = src /\ gone' = gone
    BY <1>9 DEF HourCounter, Book, Files
  <2>2. QED
    BY <1>9, <2>1 DEF Aside
<1>10. CASE Restart
  <2>1. runs' = runs /\ handled' = handled
    BY <1>10 DEF Restart, Book
  <2>2. QED
    BY <1>10, <2>1 DEF Aside
<1>11. CASE Deliver
  <2>1. runs' = runs /\ handled' = handled /\ src' = src /\ gone' = gone
    BY <1>11 DEF Deliver, Book, Files
  <2>2. todo' = todo \/ Begin("mailer", <<LogEvent("mail", TRUE, 0)>>)
    BY <1>11 DEF Deliver
  <2>3. todo' = todo \/ StartWork("mailer")
    BY <1>1, <1>2, <1>3, <2>2, Zenon
  <2>4. QED
    BY <1>1, <2>1, <2>3 DEF Aside
<1>12. CASE Evaluate
  <2>1. runs' = runs /\ handled' = handled /\ src' = src /\ gone' = gone
    BY <1>12 DEF Evaluate, Book, Files
  <2>2. Begin("engine", <<LogEvent("match", TRUE, 0)>>)
    BY <1>12 DEF Evaluate
  <2>3. StartWork("engine")
    BY <1>1, <1>2, <1>3, <2>2, Zenon
  <2>4. QED
    BY <1>1, <2>1, <2>3 DEF Aside
<1>13. QED
  BY <1>4, <1>5, <1>6, <1>7, <1>8, <1>9, <1>10, <1>11, <1>12 DEF Next
-----------------------------------------------------------------------------
\* Frames of known runs on top of a stack of known runs.
LEMMA KnownPush ==
  ASSUME NEW q \in Stack, q # <<>>, NEW fs \in Stack, NEW n \in Nat, NEW m \in Nat,
         n =< m, Known(q, n), Known(fs, m)
  PROVE  Known(fs \o Tail(q), m)
<1> DEFINE p == fs \o Tail(q)
<1>1. q \in Seq(FrameType) /\ fs \in Seq(FrameType)
  BY DEF Stack
<1>2. /\ \A j \in 1..Len(fs) : p[j] = fs[j]
      /\ \A j \in 1..Len(p) : j > Len(fs) => /\ p[j] = q[j - Len(fs) + 1]
                                             /\ j - Len(fs) + 1 \in 2..Len(q)
      /\ Len(p) \in Nat /\ Len(fs) \in Nat /\ Len(q) \in Nat
  BY <1>1, Pushed
<1> HIDE DEF p
<1>3. ASSUME NEW k \in 1..Len(p), p[k].op \in {"step", "resume"} PROVE p[k].n \in 1..m
  <2>1. CASE k =< Len(fs)
    <3>1. k \in 1..Len(fs)
      BY <1>2, <2>1
    <3>2. QED
      BY <1>2, <1>3, <3>1 DEF Known
  <2>2. CASE k > Len(fs)
    <3> DEFINE j == k - Len(fs) + 1
    <3>1. p[k] = q[j] /\ j \in 2..Len(q)
      BY <1>2, <2>2
    <3>2. j \in 1..Len(q)
      BY <1>2, <3>1
    <3> HIDE DEF j
    <3>3. q[j].n \in 1..n
      BY <1>3, <3>1, <3>2 DEF Known
    <3>4. QED
      BY <3>1, <3>3
  <2>3. QED
    BY <1>2, <2>1, <2>2
<1>4. Known(p, m)
  BY <1>3 DEF Known
<1>5. QED
  BY <1>4 DEF p

\* No run and no frame of one.
LEMMA KnownNone ==
  ASSUME NEW m
  PROVE  Known(<<>>, m)
BY DEF Known

\* A status or a count of one run changes: the runs keep their number.
LEMMA RunsAre ==
  ASSUME PipeType, NEW r \in 1..Len(runs), Ends(r) \/
         runs' = [runs EXCEPT ![r].status = "running", ![r].approved = @ + 1]
  PROVE  /\ runs' \in Seq(RunType) /\ Len(runs') = Len(runs)
         /\ \A s \in 1..Len(runs) : s # r => runs'[s] = runs[s]
         /\ runs'[r].cause = runs[r].cause
<1>1. runs \in Seq(RunType) /\ runs[r] \in RunType /\ DOMAIN runs = 1..Len(runs)
      /\ Len(runs) \in Nat
  BY DEF PipeType, BookOk
<1>2. ASSUME NEW x \in RunType, runs' = [runs EXCEPT ![r] = x], x.cause = runs[r].cause
      PROVE  /\ runs' \in Seq(RunType) /\ Len(runs') = Len(runs)
             /\ \A s \in 1..Len(runs) : s # r => runs'[s] = runs[s]
             /\ runs'[r].cause = runs[r].cause
  BY <1>1, <1>2
<1>3. CASE runs' = [runs EXCEPT ![r].status = "done"]
  <2> DEFINE x == [runs[r] EXCEPT !.status = "done"]
  <2>1. x \in RunType /\ x.cause = runs[r].cause
    BY <1>1 DEF RunType
  <2>2. runs' = [runs EXCEPT ![r] = x]
    BY <1>3
  <2> HIDE DEF x
  <2>3. QED
    BY <1>2, <2>1, <2>2
<1>4. ASSUME NEW i \in Nat,
             runs' = [runs EXCEPT ![r].status = "awaiting_approval", ![r].at = i]
      PROVE  /\ runs' \in Seq(RunType) /\ Len(runs') = Len(runs)
             /\ \A s \in 1..Len(runs) : s # r => runs'[s] = runs[s]
             /\ runs'[r].cause = runs[r].cause
  <2> DEFINE x == [runs[r] EXCEPT !.status = "awaiting_approval", !.at = i]
  <2>1. x \in RunType /\ x.cause = runs[r].cause
    BY <1>1 DEF RunType
  <2>2. runs' = [runs EXCEPT ![r] = x]
    BY <1>1, <1>4
  <2> HIDE DEF x
  <2>3. QED
    BY <1>2, <2>1, <2>2
<1>5. CASE runs' = [runs EXCEPT ![r].status = "running", ![r].approved = @ + 1]
  <2> DEFINE y == [runs EXCEPT ![r].status = "running"]
             x == [y[r] EXCEPT !.approved = @ + 1]
  <2>1. y[r] \in RunType /\ y[r].cause = runs[r].cause
    BY <1>1 DEF RunType
  <2>2. runs' = [y EXCEPT ![r].approved = @ + 1]
    BY <1>5
  <2>3. \A z : [y EXCEPT ![r] = z] = [runs EXCEPT ![r] = z]
    BY <1>1
  <2> HIDE DEF y
  <2>4. x \in RunType /\ x.cause = runs[r].cause
    BY <2>1 DEF RunType
  <2>5. runs' = [y EXCEPT ![r] = x]
    BY <2>2
  <2> HIDE DEF x
  <2>6. QED
    BY <1>2, <2>3, <2>4, <2>5
<1>6. QED
  BY <1>3, <1>4, <1>5 DEF Ends

\* A run that ends keeps its count of approvals.
LEMMA EndsIs ==
  ASSUME PipeType, NEW r \in 1..Len(runs), Ends(r)
  PROVE  runs'[r].approved = runs[r].approved
<1>1. runs \in Seq(RunType) /\ runs[r] \in RunType /\ r \in DOMAIN runs
  BY DEF PipeType, BookOk
<1>2. ASSUME runs' = [runs EXCEPT ![r].status = "done"]
      PROVE  runs'[r].approved = runs[r].approved
  BY <1>1, <1>2 DEF RunType
<1>3. ASSUME NEW i \in Nat,
             runs' = [runs EXCEPT ![r].status = "awaiting_approval", ![r].at = i]
      PROVE  runs'[r].approved = runs[r].approved
  <2>1. runs'[r] = [runs[r] EXCEPT !.status = "awaiting_approval", !.at = i]
    BY <1>1, <1>3
  <2>2. QED
    BY <1>1, <2>1 DEF RunType
<1>4. QED
  BY <1>2, <1>3 DEF Ends

\* A run that is resumed is running, approved once more.
LEMMA ResumesIs ==
  ASSUME PipeType, NEW r \in 1..Len(runs),
         runs' = [runs EXCEPT ![r].status = "running", ![r].approved = @ + 1]
  PROVE  runs'[r].status = "running" /\ runs'[r].approved = runs[r].approved + 1
<1> DEFINE y == [runs EXCEPT ![r].status = "running"]
<1>1. runs \in Seq(RunType) /\ runs[r] \in RunType /\ r \in DOMAIN runs
  BY DEF PipeType, BookOk
<1>2. /\ y[r] \in RunType /\ r \in DOMAIN y
      /\ y[r].status = "running" /\ y[r].approved = runs[r].approved
  BY <1>1 DEF RunType
<1>3. runs' = [y EXCEPT ![r].approved = @ + 1]
  OBVIOUS
<1> HIDE DEF y
<1>4. runs'[r] = [y[r] EXCEPT !.approved = @ + 1]
  BY <1>2, <1>3
<1>5. QED
  BY <1>2, <1>4 DEF RunType

\* A run that on_event starts.
LEMMA NewRunIs ==
  ASSUME NEW f \in FrameType
  PROVE  /\ NewRun(f) \in RunType /\ NewRun(f).approved = 0
         /\ NewRun(f).status = "running"
         /\ NewRun(f).cause = "own" => f.own
<1>1. NewRun(f) \in RunType /\ NewRun(f).approved = 0 /\ NewRun(f).status = "running"
  BY DEF NewRun, RunType
<1>2. NewRun(f).cause = "own" => f.own
  BY DEF NewRun
<1>3. QED
  BY <1>1, <1>2
-----------------------------------------------------------------------------
\* One thread's frames change and stay known.
LEMMA KnownStays ==
  ASSUME TodoOk, KnownRuns, runs \in Seq(RunType), runs' \in Seq(RunType),
         Len(runs) =< Len(runs'), NEW t \in Threads, NEW q \in Stack,
         todo' = [todo EXCEPT ![t] = q], Known(q, Len(runs'))
  PROVE  TodoOk' /\ KnownRuns'
<1>1. todo \in [Threads -> Stack]
  BY DEF TodoOk
<1>2. TodoOk'
  BY <1>1 DEF TodoOk
<1>3. ASSUME NEW u \in Threads PROVE Known(todo'[u], Len(runs'))
  <2>1. CASE u = t
    BY <1>1, <2>1
  <2>2. CASE u # t
    <3>1. todo'[u] = todo[u] /\ Known(todo[u], Len(runs))
      BY <1>1, <2>2 DEF KnownRuns
    <3>2. Len(runs) \in Nat /\ Len(runs') \in Nat
      OBVIOUS
    <3>3. Known(todo[u], Len(runs'))
      BY <3>1, <3>2 DEF Known
    <3>4. QED
      BY <3>1, <3>3
  <2>3. QED
    BY <2>1, <2>2
<1>4. QED
  BY <1>2, <1>3 DEF KnownRuns

\* The frames of every thread stay those of known runs.
LEMMA KnownPushes ==
  ASSUME TodoOk, KnownRuns, runs \in Seq(RunType), runs' \in Seq(RunType),
         Len(runs) =< Len(runs'), NEW t \in Threads, NEW fs \in Stack,
         Pushes(t, fs), Known(fs, Len(runs'))
  PROVE  TodoOk' /\ KnownRuns'
<1>1. todo[t] \in Stack /\ todo[t] # <<>> /\ Known(todo[t], Len(runs))
      /\ Len(runs) \in Nat /\ Len(runs') \in Nat
  BY DEF TodoOk, KnownRuns, Pushes
<1>2. Known(fs \o Tail(todo[t]), Len(runs'))
  BY <1>1, KnownPush
<1>3. fs \o Tail(todo[t]) \in Stack
  BY <1>1, Pushed DEF Stack
<1>4. QED
  BY <1>2, <1>3, KnownStays DEF Pushes

\* The work of a thread keeps the stacks and the runs well formed.
LEMMA WorkTypes ==
  ASSUME PipeType, NEW t \in Threads, Work(t)
  PROVE  TodoOk' /\ KnownRuns' /\ runs' \in Seq(RunType)
<1> DEFINE f == Top(t)
<1>1. /\ TodoOk /\ KnownRuns /\ runs \in Seq(RunType) /\ Len(runs) \in Nat
      /\ Len(runs) =< Len(runs)
  BY DEF PipeType, BookOk
<1>2. /\ todo[t] \in Seq(FrameType)
      /\ todo[t] # <<>> => f \in FrameType /\ f = todo[t][1] /\ 1 \in 1..Len(todo[t])
  BY <1>1 DEF TodoOk, Stack, Top
<1>3. todo[t] # <<>> /\ f.op \in {"step", "resume"} => f.n \in 1..Len(runs)
  BY <1>1, <1>2 DEF KnownRuns, Known
<1>4. WorkKinds(t)
  BY WorkIs
<1> HIDE DEF f
<1>5. CASE PlainWork(t, f)
  <2>1. PICK fs \in Stack : Pushes(t, fs) /\ Plain(f, fs, Reached(t)) /\ runs' = runs
    BY <1>5 DEF PlainWork
  <2>2. Known(fs, Len(runs'))
    BY <2>1 DEF Plain, Known
  <2>3. QED
    BY <1>1, <2>1, <2>2, KnownPushes
<1>6. CASE EndWork(t, f)
  <2>1. PICK fs \in Stack : /\ Pushes(t, fs) /\ Plain(f, fs, Reached(t))
                            /\ f.op = "step" /\ Ends(f.n)
    BY <1>6 DEF EndWork
  <2>2. f.n \in 1..Len(runs)
    BY <1>3, <2>1 DEF Pushes
  <2>3. runs' \in Seq(RunType) /\ Len(runs') = Len(runs)
    BY <2>1, <2>2, RunsAre
  <2>4. Known(fs, Len(runs'))
    BY <2>1 DEF Plain, Known
  <2>5. Len(runs) =< Len(runs')
    BY <1>1, <2>3
  <2>6. QED
    BY <1>1, <2>1, <2>3, <2>4, <2>5, KnownPushes
<1>7. CASE StepWork(t, f)
  <2>1. PICK fs \in Stack : Pushes(t, fs) /\ OnStep(f, fs) /\ runs' = runs
    BY <1>7 DEF StepWork
  <2>2. f.n \in 1..Len(runs)
    BY <1>3, <2>1 DEF Pushes, OnStep
  <2>3. Known(fs, Len(runs'))
    BY <2>1, <2>2 DEF OnStep, Known
  <2>4. QED
    BY <1>1, <2>1, <2>3, KnownPushes
<1>8. CASE RunWork(t, f)
  <2>1. PICK fs \in Stack : /\ Pushes(t, fs) /\ NewStep(fs, Len(runs) + 1)
                            /\ runs' = Append(runs, NewRun(f))
    BY <1>8 DEF RunWork
  <2>2. NewRun(f) \in RunType
    BY <1>2, <2>1, NewRunIs DEF Pushes
  <2>3. runs' \in Seq(RunType) /\ Len(runs') = Len(runs) + 1
    BY <1>1, <2>1, <2>2
  <2>4. \A k \in 1..Len(fs) : k = 1 \/ k = 2
    BY <2>1 DEF NewStep
  <2>5. Known(fs, Len(runs'))
    BY <1>1, <2>1, <2>3, <2>4 DEF NewStep, Known
  <2>6. Len(runs) =< Len(runs')
    BY <1>1, <2>3
  <2>7. QED
    BY <1>1, <2>1, <2>3, <2>5, <2>6, KnownPushes
<1>9. CASE ResumeWork(t, f)
  <2>1. PICK fs \in Stack : /\ Pushes(t, fs) /\ Resumed(fs, f.n) /\ f.op = "resume"
          /\ runs' = [runs EXCEPT ![f.n].status = "running", ![f.n].approved = @ + 1]
    BY <1>9 DEF ResumeWork
  <2>2. f.n \in 1..Len(runs)
    BY <1>3, <2>1 DEF Pushes
  <2>3. runs' \in Seq(RunType) /\ Len(runs') = Len(runs)
    BY <2>1, <2>2, RunsAre
  <2>4. \A k \in 1..Len(fs) : k = 1 \/ k = 2
    BY <2>1 DEF Resumed
  <2>5. Known(fs, Len(runs'))
    BY <2>1, <2>2, <2>3, <2>4 DEF Resumed, Known
  <2>6. Len(runs) =< Len(runs')
    BY <1>1, <2>3
  <2>7. QED
    BY <1>1, <2>1, <2>3, <2>5, <2>6, KnownPushes
<1>10. CASE DropWork(t)
  <2>1. todo' = [todo EXCEPT ![t] = <<>>] /\ runs' = runs
    BY <1>10 DEF DropWork, Drops
  <2>2. <<>> \in Stack /\ Known(<<>>, Len(runs'))
    BY KnownNone DEF Stack
  <2>3. QED
    BY <1>1, <2>1, <2>2, KnownStays
<1>11. QED
  BY <1>4, <1>5, <1>6, <1>7, <1>8, <1>9, <1>10 DEF WorkKinds, f

\* A new hour changes no frame but the counts that notifications have read.
LEMMA HourIs ==
  ASSUME TodoOk, HourCounter, NEW t \in Threads
  PROVE  /\ todo'[t] \in Stack /\ Len(todo'[t]) = Len(todo[t])
         /\ \A k \in 1..Len(todo[t]) :
               /\ todo'[t][k].op = todo[t][k].op /\ todo'[t][k].n = todo[t][k].n
               /\ todo'[t][k].own = todo[t][k].own
               /\ todo'[t][k].act = todo[t][k].act
<1> DEFINE q == todo[t]
           p == [k \in DOMAIN q |->
                   IF q[k].op = "charge" THEN [q[k] EXCEPT !.i = 1] ELSE q[k]]
<1>1. q \in Seq(FrameType) /\ DOMAIN q = 1..Len(q) /\ Len(q) \in Nat
  BY DEF TodoOk, Stack
<1>2. todo'[t] = p
  BY DEF HourCounter
<1>3. ASSUME NEW f \in FrameType
      PROVE  LET g == [f EXCEPT !.i = 1]
             IN  g \in FrameType /\ g.op = f.op /\ g.n = f.n /\ g.own = f.own
                 /\ g.act = f.act
  <2> DEFINE g == [f EXCEPT !.i = 1]
  <2>1. g \in FrameType /\ g.op = f.op /\ g.n = f.n
    BY DEF FrameType
  <2>2. g.own = f.own /\ g.act = f.act
    BY DEF FrameType
  <2>3. QED
    BY <2>1, <2>2
<1> HIDE DEF q
<1>4. ASSUME NEW k \in 1..Len(q)
      PROVE  /\ p[k] \in FrameType /\ p[k].op = q[k].op /\ p[k].n = q[k].n
             /\ p[k].own = q[k].own /\ p[k].act = q[k].act
  <2>1. q[k] \in FrameType
    BY <1>1
  <2>2. p[k] = q[k] \/ p[k] = [q[k] EXCEPT !.i = 1]
    BY <1>1
  <2> HIDE DEF p
  <2>3. CASE p[k] = q[k]
    BY <2>1, <2>3
  <2>4. CASE p[k] = [q[k] EXCEPT !.i = 1]
    <3>1. LET g == [q[k] EXCEPT !.i = 1]
          IN  g \in FrameType /\ g.op = q[k].op /\ g.n = q[k].n /\ g.own = q[k].own
              /\ g.act = q[k].act
      BY <1>3, <2>1
    <3>2. QED
      BY <2>4, <3>1
  <2>5. QED
    BY <2>2, <2>3, <2>4
<1>5. p \in [1..Len(q) -> FrameType]
  BY <1>1, <1>4
<1> HIDE DEF p
<1>6. p \in Seq(FrameType) /\ Len(p) = Len(q)
  BY <1>1, <1>5
<1>7. QED
  BY <1>2, <1>4, <1>6 DEF q, Stack
-----------------------------------------------------------------------------
\* So does a step aside.
LEMMA AsideTypes ==
  ASSUME PipeType, Aside
  PROVE  TodoOk' /\ KnownRuns' /\ runs' \in Seq(RunType)
<1>1. /\ TodoOk /\ KnownRuns /\ runs \in Seq(RunType) /\ Len(runs) \in Nat
      /\ runs' = runs /\ Len(runs) =< Len(runs')
  BY DEF PipeType, BookOk, Aside
<1>2. Sources \subseteq Threads
  BY DEF Threads
<1>3. CASE todo' = todo
  BY <1>1, <1>3 DEF TodoOk, KnownRuns
<1>4. ASSUME NEW t \in Threads, NEW fs \in Stack, Starts(t, fs), Known(fs, Len(runs))
      PROVE  TodoOk' /\ KnownRuns'
  <2>1. todo' = [todo EXCEPT ![t] = fs] /\ Known(fs, Len(runs')) /\ runs' \in Seq(RunType)
    BY <1>1, <1>4 DEF Starts
  <2>2. QED
    BY <1>1, <2>1, KnownStays
<1>5. ASSUME NEW t \in Threads, StartWork(t) PROVE TodoOk' /\ KnownRuns'
  <2>1. PICK fs \in Stack : Starts(t, fs) /\ Fresh(fs)
    BY <1>5 DEF StartWork
  <2>2. Known(fs, Len(runs))
    BY <2>1 DEF Fresh, Known
  <2>3. QED
    BY <1>4, <2>1, <2>2
<1>6. ASSUME NEW t \in Threads, ApproveWork(t) PROVE TodoOk' /\ KnownRuns'
  <2>1. PICK r \in 1..Len(runs), g \in FrameType :
          Starts(t, <<g>>) /\ g.op = "resume" /\ g.n = r
    BY <1>6 DEF ApproveWork
  <2>2. <<g>> \in Stack /\ Len(<<g>>) = 1 /\ <<g>>[1] = g
    BY DEF Stack
  <2>3. Known(<<g>>, Len(runs))
    BY <2>1, <2>2 DEF Known
  <2>4. QED
    BY <1>4, <2>1, <2>2, <2>3
<1>7. ASSUME NEW s \in Sources, PollWork(s) PROVE TodoOk' /\ KnownRuns'
  <2>1. PICK fs \in Stack :
          Starts(s, fs) /\ Polled(src[s].file, ReadFrom(s), fs, gone')
    BY <1>7 DEF PollWork
  <2>2. Known(fs, Len(runs))
    BY <2>1 DEF Polled, Known
  <2>3. QED
    BY <1>2, <1>4, <2>1, <2>2
<1>8. CASE HourCounter
  <2>1. \A t \in Threads :
          /\ todo'[t] \in Stack /\ Len(todo'[t]) = Len(todo[t])
          /\ \A k \in 1..Len(todo[t]) :
               todo'[t][k].op = todo[t][k].op /\ todo'[t][k].n = todo[t][k].n
    BY <1>1, <1>8, HourIs
  <2>2. TodoOk'
    BY <1>8, <2>1 DEF TodoOk, HourCounter
  <2>3. KnownRuns'
    BY <1>1, <2>1 DEF KnownRuns, Known
  <2>4. QED
    BY <1>1, <2>2, <2>3
<1>9. CASE Restart
  <2>1. todo' = [t \in Threads |-> <<>>] /\ <<>> \in Stack
    BY <1>9 DEF Restart, Stack
  <2>2. TodoOk'
    BY <2>1 DEF TodoOk
  <2>3. \A t \in Threads : todo'[t] = <<>>
    BY <2>1
  <2>4. KnownRuns'
    BY <2>3, KnownNone DEF KnownRuns
  <2>5. QED
    BY <1>1, <2>2, <2>4
<1>10. ASSUME NEW s \in Sources, Append1(s) \/ Rotate(s) PROVE todo' = todo
  BY <1>10 DEF Append1, Rotate
<1>11. QED
  BY <1>1, <1>3, <1>5, <1>6, <1>7, <1>8, <1>9, <1>10 DEF Aside

\* The log files: their lines and how far they have been read.
LEMMA FilesStay ==
  ASSUME PipeType, [Next]_vars
  PROVE  FilesOk'
<1>1. lines \in Nat /\ src \in [Sources -> SourceType]
  BY DEF PipeType, FilesOk
<1>2. ASSUME lines' = lines, src' = src PROVE FilesOk'
  BY <1>1, <1>2 DEF FilesOk
<1>3. ASSUME NEW s \in Sources, Append1(s) PROVE FilesOk'
  <2> DEFINE x == [src[s] EXCEPT !.file = Append(@, lines + 1)]
  <2>1. lines' = lines + 1 /\ src' = [src EXCEPT ![s] = x]
    BY <1>1, <1>3 DEF Append1
  <2>2. lines + 1 \in Nat \ {0} /\ src[s] \in SourceType
    BY <1>1
  <2>3. Append(src[s].file, lines + 1) \in Seq(Nat \ {0})
    BY <2>2 DEF SourceType
  <2>4. x \in SourceType
    BY <2>2, <2>3 DEF SourceType
  <2> HIDE DEF x
  <2>5. QED
    BY <1>1, <2>1, <2>2, <2>4 DEF FilesOk
<1>4. ASSUME NEW s \in Sources, Rotate(s) PROVE FilesOk'
  <2> DEFINE x == [src[s] EXCEPT !.file = <<>>]
  <2>1. lines' = lines /\ src' = [src EXCEPT ![s] = x]
    BY <1>1, <1>4 DEF Rotate
  <2>2. src[s] \in SourceType
    BY <1>1
  <2>3. x \in SourceType
    <3>1. <<>> \in Seq(Nat \ {0})
      OBVIOUS
    <3>2. \A y \in Seq(Nat \ {0}) : [src[s] EXCEPT !.file = y] \in SourceType
      BY <2>2 DEF SourceType
    <3>3. QED
      BY <3>1, <3>2
  <2> HIDE DEF x
  <2>4. QED
    BY <1>1, <2>1, <2>3 DEF FilesOk
<1>5. ASSUME NEW t \in Threads, SaveOffset(t) PROVE FilesOk'
  <2>1. Top(t).n \in Nat
    <3>1. Top(t) \in FrameType
      BY <1>5, TopIs DEF PipeType, SaveOffset
    <3>2. QED
      BY <3>1 DEF FrameType
  <2>2. lines' = lines /\ (src' = [src EXCEPT ![t].off = Top(t).n, ![t].mem = Top(t).n]
                           \/ src' = [src EXCEPT ![t].mem = Top(t).n])
    BY <1>5 DEF SaveOffset
  <2>3. CASE t \notin Sources
    <3>1. src' = src
      BY <1>1, <2>2, <2>3
    <3>2. QED
      BY <1>2, <2>2, <3>1
  <2>4. CASE t \in Sources
    <3> DEFINE x == [src[t] EXCEPT !.off = Top(t).n, !.mem = Top(t).n]
               y == [src[t] EXCEPT !.mem = Top(t).n]
    <3>1. src[t] \in SourceType
      BY <1>1, <2>4
    <3>2. x \in SourceType /\ y \in SourceType
      BY <2>1, <3>1 DEF SourceType
    <3>3. src' = [src EXCEPT ![t] = x] \/ src' = [src EXCEPT ![t] = y]
      BY <1>1, <2>2, <2>4
    <3> HIDE DEF x, y
    <3>4. QED
      BY <1>1, <2>2, <3>2, <3>3 DEF FilesOk
  <2>5. QED
    BY <2>3, <2>4
<1>6. CASE Restart
  <2>1. lines' = lines /\ src' = [s \in Sources |-> [src[s] EXCEPT !.mem = src[s].off]]
    BY <1>6 DEF Restart
  <2>2. QED
    BY <1>1, <2>1 DEF FilesOk, SourceType
<1>7. ASSUME NEW s \in Sources, TailFile(s) PROVE lines' = lines /\ src' = src
  BY <1>7 DEF TailFile
<1>8. ASSUME NEW o \in Operators,
             \/ ReplayDeadLetter(o) \/ ApproveRun(o) \/ UpsertPlaybook(o)
             \/ LogForwardingSettings(o)
      PROVE  lines' = lines /\ src' = src
  BY <1>8 DEF ReplayDeadLetter, ApproveRun, UpsertPlaybook, LogForwardingSettings, Files
<1>9. ASSUME NEW t \in Threads,
             \/ HandleLine(t) \/ HandleTorn(t) \/ Log(t) \/ Dispatch(t)
             \/ Dispatched(t) \/ ExecuteStep(t) \/ Notify(t) \/ Charge(t)
             \/ ReplayDone(t) \/ ResumeRun(t)
      PROVE  lines' = lines /\ src' = src
  BY <1>9 DEF HandleLine, HandleTorn, Log, Dispatch, Dispatched, ExecuteStep, Notify,
              Charge, ReplayDone, ResumeRun, Files
<1>10. ASSUME \/ Stream \/ PurgeDeadLetter \/ FlushDigest \/ Deliver \/ SaveMailConfig
              \/ HourCounter \/ Evaluate \/ TimePasses \/ PruneOnce \/ ForwardTick
              \/ ForwardSave \/ UNCHANGED vars
       PROVE  lines' = lines /\ src' = src
  BY <1>10 DEF Stream, PurgeDeadLetter, FlushDigest, Deliver, SaveMailConfig,
               HourCounter, Evaluate, TimePasses, PruneOnce, ForwardTick, ForwardSave,
               Files, vars
<1>11. QED
  BY <1>2, <1>3, <1>4, <1>5, <1>6, <1>7, <1>8, <1>9, <1>10 DEF Next, Work
\* The playbook.
LEMMA PlaybookStays ==
  ASSUME PipeType, [Next]_vars
  PROVE  pb' \in [on : BOOLEAN, trigger : Triggers, steps : Steps]
<1>1. pb \in [on : BOOLEAN, trigger : Triggers, steps : Steps]
  BY DEF PipeType, BookOk
<1>2. ASSUME NEW o \in Operators, UpsertPlaybook(o)
      PROVE  pb' \in [on : BOOLEAN, trigger : Triggers, steps : Steps]
  <2>1. \/ pb' = [pb EXCEPT !.on = FALSE]
        \/ \E tr \in Triggers, st \in Steps :
              pb' = [on |-> TRUE, trigger |-> tr, steps |-> st]
    BY <1>2 DEF UpsertPlaybook
  <2>2. ASSUME NEW tr \in Triggers, NEW st \in Steps
        PROVE  [on |-> TRUE, trigger |-> tr, steps |-> st] \in
                  [on : BOOLEAN, trigger : Triggers, steps : Steps]
    OBVIOUS
  <2>3. [pb EXCEPT !.on = FALSE] \in [on : BOOLEAN, trigger : Triggers, steps : Steps]
    BY <1>1
  <2>4. QED
    BY <2>1, <2>2, <2>3
<1>3. ASSUME NEW s \in Sources, Append1(s) \/ Rotate(s) \/ TailFile(s)
      PROVE  pb' = pb
  BY <1>3 DEF Append1, Rotate, TailFile, Book
<1>4. ASSUME NEW o \in Operators,
             ReplayDeadLetter(o) \/ ApproveRun(o) \/ LogForwardingSettings(o)
      PROVE  pb' = pb
  BY <1>4 DEF ReplayDeadLetter, ApproveRun, LogForwardingSettings, Book
<1>5. ASSUME NEW t \in Threads, Work(t) PROVE pb' = pb
  BY <1>5 DEF Work, HandleLine, HandleTorn, SaveOffset, Log, Dispatch, Dispatched,
              ExecuteStep, Notify, Charge, ReplayDone, ResumeRun, Book
<1>6. ASSUME \/ Stream \/ PurgeDeadLetter \/ FlushDigest \/ Deliver \/ SaveMailConfig
              \/ HourCounter \/ Evaluate \/ TimePasses \/ PruneOnce \/ ForwardTick
              \/ ForwardSave \/ Restart \/ UNCHANGED vars
      PROVE  pb' = pb
  BY <1>6 DEF Stream, PurgeDeadLetter, FlushDigest, Deliver, SaveMailConfig,
              HourCounter, Evaluate, TimePasses, PruneOnce, ForwardTick, ForwardSave,
              Restart, Book, vars
<1>7. QED
  BY <1>1, <1>2, <1>3, <1>4, <1>5, <1>6 DEF Next
-----------------------------------------------------------------------------
\* As long as every count of this hour was read and stored, one notification at a
\* time, the counter is not behind the alerts.
Counted(m) ==
    ~m.loose => m.sent =< m.count /\ (MaxPerHour > 0 => m.sent =< MaxPerHour)

MailInv == MailOk /\ Counted(mail)

\* The mails' state with other counts is well formed.
LEMMA CountsAre ==
  ASSUME mail \in MailType, NEW a \in Nat, NEW b \in Nat, NEW c \in Nat, NEW d \in BOOLEAN
  PROVE  LET m == [mail EXCEPT !.count = a, !.queue = b, !.sent = c, !.loose = d]
         IN  m \in MailType /\ m.count = a /\ m.sent = c /\ m.loose = d
<1> DEFINE m == [mail EXCEPT !.count = a, !.queue = b, !.sent = c, !.loose = d]
<1>1. m \in MailType /\ m.count = a /\ m.sent = c
  BY DEF MailType
<1>2. m.loose = d
  BY DEF MailType
<1>3. QED
  BY <1>1, <1>2

\* An alert is counted, or its count is lost.
LEMMA ChargeCounts ==
  ASSUME PipeType, MailInv, NEW t \in Threads, Charge(t)
  PROVE  MailInv'
<1> DEFINE f == Top(t)
           over == MaxPerHour > 0 /\ f.n >= MaxPerHour
           more == IF over THEN 0 ELSE 1
           loose == mail.loose \/ f.i = 1 \/ f.n # mail.count
           m == [mail EXCEPT !.count = Counter(f), !.queue = mail.queue + more,
                             !.sent = mail.sent + more, !.loose = loose]
           l == [mail EXCEPT !.count = mail.count, !.queue = mail.queue + more,
                             !.sent = mail.sent + more, !.loose = TRUE]
<1>1. f \in FrameType
  BY TopIs DEF PipeType, Charge
<1>2. f.n \in Nat /\ f.i \in Nat
  BY <1>1 DEF FrameType
<1>3. mail \in MailType /\ MaxPerHour \in Nat
  BY PipelineAssumption DEF MailInv, MailOk
<1>4. mail.count \in Nat /\ mail.sent \in Nat /\ mail.queue \in Nat
  BY <1>3 DEF MailType
<1>5. mail' = mail \/ mail' = m \/ mail' = l
  <2>1. \/ mail' = mail
        \/ mail' = [mail EXCEPT !.count = Counter(f), !.queue = @ + more,
                                !.sent = @ + more,
                                !.loose = @ \/ f.i = 1 \/ f.n # mail.count]
        \/ mail' = [mail EXCEPT !.queue = @ + more, !.sent = @ + more, !.loose = TRUE]
    BY Zenon DEF Charge
  <2> HIDE DEF more, f
  <2>2. [mail EXCEPT !.count = Counter(f), !.queue = @ + more, !.sent = @ + more,
                     !.loose = @ \/ f.i = 1 \/ f.n # mail.count] = m
    BY <1>3 DEF MailType
  <2>3. [mail EXCEPT !.queue = @ + more, !.sent = @ + more, !.loose = TRUE] = l
    BY <1>3 DEF MailType
  <2>4. QED
    BY <2>1, <2>2, <2>3
<1>6. Counter(f) \in Nat /\ (f.i # 1 => Counter(f) = f.n + 1)
  BY <1>2 DEF Counter
<1>7. mail.queue + more \in Nat /\ mail.sent + more \in Nat /\ loose \in BOOLEAN
  BY <1>4
<1>8. /\ m \in MailType /\ m.count = Counter(f) /\ m.sent = mail.sent + more
      /\ m.loose = loose
  <2> HIDE DEF more, loose, f
  <2>1. m \in MailType
    BY <1>3, <1>6, <1>7, CountsAre
  <2>2. m.count = Counter(f) /\ m.sent = mail.sent + more
    BY <1>3 DEF MailType
  <2>3. m.loose = loose
    BY <1>3 DEF MailType
  <2>4. QED
    BY <2>1, <2>2, <2>3
<1>9. l \in MailType /\ l.loose = TRUE
  <2> HIDE DEF more
  <2>1. TRUE \in BOOLEAN
    OBVIOUS
  <2>2. QED
    BY <1>3, <1>4, <1>7, <2>1, CountsAre, Zenon
<1>10. ASSUME ~loose
       PROVE  /\ mail.sent + more =< Counter(f)
              /\ MaxPerHour > 0 => mail.sent + more =< MaxPerHour
  <2>1. ~mail.loose /\ f.i # 1 /\ f.n = mail.count
    BY <1>10
  <2>2. mail.sent =< mail.count /\ (MaxPerHour > 0 => mail.sent =< MaxPerHour)
    BY <2>1 DEF MailInv, Counted
  <2>3. Counter(f) = mail.count + 1
    BY <1>6, <2>1
  <2>4. QED
    BY <1>2, <1>3, <1>4, <2>1, <2>2, <2>3
<1>11. CASE mail' = mail
  BY <1>11 DEF MailInv, MailOk, Counted
<1>12. CASE mail' = m
  <2> HIDE DEF m, more, loose
  <2>1. QED
    BY <1>8, <1>10, <1>12 DEF MailInv, MailOk, Counted
<1>13. CASE mail' = l
  <2> HIDE DEF l
  <2>1. QED
    BY <1>9, <1>13 DEF MailInv, MailOk, Counted
<1>14. QED
  BY <1>5, <1>11, <1>12, <1>13

\* Nothing else counts an alert; an hour begins with none.
LEMMA MailStays ==
  ASSUME PipeType, MailInv, [Next]_vars
  PROVE  MailInv'
<1>1. mail \in MailType /\ MaxPerHour \in Nat
  BY PipelineAssumption DEF MailInv, MailOk
<1>2. ASSUME mail' \in MailType, mail'.sent = mail.sent, mail'.count = mail.count,
             mail'.loose = mail.loose
      PROVE  MailInv'
  BY <1>2 DEF MailInv, MailOk, Counted
<1>3. ASSUME mail' = mail PROVE MailInv'
  BY <1>1, <1>2, <1>3
<1>4. ASSUME NEW s \in Sources, Append1(s) \/ Rotate(s) \/ TailFile(s)
      PROVE  mail' = mail
  BY <1>4 DEF Append1, Rotate, TailFile
<1>5. ASSUME NEW o \in Operators,
             \/ ReplayDeadLetter(o) \/ ApproveRun(o) \/ UpsertPlaybook(o)
             \/ LogForwardingSettings(o)
      PROVE  mail' = mail
  BY <1>5 DEF ReplayDeadLetter, ApproveRun, UpsertPlaybook, LogForwardingSettings
<1>6. ASSUME NEW t \in Threads,
             \/ HandleLine(t) \/ HandleTorn(t) \/ SaveOffset(t) \/ Log(t) \/ Dispatch(t)
             \/ Dispatched(t) \/ ExecuteStep(t) \/ ReplayDone(t) \/ ResumeRun(t)
      PROVE  mail' = mail
  BY <1>6 DEF HandleLine, HandleTorn, SaveOffset, Log, Dispatch, Dispatched,
              ExecuteStep, ReplayDone, ResumeRun
<1>7. ASSUME \/ Stream \/ PurgeDeadLetter \/ Evaluate \/ PruneOnce \/ ForwardTick
              \/ ForwardSave \/ UNCHANGED vars
      PROVE  mail' = mail
  BY <1>7 DEF Stream, PurgeDeadLetter, Evaluate, PruneOnce, ForwardTick, ForwardSave, vars
<1>8. ASSUME NEW t \in Threads, Notify(t) PROVE MailInv'
  <2> DEFINE f == Top(t)
             c == IF mail.mode = "cooled" THEN mail.cooled \cup {f.act} ELSE mail.cooled
             b == IF mail.mode = "digest" THEN mail.buffer + 1 ELSE mail.buffer
  <2>1. f \in FrameType
    BY <1>8, TopIs DEF PipeType, Notify
  <2>2. f.act \in Acts
    BY <2>1 DEF FrameType
  <2>3. mail' = mail \/ mail' = [mail EXCEPT !.cooled = c, !.buffer = b]
    BY <1>1, <1>8 DEF Notify, MailType
  <2>4. c \in SUBSET Acts /\ b \in Nat
    BY <1>1, <2>2 DEF MailType
  <2> HIDE DEF c, b
  <2>5. mail' \in MailType /\ mail'.sent = mail.sent /\ mail'.count = mail.count
    BY <1>1, <2>3, <2>4 DEF MailType
  <2>6. mail'.loose = mail.loose
    BY <1>1, <2>3 DEF MailType
  <2>7. QED
    BY <1>2, <2>5, <2>6
<1>9. CASE FlushDigest \/ Deliver \/ Restart
  <2>1. \/ mail' = [mail EXCEPT !.buffer = 0, !.queue = @ + 1]
        \/ mail.queue > 0 /\ mail' = [mail EXCEPT !.queue = @ - 1]
        \/ mail' = [mail EXCEPT !.queue = 0, !.buffer = 0, !.cooled = {}]
    BY <1>9 DEF FlushDigest, Deliver, Restart
  <2>2. mail' \in MailType /\ mail'.sent = mail.sent /\ mail'.count = mail.count
    <3>1. CASE mail' = [mail EXCEPT !.buffer = 0, !.queue = @ + 1]
      <4> DEFINE m == [mail EXCEPT !.buffer = 0]
      <4>1. m \in MailType /\ m.sent = mail.sent /\ m.count = mail.count
        BY <1>1 DEF MailType
      <4>2. mail' = [m EXCEPT !.queue = @ + 1]
        BY <3>1
      <4> HIDE DEF m
      <4>3. QED
        BY <4>1, <4>2 DEF MailType
    <3>2. CASE mail.queue > 0 /\ mail' = [mail EXCEPT !.queue = @ - 1]
      BY <1>1, <3>2 DEF MailType
    <3>3. CASE mail' = [mail EXCEPT !.queue = 0, !.buffer = 0, !.cooled = {}]
      BY <1>1, <3>3 DEF MailType
    <3>4. QED
      BY <2>1, <3>1, <3>2, <3>3
  <2>3. mail'.loose = mail.loose
    BY <1>1, <2>1 DEF MailType
  <2>4. QED
    BY <1>2, <2>2, <2>3
<1>10. CASE SaveMailConfig \/ TimePasses
  <2>1. \/ \E mode \in MailModes : mail' = [mail EXCEPT !.mode = mode]
        \/ mail' = [mail EXCEPT !.cooled = {}]
    BY <1>10 DEF SaveMailConfig, TimePasses
  <2>2. mail' \in MailType /\ mail'.sent = mail.sent /\ mail'.count = mail.count
    BY <1>1, <2>1 DEF MailType
  <2>3. mail'.loose = mail.loose
    BY <1>1, <2>1 DEF MailType
  <2>4. QED
    BY <1>2, <2>2, <2>3
<1>11. CASE HourCounter
  <2>1. mail' = [mail EXCEPT !.count = 0, !.sent = 0, !.loose = FALSE]
    BY <1>11 DEF HourCounter
  <2>2. mail' \in MailType /\ mail'.sent = 0 /\ mail'.count = 0
    BY <1>1, <2>1 DEF MailType
  <2>3. QED
    BY <1>1, <2>2 DEF MailInv, MailOk, Counted
<1>12. QED
  BY <1>3, <1>4, <1>5, <1>6, <1>7, <1>8, <1>9, <1>10, <1>11, ChargeCounts DEF Next, Work
PipeInv == PipeType /\ MailInv

\* The initial state satisfies the type invariant.
LEMMA InitPipe == Init => PipeInv
<1> SUFFICES ASSUME Init PROVE PipeInv
  OBVIOUS
<1>1. PICK use \in {"playbook", "mail", "forward"} :
        /\ lines = 0
        /\ src = [s \in Sources |-> [file |-> <<>>, off |-> 0, mem |-> 0]]
        /\ todo = [t \in Threads |-> <<>>]
        /\ pb = [on |-> use = "playbook", trigger |-> "any", steps |-> Gated]
        /\ runs = <<>>
        /\ mail = [mode |-> IF use = "mail" THEN "each" ELSE "off", count |-> 0,
                   queue |-> 0, buffer |-> 0, cooled |-> {}, sent |-> 0,
                   loose |-> FALSE]
  BY DEF Init
<1>2. FilesOk
  <2>1. [file |-> <<>>, off |-> 0, mem |-> 0] \in SourceType
    BY DEF SourceType
  <2>2. QED
    BY <1>1, <2>1 DEF FilesOk
<1>3. TodoOk /\ KnownRuns
  <2>1. <<>> \in Stack /\ \A t \in Threads : todo[t] = <<>>
    BY <1>1 DEF Stack
  <2>2. TodoOk
    BY <1>1, <2>1 DEF TodoOk
  <2>3. KnownRuns
    BY <2>1, KnownNone DEF KnownRuns
  <2>4. QED
    BY <2>2, <2>3
<1>4. BookOk
  <2>1. Gated \in Steps /\ "any" \in Triggers /\ (use = "playbook") \in BOOLEAN
    BY DEF Steps, Triggers
  <2>2. \A b \in BOOLEAN : [on |-> b, trigger |-> "any", steps |-> Gated] \in
           [on : BOOLEAN, trigger : Triggers, steps : Steps]
    BY <2>1
  <2>3. pb \in [on : BOOLEAN, trigger : Triggers, steps : Steps]
    BY <1>1, <2>1, <2>2, Zenon
  <2>4. runs \in Seq(RunType)
    BY <1>1
  <2>5. QED
    BY <2>3, <2>4 DEF BookOk
<1>5. MailOk
  <2>1. (IF use = "mail" THEN "each" ELSE "off") \in MailModes
    BY DEF MailModes
  <2>2. \A m \in MailModes :
          [mode |-> m, count |-> 0, queue |-> 0, buffer |-> 0, cooled |-> {},
           sent |-> 0, loose |-> FALSE] \in MailType
    BY DEF MailType
  <2>3. QED
    BY <1>1, <2>1, <2>2, Zenon DEF MailOk
<1>6. Counted(mail)
  <2>1. mail.sent = 0 /\ mail.count = 0 /\ MaxPerHour \in Nat
    BY <1>1, PipelineAssumption
  <2>2. QED
    BY <2>1 DEF Counted
<1>7. QED
  BY <1>2, <1>3, <1>4, <1>5, <1>6 DEF PipeInv, PipeType, MailInv

\* Every step keeps it.
LEMMA PipeStays ==
  ASSUME PipeInv, [Next]_vars
  PROVE  PipeInv'
<1>1. PipeType /\ MailInv
  BY DEF PipeInv
<1>2. TodoOk' /\ KnownRuns' /\ runs' \in Seq(RunType)
  BY <1>1, NextIs, AsideTypes, WorkTypes
<1>3. FilesOk' /\ MailInv' /\ pb' \in [on : BOOLEAN, trigger : Triggers, steps : Steps]
  BY <1>1, FilesStay, MailStays, PlaybookStays
<1>4. QED
  BY <1>2, <1>3 DEF PipeInv, PipeType, MailInv, BookOk

\* Types and counters hold in every state.
LEMMA PipeHolds == Spec => []PipeInv
<1>1. PipeInv /\ [Next]_vars => PipeInv'
  BY PipeStays
<1>2. QED
  BY <1>1, InitPipe, PTL DEF Spec

\* For every cap and any number of threads: in an hour in which every count of
\* mail_alerts.notify_event was read and stored, and none was written by another
\* notification between the two, no more alerts are queued than max_per_hour, if
\* there is a cap.
THEOREM MailIsCapped == Spec => []MailCap
<1>1. PipeInv => MailCap
  BY DEF PipeInv, MailInv, Counted, MailCap
<1>2. QED
  BY <1>1, PipeHolds, PTL
-----------------------------------------------------------------------------
\* A frame of a run that on_event started is inside its guard: the end of on_event
\* is still to be executed, further down.
Guarded(q) ==
    \A k \in 1..Len(q) : q[k].own => \E j \in k + 1..Len(q) : q[j].op = "done"

NoOwnRun == \A r \in 1..Len(runs) : runs[r].cause # "own"
GuardInv == NoOwnRun /\ \A t \in Threads : Guarded(todo[t])

\* What the head frame calls for is inside its guard or brings its own.
LEMMA GuardedPush ==
  ASSUME NEW q \in Stack, q # <<>>, NEW fs \in Stack, Guarded(q),
         \A k \in 1..Len(fs) : fs[k].own =>
            q[1].own \/ \E j \in k + 1..Len(fs) : fs[j].op = "done"
  PROVE  Guarded(fs \o Tail(q))
<1> DEFINE p == fs \o Tail(q)
<1>1. q \in Seq(FrameType) /\ fs \in Seq(FrameType)
  BY DEF Stack
<1>2. /\ \A j \in 1..Len(fs) : p[j] = fs[j]
      /\ \A j \in 2..Len(q) : p[j + Len(fs) - 1] = q[j]
      /\ \A j \in 1..Len(p) : j > Len(fs) => /\ p[j] = q[j - Len(fs) + 1]
                                             /\ j - Len(fs) + 1 \in 2..Len(q)
      /\ Len(p) = Len(fs) + Len(q) - 1
      /\ Len(fs) \in Nat /\ Len(q) \in Nat /\ Len(q) > 0
  BY <1>1, Pushed
<1> HIDE DEF p
<1>3. ASSUME NEW i \in 1..Len(q), q[i].own,
             NEW k \in 1..Len(p), k =< i + Len(fs) - 1
      PROVE  \E j \in k + 1..Len(p) : p[j].op = "done"
  <2>1. PICK j \in i + 1..Len(q) : q[j].op = "done"
    BY <1>3 DEF Guarded
  <2>2. j \in 2..Len(q) /\ j + Len(fs) - 1 \in k + 1..Len(p)
    BY <1>2, <1>3, <2>1
  <2>3. p[j + Len(fs) - 1].op = "done"
    BY <1>2, <2>1, <2>2
  <2>4. QED
    BY <2>2, <2>3
<1>4. ASSUME NEW k \in 1..Len(p), p[k].own
      PROVE  \E j \in k + 1..Len(p) : p[j].op = "done"
  <2>1. CASE k =< Len(fs)
    <3>1. k \in 1..Len(fs) /\ fs[k].own
      BY <1>2, <1>4, <2>1
    <3>2. CASE q[1].own
      <4>1. 1 \in 1..Len(q) /\ k =< 1 + Len(fs) - 1
        BY <1>2, <2>1
      <4>2. QED
        BY <1>3, <3>2, <4>1
    <3>3. CASE \E j \in k + 1..Len(fs) : fs[j].op = "done"
      <4>1. PICK j \in k + 1..Len(fs) : fs[j].op = "done"
        BY <3>3
      <4>2. j \in 1..Len(fs) /\ j \in k + 1..Len(p)
        BY <1>2, <4>1
      <4>3. QED
        BY <1>2, <4>1, <4>2
    <3>4. QED
      BY <3>1, <3>2, <3>3
  <2>2. CASE k > Len(fs)
    <3> DEFINE i == k - Len(fs) + 1
    <3>1. p[k] = q[i] /\ i \in 1..Len(q) /\ k =< i + Len(fs) - 1
      BY <1>2, <2>2
    <3> HIDE DEF i
    <3>2. q[i].own
      BY <1>4, <3>1
    <3>3. QED
      BY <1>3, <3>1, <3>2
  <2>3. QED
    BY <1>2, <2>1, <2>2
<1>5. Guarded(p)
  BY <1>4 DEF Guarded
<1>6. QED
  BY <1>5 DEF p
\* An empty stack is guarded.
LEMMA GuardedNone == Guarded(<<>>)
BY DEF Guarded

\* So is one without an event of the engine's own.
LEMMA GuardedFresh ==
  ASSUME NEW fs, \A k \in 1..Len(fs) : fs[k].own = FALSE
  PROVE  Guarded(fs)
BY DEF Guarded

\* One thread's frames change.
LEMMA GuardStays ==
  ASSUME TodoOk, \A u \in Threads : Guarded(todo[u]), NEW t \in Threads, NEW q,
         todo' = [todo EXCEPT ![t] = q], Guarded(q)
  PROVE  \A u \in Threads : Guarded(todo'[u])
BY DEF TodoOk

\* Replacing a head frame keeps the stacks guarded when its own frames are.
LEMMA GuardPushes ==
  ASSUME TodoOk, \A u \in Threads : Guarded(todo[u]), NEW t \in Threads,
         NEW fs \in Stack, Pushes(t, fs),
         \A k \in 1..Len(fs) : fs[k].own =>
            todo[t][1].own \/ \E j \in k + 1..Len(fs) : fs[j].op = "done"
  PROVE  \A u \in Threads : Guarded(todo'[u])
<1>1. todo[t] \in Stack /\ todo[t] # <<>> /\ Guarded(todo[t])
  BY DEF TodoOk, Pushes
<1>2. Guarded(fs \o Tail(todo[t]))
  BY <1>1, GuardedPush
<1>3. QED
  BY <1>2, GuardStays DEF Pushes

\* The work of a thread keeps the guard.
LEMMA WorkGuard ==
  ASSUME PipeType, GuardInv, NEW t \in Threads, Work(t)
  PROVE  GuardInv'
<1> DEFINE f == Top(t)
<1>1. /\ TodoOk /\ NoOwnRun /\ \A u \in Threads : Guarded(todo[u])
      /\ runs \in Seq(RunType) /\ Len(runs) \in Nat
  BY DEF PipeType, BookOk, GuardInv
<1>2. /\ todo[t] \in Seq(FrameType)
      /\ todo[t] # <<>> => f \in FrameType /\ f = todo[t][1] /\ 1 \in 1..Len(todo[t])
  BY <1>1 DEF TodoOk, Stack, Top
<1>3. todo[t] # <<>> /\ f.op \in {"step", "resume"} => f.n \in 1..Len(runs)
  BY <1>2 DEF PipeType, KnownRuns, Known
<1>4. ASSUME NEW r \in 1..Len(runs), Ends(r) \/
             runs' = [runs EXCEPT ![r].status = "running", ![r].approved = @ + 1]
      PROVE  NoOwnRun'
  <2>1. /\ Len(runs') = Len(runs) /\ runs'[r].cause = runs[r].cause
        /\ \A s \in 1..Len(runs) : s # r => runs'[s] = runs[s]
    BY <1>4, RunsAre
  <2>2. QED
    BY <1>1, <2>1 DEF NoOwnRun
<1>5. runs' = runs => NoOwnRun'
  BY <1>1 DEF NoOwnRun
<1>6. ASSUME NEW fs \in Stack, Pushes(t, fs), \A k \in 1..Len(fs) : fs[k].own =>
               f.own \/ \E j \in k + 1..Len(fs) : fs[j].op = "done"
      PROVE  \A u \in Threads : Guarded(todo'[u])
  <2>1. f = todo[t][1]
    BY <1>2, <1>6 DEF Pushes
  <2>2. \A k \in 1..Len(fs) : fs[k].own =>
          todo[t][1].own \/ \E j \in k + 1..Len(fs) : fs[j].op = "done"
    BY <1>6, <2>1
  <2>3. QED
    BY <1>1, <1>6, <2>2, GuardPushes
<1>7. WorkKinds(t)
  BY WorkIs
<1> HIDE DEF f
<1>8. CASE PlainWork(t, f)
  <2>1. PICK fs \in Stack : Pushes(t, fs) /\ Plain(f, fs, Reached(t)) /\ runs' = runs
    BY <1>8 DEF PlainWork
  <2>2. \A k \in 1..Len(fs) : fs[k].own => f.own
    BY <2>1 DEF Plain, Keeps
  <2>3. QED
    BY <1>5, <1>6, <2>1, <2>2 DEF GuardInv
<1>9. CASE EndWork(t, f)
  <2>1. PICK fs \in Stack : /\ Pushes(t, fs) /\ Plain(f, fs, Reached(t))
                            /\ f.op = "step" /\ Ends(f.n)
    BY <1>9 DEF EndWork
  <2>2. \A k \in 1..Len(fs) : fs[k].own => f.own
    BY <2>1 DEF Plain, Keeps
  <2>3. f.n \in 1..Len(runs)
    BY <1>3, <2>1 DEF Pushes
  <2>4. QED
    BY <1>4, <1>6, <2>1, <2>2, <2>3 DEF GuardInv
<1>10. CASE StepWork(t, f)
  <2>1. PICK fs \in Stack : Pushes(t, fs) /\ OnStep(f, fs) /\ runs' = runs
    BY <1>10 DEF StepWork
  <2>2. \A k \in 1..Len(fs) : fs[k].own => f.own
    BY <2>1 DEF OnStep, Keeps
  <2>3. QED
    BY <1>5, <1>6, <2>1, <2>2 DEF GuardInv
<1>11. CASE RunWork(t, f)
  <2>1. PICK fs \in Stack : /\ Pushes(t, fs) /\ NewStep(fs, Len(runs) + 1)
                            /\ ~Running(t) /\ runs' = Append(runs, NewRun(f))
    BY <1>11 DEF RunWork
  <2>2. \A k \in 1..Len(fs) : k = 1 \/ k = 2
    BY <2>1 DEF NewStep
  <2>3. 2 \in 1 + 1..Len(fs) /\ fs[2].op = "done" /\ fs[2].own = FALSE
    BY <2>1 DEF NewStep
  <2>4. \A k \in 1..Len(fs) : fs[k].own => \E j \in k + 1..Len(fs) : fs[j].op = "done"
    BY <2>2, <2>3
  <2>5. ~f.own
    <3>1. SUFFICES ASSUME f.own PROVE FALSE
      OBVIOUS
    <3>2. f = todo[t][1] /\ 1 \in 1..Len(todo[t]) /\ Guarded(todo[t])
      BY <1>1, <1>2, <2>1 DEF Pushes
    <3>3. PICK j \in 1 + 1..Len(todo[t]) : todo[t][j].op = "done"
      BY <3>1, <3>2 DEF Guarded
    <3>4. j \in DOMAIN todo[t]
      BY <1>2, <3>3
    <3>5. QED
      BY <2>1, <3>3, <3>4 DEF Running
  <2>6. NewRun(f).cause # "own"
    BY <1>2, <2>1, <2>5, NewRunIs DEF Pushes
  <2>7. NoOwnRun'
    <3>1. Len(runs') = Len(runs) + 1 /\ runs'[Len(runs) + 1] = NewRun(f)
          /\ \A r \in 1..Len(runs) : runs'[r] = runs[r]
      BY <1>1, <2>1
    <3>2. \A r \in 1..Len(runs') : r = Len(runs) + 1 \/ r \in 1..Len(runs)
      BY <1>1, <3>1
    <3>3. QED
      BY <1>1, <2>6, <3>1, <3>2 DEF NoOwnRun
  <2>8. QED
    BY <1>6, <2>1, <2>4, <2>7 DEF GuardInv
<1>12. CASE ResumeWork(t, f)
  <2>1. PICK fs \in Stack : /\ Pushes(t, fs) /\ Resumed(fs, f.n) /\ f.op = "resume"
          /\ runs' = [runs EXCEPT ![f.n].status = "running", ![f.n].approved = @ + 1]
    BY <1>12 DEF ResumeWork
  <2>2. \A k \in 1..Len(fs) : k = 1 \/ k = 2
    BY <2>1 DEF Resumed
  <2>3. \A k \in 1..Len(fs) : ~fs[k].own
    BY <2>1, <2>2 DEF Resumed
  <2>4. f.n \in 1..Len(runs)
    BY <1>3, <2>1 DEF Pushes
  <2>5. QED
    BY <1>4, <1>6, <2>1, <2>3, <2>4 DEF GuardInv
<1>13. CASE DropWork(t)
  <2>1. todo' = [todo EXCEPT ![t] = <<>>] /\ runs' = runs
    BY <1>13 DEF DropWork, Drops
  <2>2. Guarded(<<>>)
    BY GuardedNone
  <2>3. QED
    BY <1>1, <1>5, <2>1, <2>2, GuardStays DEF GuardInv
<1>14. QED
  BY <1>7, <1>8, <1>9, <1>10, <1>11, <1>12, <1>13 DEF WorkKinds, f

\* So does a step aside.
LEMMA AsideGuard ==
  ASSUME PipeType, GuardInv, Aside
  PROVE  GuardInv'
<1>1. /\ TodoOk /\ NoOwnRun /\ runs' = runs /\ \A u \in Threads : Guarded(todo[u])
  BY DEF PipeType, GuardInv, Aside
<1>2. NoOwnRun'
  BY <1>1 DEF NoOwnRun
<1>3. Sources \subseteq Threads
  BY DEF Threads
<1>4. ASSUME NEW t \in Threads, NEW fs, Starts(t, fs),
             \A k \in 1..Len(fs) : fs[k].own = FALSE
      PROVE  GuardInv'
  <2>1. Guarded(fs) /\ todo' = [todo EXCEPT ![t] = fs]
    BY <1>4, GuardedFresh DEF Starts
  <2>2. QED
    BY <1>1, <1>2, <2>1, GuardStays DEF GuardInv
<1>5. ASSUME NEW t \in Threads, StartWork(t) PROVE GuardInv'
  BY <1>4, <1>5 DEF StartWork, Fresh
<1>6. ASSUME NEW t \in Threads, ApproveWork(t) PROVE GuardInv'
  <2>1. PICK r \in 1..Len(runs), g \in FrameType : Starts(t, <<g>>) /\ g.own = FALSE
    BY <1>6 DEF ApproveWork
  <2>2. \A k \in 1..Len(<<g>>) : <<g>>[k] = g
    OBVIOUS
  <2>3. QED
    BY <1>4, <2>1, <2>2
<1>7. ASSUME NEW s \in Sources, PollWork(s) PROVE GuardInv'
  BY <1>3, <1>4, <1>7 DEF PollWork, Polled
<1>8. CASE HourCounter
  <2>1. ASSUME NEW t \in Threads PROVE Guarded(todo'[t])
    <3>1. /\ Len(todo'[t]) = Len(todo[t])
          /\ \A k \in 1..Len(todo[t]) : /\ todo'[t][k].op = todo[t][k].op
                                        /\ todo'[t][k].own = todo[t][k].own
      BY <1>1, <1>8, HourIs
    <3>2. Guarded(todo[t]) /\ Len(todo[t]) \in Nat
      BY <1>1 DEF TodoOk, Stack
    <3>3. QED
      BY <3>1, <3>2 DEF Guarded
  <2>2. QED
    BY <1>2, <2>1 DEF GuardInv
<1>9. CASE Restart
  <2>1. \A t \in Threads : todo'[t] = <<>>
    BY <1>9 DEF Restart
  <2>2. Guarded(<<>>)
    BY GuardedNone
  <2>3. QED
    BY <1>2, <2>1, <2>2 DEF GuardInv
<1>10. ASSUME todo' = todo PROVE GuardInv'
  BY <1>1, <1>2, <1>10 DEF GuardInv
<1>11. ASSUME NEW s \in Sources, Append1(s) \/ Rotate(s) PROVE todo' = todo
  BY <1>11 DEF Append1, Rotate
<1>12. QED
  BY <1>5, <1>6, <1>7, <1>8, <1>9, <1>10, <1>11 DEF Aside
-----------------------------------------------------------------------------
\* An operator has approved a run.
Vouched == \E r \in 1..Len(runs) : runs[r].approved > 0

\* The frames q hold one that speaks for a resumed run.
Spoken(q) == \E k \in 1..Len(q) : Speaks(q[k])

\* What a resumed run does, and the runs its events start, have an approval behind
\* them.
ApprovedCause ==
    \A r \in 1..Len(runs) : runs[r].cause = "approved" =>
        \E q \in 1..(r - 1) : runs[q].approved > 0
VouchInv == ApprovedCause /\ \A t \in Threads : Spoken(todo[t]) => Vouched

\* Frames that speak for a resumed run only if the head did.
LEMMA SpokenPush ==
  ASSUME NEW q \in Stack, q # <<>>, NEW fs \in Stack, Spoken(fs \o Tail(q))
  PROVE  Spoken(fs) \/ Spoken(q)
<1> DEFINE p == fs \o Tail(q)
<1>1. q \in Seq(FrameType) /\ fs \in Seq(FrameType)
  BY DEF Stack
<1>2. /\ \A j \in 1..Len(fs) : p[j] = fs[j]
      /\ \A j \in 1..Len(p) : j > Len(fs) => /\ p[j] = q[j - Len(fs) + 1]
                                             /\ j - Len(fs) + 1 \in 2..Len(q)
      /\ Len(p) \in Nat /\ Len(fs) \in Nat /\ Len(q) \in Nat
  BY <1>1, Pushed
<1>3. PICK k \in 1..Len(p) : Speaks(p[k])
  BY DEF Spoken
<1> HIDE DEF p
<1>4. CASE k =< Len(fs)
  <2>1. k \in 1..Len(fs)
    BY <1>2, <1>4
  <2>2. QED
    BY <1>2, <1>3, <2>1 DEF Spoken
<1>5. CASE k > Len(fs)
  <2> DEFINE j == k - Len(fs) + 1
  <2>1. p[k] = q[j] /\ j \in 1..Len(q)
    BY <1>2, <1>5
  <2> HIDE DEF j
  <2>2. QED
    BY <1>3, <2>1 DEF Spoken
<1>6. QED
  BY <1>2, <1>4, <1>5

\* A head frame's work, when what it calls for speaks only with an approval.
LEMMA VouchPushes ==
  ASSUME TodoOk, NEW t \in Threads, NEW fs \in Stack, Pushes(t, fs),
         \A u \in Threads : Spoken(todo[u]) => Vouched,
         Vouched => Vouched', Spoken(fs) => Vouched'
  PROVE  \A u \in Threads : Spoken(todo'[u]) => Vouched'
<1>1. todo[t] \in Stack /\ todo[t] # <<>> /\ todo \in [Threads -> Stack]
  BY DEF TodoOk, Pushes
<1>2. todo'[t] = fs \o Tail(todo[t]) /\ \A u \in Threads : u # t => todo'[u] = todo[u]
  BY <1>1 DEF Pushes
<1>3. Spoken(fs \o Tail(todo[t])) => Spoken(fs) \/ Spoken(todo[t])
  BY <1>1, SpokenPush
<1>4. QED
  BY <1>2, <1>3

\* The approvals of a run stay when another run changes, and so do the causes.
LEMMA VouchedKept ==
  ASSUME runs \in Seq(RunType), runs' \in Seq(RunType), Len(runs) =< Len(runs'),
         \A r \in 1..Len(runs) : /\ runs'[r].cause = runs[r].cause
                                 /\ runs[r].approved > 0 => runs'[r].approved > 0
  PROVE  /\ Vouched => Vouched'
         /\ ApprovedCause => \A r \in 1..Len(runs) : runs'[r].cause = "approved" =>
                                \E q \in 1..(r - 1) : runs'[q].approved > 0
<1>1. Len(runs) \in Nat /\ Len(runs') \in Nat
  OBVIOUS
<1>2. 1..Len(runs) \subseteq 1..Len(runs')
  BY <1>1
<1>3. \A r \in 1..Len(runs) : 1..(r - 1) \subseteq 1..Len(runs)
  BY <1>1
<1>4. Vouched => Vouched'
  BY <1>2 DEF Vouched
<1>5. ASSUME ApprovedCause, NEW r \in 1..Len(runs), runs'[r].cause = "approved"
      PROVE  \E q \in 1..(r - 1) : runs'[q].approved > 0
  <2>1. PICK q \in 1..(r - 1) : runs[q].approved > 0
    BY <1>5 DEF ApprovedCause
  <2>2. q \in 1..Len(runs)
    BY <1>3, <2>1
  <2>3. QED
    BY <2>1, <2>2
<1>6. QED
  BY <1>4, <1>5

\* A status, or a count that grows, of one run.
LEMMA VouchedOne ==
  ASSUME PipeType, VouchInv, NEW r \in 1..Len(runs),
         Ends(r) \/ runs' = [runs EXCEPT ![r].status = "running", ![r].approved = @ + 1]
  PROVE  (Vouched => Vouched') /\ ApprovedCause'
<1>1. runs \in Seq(RunType) /\ Len(runs) \in Nat /\ runs[r] \in RunType
  BY DEF PipeType, BookOk
<1>2. /\ runs' \in Seq(RunType) /\ Len(runs') = Len(runs)
      /\ \A s \in 1..Len(runs) : s # r => runs'[s] = runs[s]
      /\ runs'[r].cause = runs[r].cause
  BY RunsAre
<1>3. runs'[r].approved = runs[r].approved \/ runs'[r].approved = runs[r].approved + 1
  BY EndsIs, ResumesIs
<1>4. runs[r].approved \in Nat
  BY <1>1 DEF RunType
<1>5. runs[r].approved > 0 => runs'[r].approved > 0
  BY <1>3, <1>4
<1>6. \A s \in 1..Len(runs) : /\ runs'[s].cause = runs[s].cause
                              /\ runs[s].approved > 0 => runs'[s].approved > 0
  BY <1>2, <1>5
<1>7. Len(runs) =< Len(runs')
  BY <1>1, <1>2
<1>8. QED
  BY <1>1, <1>2, <1>6, <1>7, VouchedKept DEF VouchInv, ApprovedCause

\* The work of a thread.
LEMMA WorkVouch ==
  ASSUME PipeType, GuardInv, VouchInv, NEW t \in Threads, Work(t)
  PROVE  VouchInv'
<1> DEFINE f == Top(t)
<1>1. /\ TodoOk /\ \A u \in Threads : Spoken(todo[u]) => Vouched
      /\ runs \in Seq(RunType) /\ Len(runs) \in Nat
  BY DEF PipeType, BookOk, VouchInv
<1>2. /\ todo[t] \in Seq(FrameType)
      /\ todo[t] # <<>> => f \in FrameType /\ f = todo[t][1] /\ 1 \in 1..Len(todo[t])
  BY <1>1 DEF TodoOk, Stack, Top
<1>3. todo[t] # <<>> /\ f.op \in {"step", "resume"} => f.n \in 1..Len(runs)
  BY <1>2 DEF PipeType, KnownRuns, Known
<1>4. todo[t] # <<>> /\ Speaks(f) => Vouched
  BY <1>1, <1>2 DEF Spoken
<1>5. runs' = runs => (Vouched => Vouched') /\ ApprovedCause'
  BY DEF Vouched, VouchInv, ApprovedCause
<1>6. ASSUME NEW fs \in Stack, Pushes(t, fs), \A k \in 1..Len(fs) : Keeps(fs[k], f),
             Vouched => Vouched', ApprovedCause'
      PROVE  VouchInv'
  <2>1. todo[t] # <<>>
    BY <1>6 DEF Pushes
  <2>2. Spoken(fs) => Vouched'
    BY <1>4, <1>6, <2>1 DEF Spoken, Keeps
  <2>3. \A u \in Threads : Spoken(todo'[u]) => Vouched'
    BY <1>1, <1>6, <2>2, VouchPushes
  <2>4. QED
    BY <1>6, <2>3 DEF VouchInv
<1>7. WorkKinds(t)
  BY WorkIs
<1> HIDE DEF f
<1>8. CASE PlainWork(t, f)
  <2>1. PICK fs \in Stack : Pushes(t, fs) /\ Plain(f, fs, Reached(t)) /\ runs' = runs
    BY <1>8 DEF PlainWork
  <2>2. \A k \in 1..Len(fs) : Keeps(fs[k], f)
    BY <2>1 DEF Plain
  <2>3. QED
    BY <1>5, <1>6, <2>1, <2>2
<1>9. CASE EndWork(t, f)
  <2>1. PICK fs \in Stack : /\ Pushes(t, fs) /\ Plain(f, fs, Reached(t))
                            /\ f.op = "step" /\ Ends(f.n)
    BY <1>9 DEF EndWork
  <2>2. \A k \in 1..Len(fs) : Keeps(fs[k], f)
    BY <2>1 DEF Plain
  <2>3. f.n \in 1..Len(runs)
    BY <1>3, <2>1 DEF Pushes
  <2>4. (Vouched => Vouched') /\ ApprovedCause'
    BY <2>1, <2>3, VouchedOne
  <2>5. QED
    BY <1>6, <2>1, <2>2, <2>4
<1>10. CASE StepWork(t, f)
  <2>1. PICK fs \in Stack : Pushes(t, fs) /\ OnStep(f, fs) /\ runs' = runs
    BY <1>10 DEF StepWork
  <2>2. \A k \in 1..Len(fs) : Keeps(fs[k], f)
    BY <2>1 DEF OnStep
  <2>3. QED
    BY <1>5, <1>6, <2>1, <2>2
<1>11. CASE RunWork(t, f)
  <2>1. PICK fs \in Stack : /\ Pushes(t, fs) /\ NewStep(fs, Len(runs) + 1)
                            /\ f.op = "dispatch" /\ runs' = Append(runs, NewRun(f))
    BY <1>11 DEF RunWork
  <2>2. todo[t] # <<>> /\ f \in FrameType
    BY <1>2, <2>1 DEF Pushes
  <2>3. NewRun(f) \in RunType
    BY <2>2, NewRunIs
  <2>4. NewRun(f).cause = "approved" => Speaks(f)
    BY <2>1, <2>2 DEF NewRun, Speaks
  <2>5. /\ runs' \in Seq(RunType) /\ Len(runs') = Len(runs) + 1
        /\ runs'[Len(runs) + 1] = NewRun(f)
        /\ \A r \in 1..Len(runs) : runs'[r] = runs[r]
    BY <1>1, <2>1, <2>3
  <2>6. Len(runs) =< Len(runs')
    BY <1>1, <2>5
  <2>7. /\ Vouched => Vouched'
        /\ \A r \in 1..Len(runs) : runs'[r].cause = "approved" =>
              \E q \in 1..(r - 1) : runs'[q].approved > 0
    <3>1. \A r \in 1..Len(runs) : /\ runs'[r].cause = runs[r].cause
                                  /\ runs[r].approved > 0 => runs'[r].approved > 0
      BY <2>5
    <3>2. QED
      BY <1>1, <2>5, <2>6, <3>1, VouchedKept DEF VouchInv
  <2>8. ASSUME NewRun(f).cause = "approved"
        PROVE  \E q \in 1..(Len(runs) + 1 - 1) : runs'[q].approved > 0
    <3>1. PICK q \in 1..Len(runs) : runs[q].approved > 0
      BY <1>4, <2>2, <2>4, <2>8 DEF Vouched
    <3>2. q \in 1..(Len(runs) + 1 - 1) /\ runs'[q] = runs[q]
      BY <1>1, <2>5, <3>1
    <3>3. QED
      BY <3>1, <3>2
  <2>9. ApprovedCause'
    <3>1. \A r \in 1..Len(runs') : r = Len(runs) + 1 \/ r \in 1..Len(runs)
      BY <1>1, <2>5
    <3>2. QED
      BY <2>5, <2>7, <2>8, <3>1 DEF ApprovedCause
  <2>10. Spoken(fs) => Vouched'
    <3>1. \A k \in 1..Len(fs) : k = 1 \/ k = 2
      BY <2>1 DEF NewStep
    <3>2. fs[1].own /\ fs[2].op = "done"
      BY <2>1 DEF NewStep
    <3>3. ~Speaks(fs[1]) /\ ~Speaks(fs[2])
      BY <3>2 DEF Speaks
    <3>4. QED
      BY <3>1, <3>3 DEF Spoken
  <2>11. \A u \in Threads : Spoken(todo'[u]) => Vouched'
    BY <1>1, <2>1, <2>7, <2>10, VouchPushes
  <2>12. QED
    BY <2>9, <2>11 DEF VouchInv
<1>12. CASE ResumeWork(t, f)
  <2>1. PICK fs \in Stack : /\ Pushes(t, fs) /\ Resumed(fs, f.n) /\ f.op = "resume"
          /\ runs' = [runs EXCEPT ![f.n].status = "running", ![f.n].approved = @ + 1]
    BY <1>12 DEF ResumeWork
  <2>2. f.n \in 1..Len(runs)
    BY <1>3, <2>1 DEF Pushes
  <2>3. (Vouched => Vouched') /\ ApprovedCause'
    BY <2>1, <2>2, VouchedOne
  <2>4. Vouched'
    <3>1. runs'[f.n].approved = runs[f.n].approved + 1 /\ Len(runs') = Len(runs)
      BY <2>1, <2>2, ResumesIs, RunsAre
    <3>2. runs[f.n] \in RunType
      BY <1>1, <2>2
    <3>3. runs[f.n].approved \in Nat
      BY <3>2 DEF RunType
    <3>4. runs'[f.n].approved > 0
      BY <3>1, <3>3
    <3>5. QED
      BY <2>2, <3>1, <3>4 DEF Vouched
  <2>5. \A u \in Threads : Spoken(todo'[u]) => Vouched'
    BY <2>4
  <2>6. QED
    BY <2>3, <2>5 DEF VouchInv
<1>13. CASE DropWork(t)
  <2>1. todo' = [todo EXCEPT ![t] = <<>>] /\ runs' = runs /\ todo \in [Threads -> Stack]
    BY <1>1, <1>13 DEF DropWork, Drops, TodoOk
  <2>2. ~Spoken(<<>>)
    BY DEF Spoken
  <2>3. \A u \in Threads : Spoken(todo'[u]) => Vouched'
    BY <1>1, <1>5, <2>1, <2>2
  <2>4. QED
    BY <1>5, <2>1, <2>3 DEF VouchInv
<1>14. QED
  BY <1>7, <1>8, <1>9, <1>10, <1>11, <1>12, <1>13 DEF WorkKinds, f

\* A step aside.
LEMMA AsideVouch ==
  ASSUME PipeType, VouchInv, Aside
  PROVE  VouchInv'
<1>1. /\ todo \in [Threads -> Stack] /\ runs' = runs
      /\ \A u \in Threads : Spoken(todo[u]) => Vouched
  BY DEF PipeType, TodoOk, VouchInv, Aside
<1>2. ApprovedCause' /\ (Vouched => Vouched')
  BY <1>1 DEF VouchInv, ApprovedCause, Vouched
<1>3. Sources \subseteq Threads
  BY DEF Threads
<1>4. ASSUME \A u \in Threads : Spoken(todo'[u]) => Spoken(todo[u])
      PROVE  VouchInv'
  BY <1>1, <1>2, <1>4 DEF VouchInv
<1>5. ASSUME NEW t \in Threads, NEW fs, Starts(t, fs),
             \A k \in 1..Len(fs) : ~Speaks(fs[k])
      PROVE  VouchInv'
  <2>1. ~Spoken(fs) /\ todo' = [todo EXCEPT ![t] = fs]
    BY <1>5 DEF Starts, Spoken
  <2>2. QED
    BY <1>1, <1>4, <2>1
<1>6. ASSUME NEW t \in Threads, StartWork(t) PROVE VouchInv'
  BY <1>5, <1>6 DEF StartWork, Fresh
<1>7. ASSUME NEW t \in Threads, ApproveWork(t) PROVE VouchInv'
  <2>1. PICK r \in 1..Len(runs), g \in FrameType : Starts(t, <<g>>) /\ ~Speaks(g)
    BY <1>7 DEF ApproveWork
  <2>2. \A k \in 1..Len(<<g>>) : <<g>>[k] = g
    OBVIOUS
  <2>3. QED
    BY <1>5, <2>1, <2>2
<1>8. ASSUME NEW s \in Sources, PollWork(s) PROVE VouchInv'
  BY <1>3, <1>5, <1>8 DEF PollWork, Polled
<1>9. CASE HourCounter
  <2>1. ASSUME NEW t \in Threads, Spoken(todo'[t]) PROVE Spoken(todo[t])
    <3>1. /\ Len(todo'[t]) = Len(todo[t])
          /\ \A k \in 1..Len(todo[t]) : /\ todo'[t][k].op = todo[t][k].op
                                        /\ todo'[t][k].own = todo[t][k].own
                                        /\ todo'[t][k].act = todo[t][k].act
      BY <1>9, HourIs DEF PipeType
    <3>2. PICK k \in 1..Len(todo'[t]) : Speaks(todo'[t][k])
      BY <2>1 DEF Spoken
    <3>3. Speaks(todo[t][k])
      BY <3>1, <3>2 DEF Speaks
    <3>4. QED
      BY <3>1, <3>2, <3>3 DEF Spoken
  <2>2. QED
    BY <1>4, <2>1
<1>10. CASE Restart
  <2>1. \A t \in Threads : todo'[t] = <<>>
    BY <1>10 DEF Restart
  <2>2. ~Spoken(<<>>)
    BY DEF Spoken
  <2>3. QED
    BY <1>4, <2>1, <2>2
<1>11. ASSUME todo' = todo PROVE VouchInv'
  BY <1>4, <1>11
<1>12. ASSUME NEW s \in Sources, Append1(s) \/ Rotate(s) PROVE todo' = todo
  BY <1>12 DEF Append1, Rotate
<1>13. QED
  BY <1>6, <1>7, <1>8, <1>9, <1>10, <1>11, <1>12 DEF Aside

\* For any threads and playbooks, whatever is approved, edited or restarted in
\* between: no run is started by an event that playbooks.on_event's own run has
\* emitted inside its guard, and one that is started by an event of a run resumed by
\* approve_run, outside the guard, is younger than a run an operator approved.
\* (The notice of a mail that such an event asked for is another event.)
THEOREM NoSelfTriggering == Spec => []NoSelfTrigger
<1>1. Init => GuardInv /\ VouchInv
  <2> SUFFICES ASSUME Init PROVE GuardInv /\ VouchInv
    OBVIOUS
  <2>1. runs = <<>> /\ \A t \in Threads : todo[t] = <<>>
    BY DEF Init
  <2>2. Guarded(<<>>) /\ ~Spoken(<<>>)
    BY GuardedNone DEF Spoken
  <2>3. QED
    BY <2>1, <2>2 DEF GuardInv, NoOwnRun, VouchInv, ApprovedCause
<1>2. PipeInv /\ GuardInv /\ VouchInv /\ [Next]_vars => GuardInv' /\ VouchInv'
  BY NextIs, AsideGuard, WorkGuard, AsideVouch, WorkVouch DEF PipeInv
<1>3. PipeInv /\ GuardInv /\ VouchInv => NoSelfTrigger
  <2>1. PipeInv => DOMAIN runs = 1..Len(runs)
    BY DEF PipeInv, PipeType, BookOk
  <2>2. QED
    BY <2>1 DEF GuardInv, NoOwnRun, VouchInv, ApprovedCause, NoSelfTrigger
<1>4. QED
  BY <1>1, <1>2, <1>3, PipeHolds, PTL DEF Spec
-----------------------------------------------------------------------------
\* The steps of run r among the frames q, and whether an approval of it is there.
StepsOf(q, r) == {k \in 1..Len(q) : q[k].op = "step" /\ q[k].n = r}
Approval(q, r) == \E k \in 1..Len(q) : q[k].op = "resume" /\ q[k].n = r

AtMostOne(q, r) == \A j, k \in StepsOf(q, r) : j = k
NoStep(T, r) == \A t \in Threads : StepsOf(T[t], r) = {}
OneStep(T, r) ==
    /\ \A t \in Threads : AtMostOne(T[t], r)
    /\ \A t, u \in Threads : t # u => StepsOf(T[t], r) = {} \/ StepsOf(T[u], r) = {}

\* A run that nobody, or one operator, has approved is executed by one thread at
\* most, by none while it waits; and while its first approval is under way, it waits.
Gate(T, run, r) == run.approved < 2 =>
    /\ OneStep(T, r)
    /\ run.status = "awaiting_approval" => NoStep(T, r)
    /\ run.approved = 0 /\ (\E t \in Threads : Approval(T[t], r)) =>
          run.status = "awaiting_approval"

GateInv == \A r \in 1..Len(runs) : Gate(todo, runs[r], r)

\* What a frame that was not executed has become.
LEMMA StepsPush ==
  ASSUME NEW q \in Stack, q # <<>>, NEW fs \in Stack, NEW r
  PROVE  /\ StepsOf(fs, r) = {} /\ AtMostOne(q, r) => AtMostOne(fs \o Tail(q), r)
         /\ StepsOf(fs, r) = {} /\ StepsOf(q, r) = {} => StepsOf(fs \o Tail(q), r) = {}
         /\ StepsOf(q, r) \subseteq {1} /\ AtMostOne(fs, r) =>
               AtMostOne(fs \o Tail(q), r)
         /\ StepsOf(q, r) \subseteq {1} /\ StepsOf(fs, r) = {} =>
               StepsOf(fs \o Tail(q), r) = {}
<1> DEFINE p == fs \o Tail(q)
<1>1. q \in Seq(FrameType) /\ fs \in Seq(FrameType)
  BY DEF Stack
<1>2. /\ \A j \in 1..Len(fs) : p[j] = fs[j]
      /\ \A j \in 1..Len(p) : j > Len(fs) => /\ p[j] = q[j - Len(fs) + 1]
                                             /\ j - Len(fs) + 1 \in 2..Len(q)
      /\ Len(p) \in Nat /\ Len(fs) \in Nat /\ Len(q) \in Nat
  BY <1>1, Pushed
<1> HIDE DEF p
<1>3. ASSUME NEW k \in StepsOf(p, r)
      PROVE  \/ k \in StepsOf(fs, r)
             \/ k - Len(fs) + 1 \in StepsOf(q, r) /\ k - Len(fs) + 1 # 1
  <2>1. k \in 1..Len(p) /\ p[k].op = "step" /\ p[k].n = r
    BY DEF StepsOf
  <2>2. CASE k =< Len(fs)
    <3>1. k \in 1..Len(fs)
      BY <1>2, <2>1, <2>2
    <3>2. QED
      BY <1>2, <2>1, <3>1 DEF StepsOf
  <2>3. CASE k > Len(fs)
    <3> DEFINE j == k - Len(fs) + 1
    <3>1. p[k] = q[j] /\ j \in 1..Len(q) /\ j # 1
      BY <1>2, <2>1, <2>3
    <3> HIDE DEF j
    <3>2. j \in StepsOf(q, r)
      BY <2>1, <3>1 DEF StepsOf
    <3>3. QED
      BY <3>1, <3>2 DEF j
  <2>4. QED
    BY <1>2, <2>1, <2>2, <2>3
<1>4. \A k \in StepsOf(p, r) : k \in Nat
  BY <1>2 DEF StepsOf
<1>5. StepsOf(fs, r) = {} /\ StepsOf(q, r) = {} => StepsOf(p, r) = {}
  BY <1>3
<1>6. StepsOf(q, r) \subseteq {1} /\ StepsOf(fs, r) = {} => StepsOf(p, r) = {}
  BY <1>3
<1>7. StepsOf(q, r) \subseteq {1} /\ AtMostOne(fs, r) => AtMostOne(p, r)
  BY <1>3 DEF AtMostOne
<1>8. ASSUME StepsOf(fs, r) = {}, AtMostOne(q, r),
             NEW j \in StepsOf(p, r), NEW k \in StepsOf(p, r)
      PROVE  j = k
  <2>1. j - Len(fs) + 1 = k - Len(fs) + 1
    BY <1>3, <1>8 DEF AtMostOne
  <2>2. QED
    BY <1>2, <1>4, <2>1
<1>9. StepsOf(fs, r) = {} /\ AtMostOne(q, r) => AtMostOne(p, r)
  BY <1>8 DEF AtMostOne
<1>10. QED
  BY <1>5, <1>6, <1>7, <1>9 DEF p

\* No frame calls for an approval.
LEMMA ApprovalPush ==
  ASSUME NEW q \in Stack, q # <<>>, NEW fs \in Stack, NEW r,
         \A k \in 1..Len(fs) : fs[k].op # "resume", Approval(fs \o Tail(q), r)
  PROVE  Approval(q, r)
<1> DEFINE p == fs \o Tail(q)
<1>1. q \in Seq(FrameType) /\ fs \in Seq(FrameType)
  BY DEF Stack
<1>2. /\ \A j \in 1..Len(fs) : p[j] = fs[j]
      /\ \A j \in 1..Len(p) : j > Len(fs) => /\ p[j] = q[j - Len(fs) + 1]
                                             /\ j - Len(fs) + 1 \in 2..Len(q)
      /\ Len(p) \in Nat /\ Len(fs) \in Nat /\ Len(q) \in Nat
  BY <1>1, Pushed
<1>3. Approval(p, r)
  OBVIOUS
<1> HIDE DEF p
<1>4. PICK k \in 1..Len(p) : p[k].op = "resume" /\ p[k].n = r
  BY <1>3 DEF Approval
<1>5. k > Len(fs)
  <2>1. k \notin 1..Len(fs)
    BY <1>2, <1>4
  <2>2. QED
    BY <1>2, <1>4, <2>1
<1> DEFINE j == k - Len(fs) + 1
<1>6. p[k] = q[j] /\ j \in 1..Len(q)
  BY <1>2, <1>5
<1> HIDE DEF j
<1>7. QED
  BY <1>4, <1>6 DEF Approval

\* One thread's frames change from T[t] to p, and execute r no more than before.
LEMMA OneStepStays ==
  ASSUME NEW T, DOMAIN T = Threads, NEW t \in Threads, NEW p, NEW U,
         U = [T EXCEPT ![t] = p], NEW r, AtMostOne(p, r),
         OneStep(T, r), StepsOf(T[t], r) = {} => StepsOf(p, r) = {}
  PROVE  OneStep(U, r) /\ (NoStep(T, r) => NoStep(U, r))
<1>1. U[t] = p /\ \A u \in Threads : u # t => U[u] = T[u]
  OBVIOUS
<1>2. \A u \in Threads : AtMostOne(U[u], r)
  BY <1>1 DEF OneStep
<1>3. \A u \in Threads : StepsOf(T[u], r) = {} => StepsOf(U[u], r) = {}
  BY <1>1
<1>4. \A u, v \in Threads : u # v => StepsOf(U[u], r) = {} \/ StepsOf(U[v], r) = {}
  BY <1>3 DEF OneStep
<1>5. QED
  BY <1>2, <1>3, <1>4 DEF OneStep, NoStep

\* They change while no other thread executes r.
LEMMA OneStepHere ==
  ASSUME NEW T, DOMAIN T = Threads, NEW t \in Threads, NEW p, NEW U,
         U = [T EXCEPT ![t] = p], NEW r, AtMostOne(p, r),
         \A u \in Threads : u # t => StepsOf(T[u], r) = {}
  PROVE  OneStep(U, r) /\ (StepsOf(p, r) = {} => NoStep(U, r))
<1>1. U[t] = p /\ \A u \in Threads : u # t => U[u] = T[u]
  OBVIOUS
<1>2. \A u \in Threads : u # t => StepsOf(U[u], r) = {}
  BY <1>1
<1>3. \A u \in Threads : AtMostOne(U[u], r)
  BY <1>1, <1>2 DEF AtMostOne
<1>4. QED
  BY <1>1, <1>2, <1>3 DEF OneStep, NoStep

\* A run that is executed only by the head frame of t.
LEMMA OnlyHere ==
  ASSUME NEW T, NEW t \in Threads, NEW r, OneStep(T, r), 1 \in StepsOf(T[t], r)
  PROVE  /\ StepsOf(T[t], r) \subseteq {1}
         /\ \A u \in Threads : u # t => StepsOf(T[u], r) = {}
         /\ ~NoStep(T, r)
BY DEF OneStep, NoStep, AtMostOne
-----------------------------------------------------------------------------
\* What t's head frame calls for is no approval: those under way were before.
LEMMA ApprovalStays ==
  ASSUME TodoOk, NEW t \in Threads, NEW fs \in Stack, Pushes(t, fs), NEW r,
         \A k \in 1..Len(fs) : fs[k].op # "resume",
         \E u \in Threads : Approval(todo'[u], r)
  PROVE  \E u \in Threads : Approval(todo[u], r)
<1>1. PICK u \in Threads : Approval(todo'[u], r)
  OBVIOUS
<1>2. CASE u = t
  <2>1. todo[t] \in Stack /\ todo[t] # <<>> /\ todo'[t] = fs \o Tail(todo[t])
    BY DEF TodoOk, Pushes
  <2>2. Approval(todo[t], r)
    BY <1>1, <1>2, <2>1, ApprovalPush
  <2>3. QED
    BY <2>2
<1>3. CASE u # t
  <2>1. todo'[u] = todo[u]
    BY <1>3 DEF TodoOk, Pushes
  <2>2. QED
    BY <1>1, <2>1
<1>4. QED
  BY <1>2, <1>3

\* A frame that is no step of r and calls for none.
LEMMA GatePush ==
  ASSUME TodoOk, NEW t \in Threads, NEW fs \in Stack, Pushes(t, fs), NEW r, NEW run,
         \A k \in 1..Len(fs) : fs[k].op # "resume", StepsOf(fs, r) = {},
         Gate(todo, run, r)
  PROVE  Gate(todo', run, r)
<1> DEFINE p == fs \o Tail(todo[t])
<1>1. todo[t] \in Stack /\ todo[t] # <<>> /\ DOMAIN todo = Threads
      /\ todo' = [todo EXCEPT ![t] = p]
  BY DEF TodoOk, Pushes
<1>2. (\E u \in Threads : Approval(todo'[u], r)) => \E u \in Threads : Approval(todo[u], r)
  BY ApprovalStays
<1>3. ASSUME OneStep(todo, r) PROVE OneStep(todo', r) /\ (NoStep(todo, r) => NoStep(todo', r))
  <2>1. AtMostOne(todo[t], r)
    BY <1>3 DEF OneStep
  <2>2. AtMostOne(p, r) /\ (StepsOf(todo[t], r) = {} => StepsOf(p, r) = {})
    BY <1>1, <2>1, StepsPush
  <2> HIDE DEF p
  <2>3. QED
    BY <1>1, <1>3, <2>2, OneStepStays
<1>4. QED
  BY <1>2, <1>3 DEF Gate

\* The head frame of t, a step of r, ends the run or goes on with it.
LEMMA GateStep ==
  ASSUME TodoOk, NEW t \in Threads, NEW fs \in Stack, Pushes(t, fs), NEW r,
         \A k \in 1..Len(fs) : fs[k].op # "resume", AtMostOne(fs, r),
         OneStep(todo, r), 1 \in StepsOf(todo[t], r)
  PROVE  OneStep(todo', r) /\ (StepsOf(fs, r) = {} => NoStep(todo', r))
<1> DEFINE p == fs \o Tail(todo[t])
<1>1. todo[t] \in Stack /\ todo[t] # <<>> /\ DOMAIN todo = Threads
      /\ todo' = [todo EXCEPT ![t] = p]
  BY DEF TodoOk, Pushes
<1>2. /\ StepsOf(todo[t], r) \subseteq {1}
      /\ \A u \in Threads : u # t => StepsOf(todo[u], r) = {}
  BY OnlyHere
<1>3. AtMostOne(p, r) /\ (StepsOf(fs, r) = {} => StepsOf(p, r) = {})
  BY <1>1, <1>2, StepsPush
<1> HIDE DEF p
<1>4. OneStep(todo', r) /\ (StepsOf(p, r) = {} => NoStep(todo', r))
  BY <1>1, <1>2, <1>3, OneStepHere
<1>5. QED
  BY <1>3, <1>4

\* Nobody executes r, and t starts to.
LEMMA GateStart ==
  ASSUME TodoOk, NEW t \in Threads, NEW fs \in Stack, Pushes(t, fs), NEW r,
         AtMostOne(fs, r), NoStep(todo, r)
  PROVE  OneStep(todo', r)
<1> DEFINE p == fs \o Tail(todo[t])
<1>1. todo[t] \in Stack /\ todo[t] # <<>> /\ DOMAIN todo = Threads
      /\ todo' = [todo EXCEPT ![t] = p]
  BY DEF TodoOk, Pushes
<1>2. /\ StepsOf(todo[t], r) = {}
      /\ \A u \in Threads : u # t => StepsOf(todo[u], r) = {}
  BY DEF NoStep
<1>3. AtMostOne(p, r)
  BY <1>1, <1>2, StepsPush
<1> HIDE DEF p
<1>4. OneStep(todo', r) /\ (StepsOf(p, r) = {} => NoStep(todo', r))
  BY <1>1, <1>2, <1>3, OneStepHere
<1>5. QED
  BY <1>3, <1>4

\* The work of a thread keeps the gate.
LEMMA WorkGate ==
  ASSUME PipeType, GateInv, NEW t \in Threads, Work(t)
  PROVE  GateInv'
<1> DEFINE f == Top(t)
<1>1. /\ TodoOk /\ runs \in Seq(RunType) /\ Len(runs) \in Nat
      /\ \A r \in 1..Len(runs) : Gate(todo, runs[r], r)
  BY DEF PipeType, BookOk, GateInv
<1>2. /\ todo[t] \in Seq(FrameType)
      /\ todo[t] # <<>> => f \in FrameType /\ f = todo[t][1] /\ 1 \in 1..Len(todo[t])
  BY <1>1 DEF TodoOk, Stack, Top
<1>3. todo[t] # <<>> /\ f.op \in {"step", "resume"} => f.n \in 1..Len(runs)
  BY <1>2 DEF PipeType, KnownRuns, Known
<1>4. WorkKinds(t)
  BY WorkIs
<1> HIDE DEF f
<1>5. CASE PlainWork(t, f)
  <2>1. PICK fs \in Stack : Pushes(t, fs) /\ Plain(f, fs, Reached(t)) /\ runs' = runs
    BY <1>5 DEF PlainWork
  <2>2. ASSUME NEW r \in 1..Len(runs) PROVE Gate(todo', runs[r], r)
    <3>1. (\A k \in 1..Len(fs) : fs[k].op # "resume") /\ StepsOf(fs, r) = {}
      BY <2>1 DEF Plain, StepsOf
    <3>2. Gate(todo, runs[r], r)
      BY <1>1
    <3>3. QED
      BY <1>1, <2>1, <3>1, <3>2, GatePush
  <2>3. QED
    BY <2>1, <2>2 DEF GateInv
<1>6. CASE EndWork(t, f)
  <2>1. PICK fs \in Stack : /\ Pushes(t, fs) /\ Plain(f, fs, Reached(t))
                            /\ f.op = "step" /\ Ends(f.n)
    BY <1>6 DEF EndWork
  <2>2. f.n \in 1..Len(runs) /\ 1 \in StepsOf(todo[t], f.n)
    BY <1>2, <1>3, <2>1 DEF Pushes, StepsOf
  <2>3. /\ Len(runs') = Len(runs)
        /\ \A s \in 1..Len(runs) : s # f.n => runs'[s] = runs[s]
    BY <2>1, <2>2, RunsAre
  <2>4. \A k \in 1..Len(fs) : fs[k].op # "resume"
    BY <2>1 DEF Plain
  <2>5. \A r \in 1..Len(runs) : StepsOf(fs, r) = {}
    BY <2>1 DEF Plain, StepsOf
  <2>6. ASSUME NEW r \in 1..Len(runs) PROVE Gate(todo', runs'[r], r)
    <3>1. CASE r # f.n
      <4>1. Gate(todo, runs[r], r) /\ StepsOf(fs, r) = {} /\ runs'[r] = runs[r]
        BY <1>1, <2>3, <2>5, <3>1
      <4>2. Gate(todo', runs[r], r)
        BY <1>1, <2>1, <2>4, <4>1, GatePush
      <4>3. QED
        BY <4>1, <4>2
    <3>2. CASE r = f.n
      <4>1. runs'[r].approved = runs[r].approved
        BY <2>1, <3>2, EndsIs
      <4>2. SUFFICES ASSUME runs[r].approved < 2
                     PROVE  /\ OneStep(todo', r) /\ NoStep(todo', r)
                            /\ runs[r].approved = 0 =>
                                  ~\E u \in Threads : Approval(todo'[u], r)
        BY <4>1 DEF Gate
      <4>3. OneStep(todo, r) /\ 1 \in StepsOf(todo[t], r) /\ Gate(todo, runs[r], r)
        BY <1>1, <2>2, <3>2, <4>2 DEF Gate
      <4>4. StepsOf(fs, r) = {} /\ AtMostOne(fs, r)
        BY <2>5 DEF AtMostOne
      <4>5. OneStep(todo', r) /\ NoStep(todo', r)
        BY <1>1, <2>1, <2>4, <4>3, <4>4, GateStep
      <4>6. ~NoStep(todo, r)
        BY <4>3, OnlyHere
      <4>7. runs[r].approved = 0 => ~\E u \in Threads : Approval(todo[u], r)
        BY <4>2, <4>3, <4>6 DEF Gate
      <4>8. (\E u \in Threads : Approval(todo'[u], r)) =>
              \E u \in Threads : Approval(todo[u], r)
        BY <1>1, <2>1, <2>4, ApprovalStays
      <4>9. QED
        BY <4>5, <4>7, <4>8
    <3>3. QED
      BY <3>1, <3>2
  <2>7. QED
    BY <2>3, <2>6 DEF GateInv
<1>7. CASE StepWork(t, f)
  <2>1. PICK fs \in Stack : Pushes(t, fs) /\ OnStep(f, fs) /\ runs' = runs
    BY <1>7 DEF StepWork
  <2>2. f.n \in 1..Len(runs) /\ 1 \in StepsOf(todo[t], f.n)
    BY <1>2, <1>3, <2>1 DEF Pushes, StepsOf, OnStep
  <2>3. \A k \in 1..Len(fs) : fs[k].op # "resume"
    BY <2>1 DEF OnStep
  <2>4. AtMostOne(fs, f.n) /\ \A r \in 1..Len(runs) : r # f.n => StepsOf(fs, r) = {}
    BY <2>1 DEF OnStep, AtMostOne, StepsOf
  <2>5. ASSUME NEW r \in 1..Len(runs) PROVE Gate(todo', runs[r], r)
    <3>1. CASE r # f.n
      <4>1. Gate(todo, runs[r], r) /\ StepsOf(fs, r) = {}
        BY <1>1, <2>4, <3>1
      <4>2. QED
        BY <1>1, <2>1, <2>3, <4>1, GatePush
    <3>2. CASE r = f.n
      <4>1. SUFFICES ASSUME runs[r].approved < 2 PROVE Gate(todo', runs[r], r)
        BY DEF Gate
      <4>2. OneStep(todo, r) /\ 1 \in StepsOf(todo[t], r) /\ Gate(todo, runs[r], r)
        BY <1>1, <2>2, <3>2, <4>1 DEF Gate
      <4>3. OneStep(todo', r)
        BY <1>1, <2>1, <2>3, <2>4, <3>2, <4>2, GateStep
      <4>4. ~NoStep(todo, r)
        BY <4>2, OnlyHere
      <4>5. (\E u \in Threads : Approval(todo'[u], r)) =>
              \E u \in Threads : Approval(todo[u], r)
        BY <1>1, <2>1, <2>3, ApprovalStays
      <4>6. QED
        BY <4>1, <4>2, <4>3, <4>4, <4>5 DEF Gate
    <3>3. QED
      BY <3>1, <3>2
  <2>6. QED
    BY <2>1, <2>5 DEF GateInv
<1>8. CASE RunWork(t, f)
  <2> DEFINE N == Len(runs) + 1
  <2>1. PICK fs \in Stack : /\ Pushes(t, fs) /\ NewStep(fs, N)
                            /\ runs' = Append(runs, NewRun(f))
    BY <1>8 DEF RunWork
  <2>2. NewRun(f) \in RunType /\ NewRun(f).status = "running"
    BY <1>2, <2>1, NewRunIs DEF Pushes
  <2>3. /\ Len(runs') = N /\ runs'[N] = NewRun(f)
        /\ \A r \in 1..Len(runs) : runs'[r] = runs[r]
        /\ \A r \in 1..N : r = N \/ r \in 1..Len(runs)
        /\ \A r \in 1..Len(runs) : r # N
    BY <1>1, <2>1
  <2>4. \A k \in 1..Len(fs) : k = 1 \/ k = 2
    BY <2>1 DEF NewStep
  <2>5. /\ \A k \in 1..Len(fs) : fs[k].op # "resume"
        /\ AtMostOne(fs, N)
        /\ \A r \in 1..Len(runs) : StepsOf(fs, r) = {}
    BY <2>1, <2>3, <2>4 DEF NewStep, StepsOf, AtMostOne
  <2>6. \A u \in Threads : Known(todo[u], Len(runs))
    BY DEF PipeType, KnownRuns
  <2>7. NoStep(todo, N) /\ \A u \in Threads : ~Approval(todo[u], N)
    <3>1. N \notin 1..Len(runs)
      BY <1>1
    <3> HIDE DEF N
    <3>2. QED
      BY <2>6, <3>1 DEF NoStep, Known, StepsOf, Approval
  <2> HIDE DEF N
  <2>8. OneStep(todo', N)
    BY <1>1, <2>1, <2>5, <2>7, GateStart
  <2>9. ~\E u \in Threads : Approval(todo'[u], N)
    BY <1>1, <2>1, <2>5, <2>7, ApprovalStays
  <2>10. Gate(todo', runs'[N], N)
    BY <2>2, <2>3, <2>8, <2>9 DEF Gate
  <2>11. ASSUME NEW r \in 1..Len(runs) PROVE Gate(todo', runs[r], r)
    <3>1. Gate(todo, runs[r], r) /\ StepsOf(fs, r) = {}
      BY <1>1, <2>5
    <3>2. QED
      BY <1>1, <2>1, <2>5, <3>1, GatePush
  <2>12. QED
    BY <2>3, <2>10, <2>11 DEF GateInv
<1>9. CASE ResumeWork(t, f)
  <2>1. PICK fs \in Stack : /\ Pushes(t, fs) /\ Resumed(fs, f.n) /\ f.op = "resume"
          /\ runs' = [runs EXCEPT ![f.n].status = "running", ![f.n].approved = @ + 1]
    BY <1>9 DEF ResumeWork
  <2>2. f.n \in 1..Len(runs) /\ Approval(todo[t], f.n)
    BY <1>2, <1>3, <2>1 DEF Pushes, Approval
  <2>3. /\ Len(runs') = Len(runs)
        /\ \A s \in 1..Len(runs) : s # f.n => runs'[s] = runs[s]
    BY <2>1, <2>2, RunsAre
  <2>4. \A k \in 1..Len(fs) : k = 1 \/ k = 2
    BY <2>1 DEF Resumed
  <2>5. /\ \A k \in 1..Len(fs) : fs[k].op # "resume"
        /\ AtMostOne(fs, f.n)
        /\ \A r \in 1..Len(runs) : r # f.n => StepsOf(fs, r) = {}
    BY <2>1, <2>4 DEF Resumed, StepsOf, AtMostOne
  <2>6. ASSUME NEW r \in 1..Len(runs) PROVE Gate(todo', runs'[r], r)
    <3>1. CASE r # f.n
      <4>1. Gate(todo, runs[r], r) /\ StepsOf(fs, r) = {} /\ runs'[r] = runs[r]
        BY <1>1, <2>3, <2>5, <3>1
      <4>2. Gate(todo', runs[r], r)
        BY <1>1, <2>1, <2>5, <4>1, GatePush
      <4>3. QED
        BY <4>1, <4>2
    <3>2. CASE r = f.n
      <4>1. runs[r] \in RunType /\ runs[r].approved \in Nat
        <5>1. runs[r] \in RunType
          BY <1>1
        <5>2. QED
          BY <5>1 DEF RunType
      <4>2. runs'[r].status = "running" /\ runs'[r].approved = runs[r].approved + 1
        <5>1. /\ runs'[f.n].status = "running"
              /\ runs'[f.n].approved = runs[f.n].approved + 1
          BY <2>1, <2>2, ResumesIs
        <5>2. QED
          BY <3>2, <5>1
      <4>3. SUFFICES ASSUME runs[r].approved = 0 PROVE OneStep(todo', r)
        BY <4>1, <4>2 DEF Gate
      <4>4. NoStep(todo, r)
        BY <1>1, <2>2, <3>2, <4>3 DEF Gate
      <4>5. QED
        BY <1>1, <2>1, <2>5, <3>2, <4>4, GateStart
    <3>3. QED
      BY <3>1, <3>2
  <2>7. QED
    BY <2>3, <2>6 DEF GateInv
<1>10. CASE DropWork(t)
  <2>1. todo' = [todo EXCEPT ![t] = <<>>] /\ runs' = runs /\ DOMAIN todo = Threads
    BY <1>1, <1>10 DEF DropWork, Drops, TodoOk
  <2>2. \A r : StepsOf(<<>>, r) = {} /\ AtMostOne(<<>>, r) /\ ~Approval(<<>>, r)
    BY DEF StepsOf, AtMostOne, Approval
  <2>3. ASSUME NEW r \in 1..Len(runs) PROVE Gate(todo', runs[r], r)
    <3>1. Gate(todo, runs[r], r)
      BY <1>1
    <3>2. OneStep(todo, r) => OneStep(todo', r) /\ (NoStep(todo, r) => NoStep(todo', r))
      BY <2>1, <2>2, OneStepStays
    <3>3. \A u \in Threads : Approval(todo'[u], r) => Approval(todo[u], r)
      BY <2>1, <2>2
    <3>4. QED
      BY <3>1, <3>2, <3>3 DEF Gate
  <2>4. QED
    BY <2>1, <2>3 DEF GateInv
<1>11. QED
  BY <1>4, <1>5, <1>6, <1>7, <1>8, <1>9, <1>10 DEF WorkKinds, f

\* A thread starts with frames that are no steps; an approval is of a run that waits.
LEMMA GateBegin ==
  ASSUME TodoOk, NEW t \in Threads, NEW fs, Starts(t, fs), NEW r, NEW run,
         \A k \in 1..Len(fs) : fs[k].op # "step",
         Approval(fs, r) => run.status = "awaiting_approval", Gate(todo, run, r)
  PROVE  Gate(todo', run, r)
<1>1. todo' = [todo EXCEPT ![t] = fs] /\ DOMAIN todo = Threads
  BY DEF TodoOk, Starts
<1>2. StepsOf(fs, r) = {} /\ AtMostOne(fs, r)
  BY DEF StepsOf, AtMostOne
<1>3. OneStep(todo, r) => OneStep(todo', r) /\ (NoStep(todo, r) => NoStep(todo', r))
  BY <1>1, <1>2, OneStepStays
<1>4. ASSUME NEW u \in Threads, Approval(todo'[u], r)
      PROVE  run.status = "awaiting_approval" \/ Approval(todo[u], r)
  <2>1. CASE u = t
    BY <1>1, <1>4, <2>1
  <2>2. CASE u # t
    BY <1>1, <1>4, <2>2
  <2>3. QED
    BY <2>1, <2>2
<1>5. QED
  BY <1>3, <1>4 DEF Gate

\* The frames of all threads keep what they are and the run they are of.
LEMMA GateSame ==
  ASSUME NEW T, NEW U, NEW r, NEW run,
         \A t \in Threads : Len(U[t]) = Len(T[t]) /\ \A k \in 1..Len(T[t]) :
            U[t][k].op = T[t][k].op /\ U[t][k].n = T[t][k].n,
         Gate(T, run, r)
  PROVE  Gate(U, run, r)
<1>1. ASSUME NEW t \in Threads
      PROVE  StepsOf(U[t], r) = StepsOf(T[t], r) /\ (Approval(U[t], r) => Approval(T[t], r))
  BY DEF StepsOf, Approval
<1>2. OneStep(T, r) => OneStep(U, r)
  BY <1>1 DEF OneStep, AtMostOne
<1>3. NoStep(T, r) => NoStep(U, r)
  BY <1>1 DEF NoStep
<1>4. QED
  BY <1>1, <1>2, <1>3 DEF Gate

\* So does a step aside.
LEMMA AsideGate ==
  ASSUME PipeType, GateInv, Aside
  PROVE  GateInv'
<1>1. /\ TodoOk /\ runs' = runs /\ \A r \in 1..Len(runs) : Gate(todo, runs[r], r)
  BY DEF PipeType, GateInv, Aside
<1>2. Sources \subseteq Threads
  BY DEF Threads
<1>3. SUFFICES ASSUME NEW r \in 1..Len(runs) PROVE Gate(todo', runs[r], r)
  BY <1>1 DEF GateInv
<1>4. Gate(todo, runs[r], r)
  BY <1>1
<1>5. ASSUME NEW t \in Threads, StartWork(t) PROVE Gate(todo', runs[r], r)
  <2>1. PICK fs \in Stack : Starts(t, fs) /\ Fresh(fs)
    BY <1>5 DEF StartWork
  <2>2. (\A k \in 1..Len(fs) : fs[k].op # "step") /\ ~Approval(fs, r)
    BY <2>1 DEF Fresh, Approval
  <2>3. QED
    BY <1>1, <1>4, <2>1, <2>2, GateBegin
<1>6. ASSUME NEW t \in Threads, ApproveWork(t) PROVE Gate(todo', runs[r], r)
  <2>1. PICK s \in 1..Len(runs), g \in FrameType :
          /\ Starts(t, <<g>>) /\ g.op = "resume" /\ g.n = s
          /\ runs[s].status = "awaiting_approval"
    BY <1>6 DEF ApproveWork
  <2> DEFINE fs == <<g>>
  <2>2. \A k \in 1..Len(fs) : fs[k] = g
    OBVIOUS
  <2> HIDE DEF fs
  <2>3. /\ \A k \in 1..Len(fs) : fs[k].op # "step"
        /\ Approval(fs, r) => runs[r].status = "awaiting_approval"
    BY <2>1, <2>2 DEF Approval
  <2>4. Starts(t, fs)
    BY <2>1 DEF fs
  <2>5. QED
    BY <1>1, <1>4, <2>3, <2>4, GateBegin
<1>7. ASSUME NEW s \in Sources, PollWork(s) PROVE Gate(todo', runs[r], r)
  <2>1. PICK fs \in Stack :
          Starts(s, fs) /\ Polled(src[s].file, ReadFrom(s), fs, gone')
    BY <1>7 DEF PollWork
  <2>2. (\A k \in 1..Len(fs) : fs[k].op # "step") /\ ~Approval(fs, r)
    BY <2>1 DEF Polled, Approval
  <2>3. QED
    BY <1>1, <1>2, <1>4, <2>1, <2>2, GateBegin
<1>8. CASE HourCounter
  <2>1. \A t \in Threads : Len(todo'[t]) = Len(todo[t]) /\ \A k \in 1..Len(todo[t]) :
          todo'[t][k].op = todo[t][k].op /\ todo'[t][k].n = todo[t][k].n
    BY <1>1, <1>8, HourIs
  <2>2. QED
    BY <1>4, <2>1, GateSame
<1>9. CASE Restart
  <2>1. \A t \in Threads : todo'[t] = <<>>
    BY <1>9 DEF Restart
  <2>2. \A t \in Threads : StepsOf(todo'[t], r) = {} /\ ~Approval(todo'[t], r)
    BY <2>1 DEF StepsOf, Approval
  <2>3. QED
    BY <2>2 DEF Gate, OneStep, NoStep, AtMostOne
<1>10. ASSUME NEW s \in Sources, Append1(s) \/ Rotate(s) PROVE todo' = todo
  BY <1>10 DEF Append1, Rotate
<1>11. ASSUME todo' = todo PROVE Gate(todo', runs[r], r)
  BY <1>4, <1>11
<1>12. QED
  BY <1>5, <1>6, <1>7, <1>8, <1>9, <1>10, <1>11 DEF Aside

\* For any threads, operators and playbooks: while a run waits for its approval no
\* thread executes a step of it, also when the approval races a second one, a
\* restart or an edit of the playbook, unless the run has been approved twice:
\* approve_run writes the status in a later statement than the one that reads it.
THEOREM GatesHold == Spec => []GateHolds
<1>1. Init => GateInv
  <2> SUFFICES ASSUME Init PROVE GateInv
    OBVIOUS
  <2>1. runs = <<>>
    BY DEF Init
  <2>2. QED
    BY <2>1 DEF GateInv
<1>2. PipeInv /\ GateInv /\ [Next]_vars => GateInv'
  BY NextIs, AsideGate, WorkGate DEF PipeInv
<1>3. PipeInv /\ GateInv => GateHolds
  <2> SUFFICES ASSUME PipeInv, GateInv, NEW r \in DOMAIN runs,
                      runs[r].status = "awaiting_approval", runs[r].approved < 2,
                      NEW t \in Threads, NEW k \in DOMAIN todo[t]
               PROVE  ~(todo[t][k].op = "step" /\ todo[t][k].n = r)
    BY DEF GateHolds
  <2>1. r \in 1..Len(runs)
    BY DEF PipeInv, PipeType, BookOk
  <2>2. k \in 1..Len(todo[t])
    BY DEF PipeInv, PipeType, TodoOk, Stack
  <2>3. NoStep(todo, r)
    BY <2>1 DEF GateInv, Gate
  <2>4. QED
    BY <2>2, <2>3 DEF NoStep, StepsOf
<1>4. QED
  BY <1>1, <1>2, <1>3, PipeHolds, PTL DEF Spec
-----------------------------------------------------------------------------
\* A set of numbers has a least one.
LEMMA Least ==
  ASSUME NEW T \in SUBSET Nat, T # {}
  PROVE  \E x \in T : \A y \in T : x =< y
<1> DEFINE R == OpToRel(<, Nat)
<1>1. IsWellFoundedOn(R, Nat)
  BY NatLessThanWellFounded
<1>2. ASSUME NEW x \in Nat, NEW y \in Nat, <<y, x>> \notin R PROVE x =< y
  BY <1>2 DEF OpToRel
<1> HIDE DEF R
<1>3. \E x \in T : \A y \in T : <<y, x>> \notin R
  BY <1>1, WFMin
<1>4. QED
  BY <1>2, <1>3

\* The highest of a set of numbers with a bound, as Max gives it.
LEMMA MaxIsGreatest ==
  ASSUME NEW T \in SUBSET Nat, T # {}, NEW b \in Nat, \A x \in T : x =< b
  PROVE  Max(T) \in T /\ \A y \in T : y =< Max(T)
<1> DEFINE U == {b - x : x \in T}
<1>1. U \in SUBSET Nat
  <2>1. ASSUME NEW x \in T PROVE b - x \in Nat
    BY <2>1
  <2>2. QED
    BY <2>1
<1>2. U # {}
  OBVIOUS
<1>3. PICK u \in U : \A v \in U : u =< v
  BY <1>1, <1>2, Least
<1>4. PICK x \in T : u = b - x
  OBVIOUS
<1>5. ASSUME NEW y \in T PROVE x >= y
  <2>1. b - y \in U
    OBVIOUS
  <2>2. b - x =< b - y
    BY <1>3, <1>4, <2>1
  <2>3. x \in Nat /\ y \in Nat
    OBVIOUS
  <2>4. QED
    BY <2>2, <2>3
<1>6. \E z \in T : \A y \in T : z >= y
  BY <1>5
<1>7. Max(T) \in T /\ \A y \in T : Max(T) >= y
  BY <1>6, Zenon DEF Max
<1>8. QED
  BY <1>7

\* What of the ids up to n, behind the one the forwarder started from, is still in
\* the table was sent.
SentUpTo(E, w, n) == \A e \in E : e.id \in w.base + 1..n => e.id \in w.sent

\* Ids are handed out in order; neither offset is ahead of them, and everything up
\* to the offset, and up to the one about to be saved, was sent.
FwdInv ==
    /\ TableOk
    /\ \A e \in events : e.id =< nextId
    /\ fwd.off # Never => fwd.off =< nextId /\ SentUpTo(events, fwd, fwd.off)
    /\ fwd.upto =< nextId
    /\ fwd.upto # 0 => fwd.off # Never /\ SentUpTo(events, fwd, fwd.upto)

\* log_event hands out a new id.
LEMMA LogFwd ==
  ASSUME FwdInv, NEW t \in Threads, Log(t)
  PROVE  FwdInv'
<1>1. fwd' = fwd
  BY DEF Log
<1>2. /\ nextId \in Nat /\ events \subseteq EventType /\ fwd \in FwdType
      /\ fwd.upto \in Nat /\ fwd.base \in Nat /\ fwd.off \in Nat \cup {Never}
  BY DEF FwdInv, TableOk, FwdType
<1>3. CASE UNCHANGED <<events, nextId>>
  BY <1>1, <1>3 DEF FwdInv, TableOk, SentUpTo
<1>4. CASE \E b \in BOOLEAN :
             /\ events' = events \cup {[id |-> nextId + 1, line |-> b, old |-> FALSE]}
             /\ nextId' = nextId + 1
  <2>1. PICK b \in BOOLEAN :
          events' = events \cup {[id |-> nextId + 1, line |-> b, old |-> FALSE]}
    BY <1>4
  <2> DEFINE x == [id |-> nextId + 1, line |-> b, old |-> FALSE]
  <2>2. nextId' = nextId + 1
    BY <1>4
  <2>3. x \in EventType /\ x.id = nextId + 1
    BY <1>2 DEF EventType
  <2>4. events' = events \cup {x}
    BY <2>1
  <2> HIDE DEF x
  <2>5. \A e \in events : e.id \in Nat
    BY <1>2 DEF EventType
  <2>6. TableOk'
    BY <1>1, <1>2, <2>2, <2>3, <2>4 DEF TableOk
  <2>7. \A e \in events' : e.id =< nextId'
    BY <1>2, <2>2, <2>3, <2>4, <2>5 DEF FwdInv
  <2>8. ASSUME NEW n \in Nat, n =< nextId, SentUpTo(events, fwd, n)
        PROVE  SentUpTo(events', fwd, n)
    BY <1>2, <2>3, <2>4, <2>8 DEF SentUpTo
  <2>9. QED
    BY <1>1, <1>2, <2>2, <2>6, <2>7, <2>8, PipelineAssumption DEF FwdInv
<1>5. QED
  <2>1. \/ UNCHANGED <<events, nextId>>
        \/ /\ events' = events \cup {[id |-> nextId + 1, line |-> Top(t).act = "line",
                                      old |-> FALSE]}
           /\ nextId' = nextId + 1
    BY DEF Log, Table
  <2>2. (Top(t).act = "line") \in BOOLEAN
    OBVIOUS
  <2>3. QED
    BY <1>3, <1>4, <2>1, <2>2, Zenon

\* Events age and are pruned; the forwarder's record of them stays.
LEMMA AgeFwd ==
  ASSUME FwdInv, TimePasses \/ PruneOnce
  PROVE  FwdInv'
<1>1. fwd' = fwd /\ nextId' = nextId
  BY DEF TimePasses, PruneOnce
<1>2. events \subseteq EventType
  BY DEF FwdInv, TableOk
<1>3. events' \subseteq EventType /\ \A x \in events' : \E e \in events : x.id = e.id
  <2>1. CASE PruneOnce
    BY <1>2, <2>1 DEF PruneOnce
  <2>2. CASE TimePasses
    <3>1. events' = {[e EXCEPT !.old = TRUE] : e \in events}
      BY <2>2 DEF TimePasses
    <3>2. ASSUME NEW e \in EventType
          PROVE  [e EXCEPT !.old = TRUE] \in EventType /\ [e EXCEPT !.old = TRUE].id = e.id
      BY DEF EventType
    <3>3. QED
      BY <1>2, <3>1, <3>2
  <2>3. QED
    BY <2>1, <2>2
<1>4. \A n : SentUpTo(events, fwd, n) => SentUpTo(events', fwd, n)
  BY <1>3 DEF SentUpTo
<1>5. QED
  BY <1>1, <1>3, <1>4 DEF FwdInv, TableOk

\* _forward_tick: the first one starts behind what there is; a later one sends all
\* that is behind the offset.
LEMMA TickFwd ==
  ASSUME FwdInv, ForwardTick
  PROVE  FwdInv'
<1>1. /\ nextId \in Nat /\ events \subseteq EventType /\ fwd \in FwdType
      /\ nextId' = nextId /\ events' = events
  BY DEF FwdInv, TableOk, ForwardTick, Table
<1>2. \A e \in events : e.id \in Nat \ {0} /\ e.id =< nextId
  BY <1>1 DEF FwdInv, EventType
<1>3. CASE fwd' = fwd
  BY <1>1, <1>3 DEF FwdInv, TableOk, SentUpTo
<1>4. CASE LET m == Max({0} \cup {e.id : e \in events})
           IN  fwd.off = Never /\ fwd.upto = 0 /\ fwd' = [fwd EXCEPT !.off = m, !.base = m]
  <2> DEFINE T == {0} \cup {e.id : e \in events}
             m == Max(T)
  <2>1. T \in SUBSET Nat /\ T # {} /\ \A x \in T : x =< nextId
    BY <1>1, <1>2
  <2>2. m \in T
    BY <1>1, <2>1, MaxIsGreatest
  <2> HIDE DEF m
  <2>3. m \in Nat /\ m =< nextId
    BY <2>1, <2>2
  <2> HIDE DEF T
  <2>4. fwd' = [fwd EXCEPT !.off = m, !.base = m]
    BY <1>4 DEF m, T
  <2>5. fwd' \in FwdType /\ fwd'.off = m /\ fwd'.base = m /\ fwd'.upto = 0
    BY <1>1, <1>4, <2>3, <2>4 DEF FwdType
  <2>6. SentUpTo(events, fwd', m)
    BY <1>2, <2>3, <2>5 DEF SentUpTo
  <2>7. QED
    BY <1>1, <1>2, <2>3, <2>5, <2>6 DEF FwdInv, TableOk
<1>5. CASE /\ fwd.off # Never /\ Unsent # {}
           /\ fwd' = [fwd EXCEPT !.sent = @ \cup {e.id : e \in Unsent},
                                 !.upto = Max({e.id : e \in Unsent})]
  <2> DEFINE T == {e.id : e \in Unsent}
             m == Max(T)
  <2>1. T \in SUBSET Nat /\ T # {} /\ \A x \in T : x =< nextId /\ x # 0
    BY <1>2, <1>5 DEF Unsent
  <2>2. m \in T
    BY <1>1, <2>1, MaxIsGreatest
  <2> HIDE DEF m
  <2>3. m \in Nat /\ m =< nextId
    BY <2>1, <2>2
  <2>4. fwd' = [fwd EXCEPT !.sent = fwd.sent \cup T, !.upto = m]
    BY <1>5 DEF m
  <2>5. \A e \in events : e.id > fwd.off => e.id \in T
    BY DEF Unsent
  <2> HIDE DEF T
  <2>6. fwd' \in FwdType /\ fwd'.off = fwd.off /\ fwd'.base = fwd.base /\ fwd'.upto = m
        /\ fwd'.sent = fwd.sent \cup T
    BY <1>1, <2>1, <2>3, <2>4 DEF FwdType
  <2>7. /\ fwd.off \in Nat /\ fwd.off =< nextId /\ SentUpTo(events, fwd, fwd.off)
        /\ fwd.base \in Nat
    BY <1>1, <1>5 DEF FwdInv, FwdType
  <2>8. SentUpTo(events, fwd', fwd.off)
    BY <2>6, <2>7 DEF SentUpTo
  <2>9. SentUpTo(events, fwd', m)
    BY <1>2, <2>3, <2>5, <2>6, <2>7 DEF SentUpTo
  <2>10. QED
    BY <1>1, <1>2, <1>5, <2>3, <2>6, <2>7, <2>8, <2>9 DEF FwdInv, TableOk
<1>6. QED
  BY <1>3, <1>4, <1>5 DEF ForwardTick

\* Every step keeps the forwarder's invariant.
LEMMA FwdStays ==
  ASSUME FwdInv, [Next]_vars
  PROVE  FwdInv'
<1>1. fwd \in FwdType
  BY DEF FwdInv, TableOk
<1>2. ASSUME events' = events, nextId' = nextId, fwd' = fwd PROVE FwdInv'
  BY <1>2 DEF FwdInv, TableOk, SentUpTo
<1>3. ASSUME NEW s \in Sources, Append1(s) \/ Rotate(s) \/ TailFile(s)
      PROVE  events' = events /\ nextId' = nextId /\ fwd' = fwd
  BY <1>3 DEF Append1, Rotate, TailFile, Table
<1>4. ASSUME NEW o \in Operators, ReplayDeadLetter(o) \/ ApproveRun(o) \/ UpsertPlaybook(o)
      PROVE  events' = events /\ nextId' = nextId /\ fwd' = fwd
  BY <1>4 DEF ReplayDeadLetter, ApproveRun, UpsertPlaybook, Table
<1>5. ASSUME NEW t \in Threads,
             \/ HandleLine(t) \/ HandleTorn(t) \/ SaveOffset(t) \/ Dispatch(t)
             \/ Dispatched(t) \/ ExecuteStep(t) \/ Notify(t) \/ Charge(t)
             \/ ReplayDone(t) \/ ResumeRun(t)
      PROVE  events' = events /\ nextId' = nextId /\ fwd' = fwd
  BY <1>5 DEF HandleLine, HandleTorn, SaveOffset, Dispatch, Dispatched, ExecuteStep,
              Notify, Charge, ReplayDone, ResumeRun, Table
<1>6. ASSUME \/ Stream \/ PurgeDeadLetter \/ FlushDigest \/ Deliver \/ SaveMailConfig
             \/ HourCounter \/ Evaluate \/ UNCHANGED vars
      PROVE  events' = events /\ nextId' = nextId /\ fwd' = fwd
  BY <1>6 DEF Stream, PurgeDeadLetter, FlushDigest, Deliver, SaveMailConfig, HourCounter,
              Evaluate, Table, vars
<1>7. ASSUME NEW o \in Operators, LogForwardingSettings(o) PROVE FwdInv'
  <2>1. events' = events /\ nextId' = nextId /\ fwd' = [fwd EXCEPT !.on = ~@]
    BY <1>7 DEF LogForwardingSettings, Table
  <2>2. /\ fwd' \in FwdType /\ fwd'.off = fwd.off /\ fwd'.upto = fwd.upto
        /\ fwd'.base = fwd.base /\ fwd'.sent = fwd.sent
    BY <1>1, <2>1 DEF FwdType
  <2>3. \A n : SentUpTo(events, fwd, n) => SentUpTo(events, fwd', n)
    BY <2>2 DEF SentUpTo
  <2>4. QED
    BY <2>1, <2>2, <2>3 DEF FwdInv, TableOk
<1>8. CASE ForwardSave
  <2>1. events' = events /\ nextId' = nextId /\ fwd.upto # 0
        /\ fwd' = [fwd EXCEPT !.off = fwd.upto, !.upto = 0]
    BY <1>8 DEF ForwardSave, Table
  <2>2. /\ fwd' \in FwdType /\ fwd'.off = fwd.upto /\ fwd'.upto = 0
        /\ fwd'.base = fwd.base /\ fwd'.sent = fwd.sent
    BY <1>1, <2>1 DEF FwdType
  <2>3. \A n : SentUpTo(events, fwd, n) => SentUpTo(events, fwd', n)
    BY <2>2 DEF SentUpTo
  <2>4. nextId \in Nat /\ 0 =< nextId
    BY DEF FwdInv, TableOk
  <2>5. QED
    BY <2>1, <2>2, <2>3, <2>4 DEF FwdInv, TableOk
<1>9. CASE Restart
  <2>1. events' = events /\ nextId' = nextId /\ fwd' = [fwd EXCEPT !.upto = 0]
    BY <1>9 DEF Restart, Table
  <2>2. /\ fwd' \in FwdType /\ fwd'.off = fwd.off /\ fwd'.upto = 0
        /\ fwd'.base = fwd.base /\ fwd'.sent = fwd.sent
    BY <1>1, <2>1 DEF FwdType
  <2>3. \A n : SentUpTo(events, fwd, n) => SentUpTo(events, fwd', n)
    BY <2>2 DEF SentUpTo
  <2>4. nextId \in Nat /\ 0 =< nextId
    BY DEF FwdInv, TableOk
  <2>5. QED
    BY <2>1, <2>2, <2>3, <2>4 DEF FwdInv, TableOk
<1>10. QED
  BY <1>2, <1>3, <1>4, <1>5, <1>6, <1>7, <1>8, <1>9, LogFwd, AgeFwd, TickFwd
  DEF Next, Work

\* For any number of events, threads, failed sends and restarts: every event up to
\* the forwarder's saved offset was sent or pruned, also when events are logged
\* between the send and the offset that log_forwarder._forward_tick saves after it.
THEOREM ForwarderLeavesNoGap == Spec => []ForwardNoGap
<1>1. Init => FwdInv
  <2> SUFFICES ASSUME Init PROVE FwdInv
    OBVIOUS
  <2>1. PICK use \in {"playbook", "mail", "forward"} :
          /\ events = {} /\ nextId = 0
          /\ fwd = [on |-> use = "forward", off |-> Never, base |-> 0, sent |-> {},
                    upto |-> 0]
    BY DEF Init
  <2>2. \A b \in BOOLEAN :
          [on |-> b, off |-> Never, base |-> 0, sent |-> {}, upto |-> 0] \in FwdType
    BY DEF FwdType
  <2>3. (use = "forward") \in BOOLEAN
    OBVIOUS
  <2>4. fwd \in FwdType
    BY <2>1, <2>2, <2>3, Zenon
  <2>5. fwd.off = Never /\ fwd.upto = 0
    BY <2>1
  <2>6. QED
    BY <2>1, <2>4, <2>5 DEF FwdInv, TableOk
<1>2. FwdInv /\ [Next]_vars => FwdInv'
  BY FwdStays
<1>3. FwdInv => ForwardNoGap
  BY DEF FwdInv, SentUpTo, ForwardNoGap
<1>4. QED
  BY <1>1, <1>2, <1>3, PTL DEF Spec
-----------------------------------------------------------------------------
\* The lines of a log up to position n are in H.
Behind(f, n, H) == \A p \in 1..Len(f) : p =< n => f[p] \in H

\* The line x is read, or about to be logged, by one of the first k frames of q.
Pending(q, k, x) == \E j \in 1..k : q[j].op \in {"line", "log"} /\ q[j].n = x

\* An offset is saved last, and every line before it is in H or comes before it.
Covered(f, q, H) ==
    \A k \in 1..Len(q) : q[k].op = "save" =>
        /\ k = Len(q)
        /\ \A p \in 1..Len(f) : p =< q[k].n => f[p] \in H \/ Pending(q, k - 1, f[p])

\* Every line behind an offset, saved, in memory or about to be saved, has been
\* handled or is gone, or is handled before the offset is saved.
LineOk(x, q, H) ==
    Behind(x.file, x.off, H) /\ Behind(x.file, x.mem, H) /\ Covered(x.file, q, H)
LineInv == \A s \in Sources : LineOk(src[s], todo[s], handled \cup gone)

\* More lines are handled or gone.
LEMMA LineMore ==
  ASSUME NEW x, NEW q, NEW H, NEW G, H \subseteq G, LineOk(x, q, H)
  PROVE  LineOk(x, q, G)
BY DEF LineOk, Behind, Covered

\* Frames that save no offset.
LEMMA NoSave ==
  ASSUME NEW f, NEW q, NEW H, \A k \in 1..Len(q) : q[k].op # "save"
  PROVE  Covered(f, q, H)
BY DEF Covered

\* An empty stack has no save to cover.
LEMMA NoFrames ==
  ASSUME NEW f, NEW H
  PROVE  Covered(f, <<>>, H)
BY DEF Covered

\* The head frame has been executed.  If it was a line's, the line is in H or about
\* to be logged.
LEMMA CoveredPush ==
  ASSUME NEW f \in Seq(Nat \ {0}), NEW q \in Stack, q # <<>>, NEW fs \in Stack, NEW H,
         Covered(f, q, H), \A k \in 1..Len(fs) : fs[k].op # "save",
         q[1].op \in {"line", "log"} /\ q[1].n # 0 =>
            q[1].n \in H \/ Pending(fs, Len(fs), q[1].n)
  PROVE  Covered(f, fs \o Tail(q), H)
<1> DEFINE p == fs \o Tail(q)
<1>1. q \in Seq(FrameType) /\ fs \in Seq(FrameType)
  BY DEF Stack
<1>2. /\ \A j \in 1..Len(fs) : p[j] = fs[j]
      /\ \A j \in 2..Len(q) : p[j + Len(fs) - 1] = q[j]
      /\ \A j \in 1..Len(p) : j > Len(fs) => /\ p[j] = q[j - Len(fs) + 1]
                                             /\ j - Len(fs) + 1 \in 2..Len(q)
      /\ Len(p) = Len(fs) + Len(q) - 1
      /\ Len(fs) \in Nat /\ Len(q) \in Nat /\ Len(q) > 0
  BY <1>1, Pushed
<1> HIDE DEF p
<1>3. SUFFICES ASSUME NEW k \in 1..Len(p), p[k].op = "save"
               PROVE  /\ k = Len(p)
                      /\ \A i \in 1..Len(f) : i =< p[k].n =>
                            f[i] \in H \/ Pending(p, k - 1, f[i])
  BY DEF Covered, p
<1>4. k > Len(fs)
  <2>1. k \notin 1..Len(fs)
    BY <1>2, <1>3
  <2>2. QED
    BY <1>2, <2>1
<1> DEFINE m == k - Len(fs) + 1
<1>5. p[k] = q[m] /\ m \in 2..Len(q) /\ k = m + Len(fs) - 1
  BY <1>2, <1>4
<1> HIDE DEF m
<1>6. m \in 1..Len(q) /\ q[m].op = "save"
  BY <1>2, <1>3, <1>5
<1>7. m = Len(q) /\ \A i \in 1..Len(f) : i =< q[m].n =>
        f[i] \in H \/ Pending(q, m - 1, f[i])
  BY <1>6 DEF Covered
<1>8. k = Len(p)
  BY <1>2, <1>5, <1>7
<1>9. ASSUME NEW i \in 1..Len(f), Pending(q, m - 1, f[i])
      PROVE  f[i] \in H \/ Pending(p, k - 1, f[i])
  <2>1. PICK j \in 1..m - 1 : q[j].op \in {"line", "log"} /\ q[j].n = f[i]
    BY <1>9 DEF Pending
  <2>2. CASE j = 1
    <3>1. f[i] # 0
      OBVIOUS
    <3>2. f[i] \in H \/ Pending(fs, Len(fs), f[i])
      BY <2>1, <2>2, <3>1
    <3>3. ASSUME NEW l \in 1..Len(fs), fs[l].op \in {"line", "log"}, fs[l].n = f[i]
          PROVE  Pending(p, k - 1, f[i])
      <4>1. l \in 1..k - 1 /\ p[l] = fs[l]
        BY <1>2, <1>5
      <4>2. QED
        BY <3>3, <4>1 DEF Pending
    <3>4. QED
      BY <3>2, <3>3 DEF Pending
  <2>3. CASE j # 1
    <3>1. j \in 2..Len(q) /\ j + Len(fs) - 1 \in 1..k - 1
      <4>1. /\ m \in 2..Len(q) /\ k = m + Len(fs) - 1
            /\ Len(fs) \in Nat /\ Len(q) \in Nat
        BY <1>2, <1>5
      <4>2. j \in 2..m - 1
        BY <2>1, <2>3, <4>1
      <4>3. QED
        BY <4>1, <4>2
    <3>2. p[j + Len(fs) - 1] = q[j]
      BY <1>2, <3>1
    <3>3. QED
      BY <2>1, <3>1, <3>2 DEF Pending
  <2>4. QED
    BY <2>2, <2>3
<1>10. QED
  BY <1>5, <1>7, <1>8, <1>9

\* The head frame saves an offset: every line before it is in H.
LEMMA SaveIsBehind ==
  ASSUME NEW f, NEW q, NEW H, Covered(f, q, H), 1 \in 1..Len(q), q[1].op = "save"
  PROVE  Behind(f, q[1].n, H)
<1>1. \A p \in 1..Len(f) : p =< q[1].n => f[p] \in H \/ Pending(q, 1 - 1, f[p])
  BY DEF Covered
<1>2. \A x : ~Pending(q, 1 - 1, x)
  BY DEF Pending
<1>3. QED
  BY <1>1, <1>2 DEF Behind

\* A poll reads every line that is not behind the offset in memory.
LEMMA PollCovers ==
  ASSUME NEW f \in Seq(Nat \ {0}), NEW a \in Nat, a =< Len(f), NEW fs, NEW H, NEW G,
         Polled(f, a, fs, G), G \subseteq H, Behind(f, a, H)
  PROVE  Covered(f, fs, H)
<1>1. /\ Len(fs) = Len(f) - a + 1
      /\ \A k \in 1..Len(fs) : fs[k].op = "save" => k = Len(fs) /\ fs[k].n = Len(f)
      /\ \A p \in a + 1..Len(f) :
            f[p] \in G \/ (fs[p - a].op = "line" /\ fs[p - a].n = f[p])
  BY DEF Polled
<1>2. SUFFICES ASSUME NEW k \in 1..Len(fs), fs[k].op = "save",
                      NEW p \in 1..Len(f)
               PROVE  f[p] \in H \/ Pending(fs, k - 1, f[p])
  BY <1>1 DEF Covered
<1>3. k = Len(fs)
  BY <1>1, <1>2
<1>4. CASE p =< a
  BY <1>3, <1>4 DEF Behind
<1>5. CASE p > a
  <2>1. p \in a + 1..Len(f) /\ p - a \in 1..k - 1
    BY <1>1, <1>3, <1>5
  <2>2. f[p] \in G \/ (fs[p - a].op = "line" /\ fs[p - a].n = f[p])
    BY <1>1, <2>1
  <2>3. QED
    BY <1>3, <2>1, <2>2 DEF Pending
<1>6. QED
  BY <1>4, <1>5
-----------------------------------------------------------------------------
\* A thread executes its head frame: nothing else reads or writes the logs.
LEMMA WorkFiles ==
  ASSUME NEW t \in Threads, Work(t)
  PROVE  src' = src \/ SaveOffset(t)
BY DEF Work, HandleLine, HandleTorn, Log, Dispatch, Dispatched, ExecuteStep, Notify,
       Charge, ReplayDone, ResumeRun, Files

\* The work of a thread keeps every line accounted for.
LEMMA WorkLines ==
  ASSUME PipeType, LineInv, NEW t \in Threads, Work(t)
  PROVE  LineInv'
<1> DEFINE f == Top(t)
           H == handled \cup gone
           G == handled' \cup gone'
<1>1. /\ TodoOk /\ src \in [Sources -> SourceType]
      /\ \A s \in Sources : LineOk(src[s], todo[s], H)
  BY DEF PipeType, FilesOk, LineInv
<1>2. /\ todo[t] \in Seq(FrameType)
      /\ todo[t] # <<>> => f \in FrameType /\ f = todo[t][1] /\ 1 \in 1..Len(todo[t])
  BY <1>1 DEF TodoOk, Stack, Top
<1>3. H \subseteq G /\ handled' \cup gone' \subseteq G
  BY WorkIs DEF Onward
<1>4. WorkKinds(t)
  BY WorkIs
<1>5. ASSUME NEW s \in Sources, s # t PROVE LineOk(src'[s], todo'[s], G)
  <2>1. src'[s] = src[s]
    <3>1. src' = src \/ SaveOffset(t)
      BY WorkFiles
    <3>2. QED
      BY <1>1, <1>5, <3>1 DEF SaveOffset
  <2>2. todo'[s] = todo[s]
    <3>1. (\E fs \in Stack : Pushes(t, fs)) \/ Drops(t)
      BY <1>4, Zenon DEF WorkKinds, PlainWork, EndWork, StepWork, RunWork, ResumeWork,
                         DropWork
    <3>2. \E q : todo' = [todo EXCEPT ![t] = q]
      BY <3>1 DEF Pushes, Drops
    <3>3. s \in Threads
      BY DEF Threads
    <3>4. QED
      BY <1>1, <1>5, <3>2, <3>3 DEF TodoOk
  <2>3. LineOk(src[s], todo[s], G)
    BY <1>1, <1>3, LineMore
  <2>4. QED
    BY <2>1, <2>2, <2>3
<1>6. ASSUME t \in Sources PROVE LineOk(src'[t], todo'[t], G)
  <2>1. LineOk(src[t], todo[t], G) /\ src[t] \in SourceType
    BY <1>1, <1>3, <1>6, LineMore
  <2>2. src[t].file \in Seq(Nat \ {0}) /\ Covered(src[t].file, todo[t], G)
    BY <2>1 DEF SourceType, LineOk
  <2>3. ASSUME NEW fs \in Stack, Pushes(t, fs), \A k \in 1..Len(fs) : fs[k].op # "save",
               f.op \in {"line", "log"} /\ f.n # 0 =>
                  f.n \in G \/ Pending(fs, Len(fs), f.n)
        PROVE  Covered(src[t].file, todo'[t], G)
    <3>1. todo[t] # <<>> /\ todo[t] \in Stack /\ f = todo[t][1]
          /\ todo'[t] = fs \o Tail(todo[t])
      BY <1>1, <1>2, <2>3 DEF Pushes, TodoOk
    <3> HIDE DEF f, G
    <3>2. Covered(src[t].file, fs \o Tail(todo[t]), G)
      BY <2>2, <2>3, <3>1, CoveredPush
    <3>3. QED
      BY <3>1, <3>2
  <2>4. Covered(src[t].file, todo'[t], G)
    <3>1. ASSUME NEW fs \in Stack, Pushes(t, fs), Plain(f, fs, Reached(t))
          PROVE  Covered(src[t].file, todo'[t], G)
      <4>1. \A k \in 1..Len(fs) : fs[k].op # "save"
        BY <3>1 DEF Plain
      <4>2. f.op \in {"line", "log"} /\ f.n # 0 => f.n \in G \/ Pending(fs, Len(fs), f.n)
        BY <1>3, <1>6, <3>1 DEF Plain, Reached, Pending
      <4>3. QED
        BY <2>3, <3>1, <4>1, <4>2
    <3>2. CASE PlainWork(t, f) \/ EndWork(t, f)
      BY <3>1, <3>2 DEF PlainWork, EndWork
    <3>3. CASE StepWork(t, f)
      <4>1. PICK fs \in Stack : Pushes(t, fs) /\ OnStep(f, fs)
        BY <3>3 DEF StepWork
      <4>2. (\A k \in 1..Len(fs) : fs[k].op # "save") /\ f.op \notin {"line", "log"}
        BY <4>1 DEF OnStep
      <4>3. QED
        BY <2>3, <4>1, <4>2
    <3>4. CASE RunWork(t, f)
      <4>1. PICK fs \in Stack : /\ Pushes(t, fs) /\ NewStep(fs, Len(runs) + 1)
                                /\ f.op = "dispatch"
        BY <3>4 DEF RunWork
      <4>2. \A k \in 1..Len(fs) : k = 1 \/ k = 2
        BY <4>1 DEF NewStep
      <4>3. (\A k \in 1..Len(fs) : fs[k].op # "save") /\ f.op \notin {"line", "log"}
        BY <4>1, <4>2 DEF NewStep
      <4>4. QED
        BY <2>3, <4>1, <4>3
    <3>5. CASE ResumeWork(t, f)
      <4>1. PICK fs \in Stack : Pushes(t, fs) /\ Resumed(fs, f.n) /\ f.op = "resume"
        BY <3>5 DEF ResumeWork
      <4>2. \A k \in 1..Len(fs) : k = 1 \/ k = 2
        BY <4>1 DEF Resumed
      <4>3. (\A k \in 1..Len(fs) : fs[k].op # "save") /\ f.op \notin {"line", "log"}
        BY <4>1, <4>2 DEF Resumed
      <4>4. QED
        BY <2>3, <4>1, <4>3
    <3>6. CASE DropWork(t)
      <4>1. todo'[t] = <<>>
        BY <1>1, <3>6 DEF DropWork, Drops, TodoOk
      <4>2. QED
        BY <4>1, NoFrames
    <3>7. QED
      BY <1>4, <3>2, <3>3, <3>4, <3>5, <3>6 DEF WorkKinds
  <2>5. CASE src' = src
    BY <2>1, <2>4, <2>5 DEF LineOk
  <2>6. CASE SaveOffset(t)
    <3>1. At(t, "save") /\ (src' = [src EXCEPT ![t].off = f.n, ![t].mem = f.n]
                            \/ src' = [src EXCEPT ![t].mem = f.n])
      BY <2>6 DEF SaveOffset
    <3>2. todo[t] # <<>> /\ f.op = "save"
      BY <3>1, <1>1, TopIs
    <3>3. f = todo[t][1] /\ 1 \in 1..Len(todo[t])
      BY <1>2, <3>2
    <3>4. Behind(src[t].file, f.n, G)
      BY <2>2, <3>2, <3>3, SaveIsBehind
    <3>5. Behind(src[t].file, src[t].off, G)
      BY <2>1 DEF LineOk
    <3>6. /\ src'[t].file = src[t].file /\ src'[t].mem = f.n
          /\ src'[t].off = f.n \/ src'[t].off = src[t].off
      <4>1. \/ src'[t] = [src[t] EXCEPT !.off = f.n, !.mem = f.n]
            \/ src'[t] = [src[t] EXCEPT !.mem = f.n]
        BY <1>1, <1>6, <3>1
      <4> HIDE DEF f
      <4>2. QED
        BY <2>1, <4>1 DEF SourceType
    <3> HIDE DEF f, G
    <3>7. QED
      BY <2>4, <3>4, <3>5, <3>6 DEF LineOk
  <2>7. QED
    BY <2>5, <2>6, WorkFiles
<1>7. QED
  BY <1>5, <1>6 DEF LineInv

\* The furthest of a log's offsets, as the model of a rotated log compares it.
LEMMA FurthestOffset ==
  ASSUME PipeType, NEW s \in Sources, NEW H, LineOk(src[s], todo[s], H)
  PROVE  /\ Max(Offsets(s)) \in Nat
         /\ src[s].off =< Max(Offsets(s)) /\ src[s].mem =< Max(Offsets(s))
         /\ \A k \in 1..Len(todo[s]) : todo[s][k].op = "save" =>
               todo[s][k].n =< Max(Offsets(s))
<1> DEFINE q == todo[s]
           O == Offsets(s)
           S0 == {j \in 1..Len(q) : q[j].op = "save"}
           b == src[s].off + src[s].mem + (IF q = <<>> THEN 0 ELSE q[Len(q)].n)
<1>1. src[s] \in SourceType
  BY DEF PipeType, FilesOk
<1>2. src[s].off \in Nat /\ src[s].mem \in Nat
  BY <1>1 DEF SourceType
<1>3. q \in Seq(FrameType)
  BY DEF PipeType, TodoOk, Threads, Stack
<1>4. O = {src[s].off, src[s].mem} \cup {q[k].n : k \in S0}
  <2>1. DOMAIN q = 1..Len(q)
    BY <1>3
  <2>2. QED
    BY <2>1 DEF Offsets
<1>5. \A k \in 1..Len(q) : q[k].op = "save" => k = Len(q)
  BY DEF LineOk, Covered
<1> HIDE DEF q, O
<1>6. Len(q) \in Nat /\ (q # <<>> => Len(q) \in 1..Len(q))
  BY <1>3
<1>7. \A k \in 1..Len(q) : q[k].n \in Nat
  <2>1. \A k \in 1..Len(q) : q[k] \in FrameType
    BY <1>3
  <2>2. QED
    BY <2>1 DEF FrameType
<1>8. b \in Nat /\ src[s].off =< b /\ src[s].mem =< b /\ (q # <<>> => q[Len(q)].n =< b)
  BY <1>2, <1>6, <1>7
<1> HIDE DEF b
<1>9. ASSUME NEW k \in S0 PROVE q[k].n \in Nat /\ q[k].n =< b
  <2>1. k \in 1..Len(q) /\ k = Len(q)
    BY <1>5
  <2>2. q # <<>>
    BY <1>3, <2>1
  <2>3. QED
    BY <1>7, <1>8, <2>1, <2>2
<1> HIDE DEF S0
<1>10. O \in SUBSET Nat /\ O # {} /\ \A x \in O : x =< b
  BY <1>2, <1>4, <1>8, <1>9
<1>11. Max(O) \in O /\ \A x \in O : x =< Max(O)
  BY <1>8, <1>10, MaxIsGreatest
<1>12. Max(O) \in Nat /\ src[s].off =< Max(O) /\ src[s].mem =< Max(O)
  BY <1>4, <1>10, <1>11
<1>13. \A k \in 1..Len(q) : q[k].op = "save" => q[k].n =< Max(O)
  BY <1>4, <1>11 DEF S0
<1>14. QED
  BY <1>12, <1>13 DEF q, O

\* A line is written behind the others; if an offset is ahead of it, it is in H.
LEMMA AppendBehind ==
  ASSUME NEW f \in Seq(Nat \ {0}), NEW x \in Nat \ {0}, NEW n \in Nat, NEW H, NEW G,
         H \subseteq G, Len(f) < n => x \in G
  PROVE  Behind(f, n, H) => Behind(Append(f, x), n, G)
<1> DEFINE g == Append(f, x)
<1>1. /\ Len(f) \in Nat /\ Len(g) = Len(f) + 1 /\ g[Len(f) + 1] = x
      /\ \A p \in 1..Len(f) : g[p] = f[p]
  OBVIOUS
<1> HIDE DEF g
<1>2. \A p \in 1..Len(g) : p = Len(f) + 1 \/ p \in 1..Len(f)
  BY <1>1
<1>3. ASSUME Behind(f, n, H), NEW p \in 1..Len(g), p =< n PROVE g[p] \in G
  <2>1. CASE p = Len(f) + 1
    BY <1>1, <1>3, <2>1
  <2>2. CASE p \in 1..Len(f)
    BY <1>1, <1>3, <2>2 DEF Behind
  <2>3. QED
    BY <1>2, <2>1, <2>2
<1>4. QED
  BY <1>3 DEF Behind, g

\* A file that grows stays covered when a line already passed over is gone.
LEMMA AppendCovered ==
  ASSUME NEW f \in Seq(Nat \ {0}), NEW x \in Nat \ {0}, NEW q, NEW H, NEW G,
         H \subseteq G, Covered(f, q, H),
         \A k \in 1..Len(q) : q[k].op = "save" => q[k].n \in Nat /\ (Len(f) < q[k].n => x \in G)
  PROVE  Covered(Append(f, x), q, G)
<1> DEFINE g == Append(f, x)
<1>1. /\ Len(f) \in Nat /\ Len(g) = Len(f) + 1 /\ g[Len(f) + 1] = x
      /\ \A p \in 1..Len(f) : g[p] = f[p]
  OBVIOUS
<1> HIDE DEF g
<1>2. \A p \in 1..Len(g) : p = Len(f) + 1 \/ p \in 1..Len(f)
  BY <1>1
<1>3. ASSUME NEW k \in 1..Len(q), q[k].op = "save"
      PROVE  /\ k = Len(q)
             /\ \A p \in 1..Len(g) : p =< q[k].n => g[p] \in G \/ Pending(q, k - 1, g[p])
  <2>1. k = Len(q) /\ \A p \in 1..Len(f) : p =< q[k].n =>
          f[p] \in H \/ Pending(q, k - 1, f[p])
    BY <1>3 DEF Covered
  <2>2. ASSUME NEW p \in 1..Len(g), p =< q[k].n
        PROVE  g[p] \in G \/ Pending(q, k - 1, g[p])
    <3>1. CASE p = Len(f) + 1
      <4>1. Len(f) < q[k].n
        BY <1>1, <1>3, <2>2, <3>1
      <4>2. QED
        BY <1>1, <1>3, <3>1, <4>1
    <3>2. CASE p \in 1..Len(f)
      BY <1>1, <2>1, <2>2, <3>2
    <3>3. QED
      BY <1>2, <3>1, <3>2
  <2>3. QED
    BY <2>1, <2>2
<1>4. QED
  BY <1>3 DEF Covered, g

\* A daemon writes a line: one that an offset is already ahead of is gone.
LEMMA AppendLines ==
  ASSUME PipeType, LineInv, NEW s \in Sources, Append1(s)
  PROVE  LineInv'
<1> DEFINE f == src[s].file
           x == lines + 1
           q == todo[s]
           m == Max(Offsets(s))
           H == handled \cup gone
           G == handled \cup gone'
<1>1. /\ src \in [Sources -> SourceType] /\ x \in Nat \ {0}
      /\ \A u \in Sources : LineOk(src[u], todo[u], H)
  <2>1. src \in [Sources -> SourceType] /\ lines \in Nat
    BY DEF PipeType, FilesOk
  <2>2. lines + 1 \in Nat \ {0}
    BY <2>1
  <2>3. \A u \in Sources : LineOk(src[u], todo[u], handled \cup gone)
    BY Zenon DEF LineInv
  <2>4. QED
    BY <2>1, <2>2, <2>3, Zenon
<1>2. /\ handled' = handled /\ todo' = todo
      /\ src' = [src EXCEPT ![s].file = Append(@, x)]
      /\ gone' = IF Len(f) < m THEN gone \cup {x} ELSE gone
  BY DEF Append1
<1>3. H \subseteq G /\ (Len(f) < m => x \in G)
  BY <1>2
<1>4. ASSUME NEW u \in Sources, u # s PROVE LineOk(src'[u], todo'[u], G)
  <2>1. src'[u] = src[u] /\ todo'[u] = todo[u]
    BY <1>1, <1>2, <1>4
  <2>2. LineOk(src[u], todo[u], G)
    BY <1>1, <1>3, LineMore
  <2>3. QED
    BY <2>1, <2>2
<1>5. /\ src[s] \in SourceType /\ f \in Seq(Nat \ {0}) /\ Len(f) \in Nat
      /\ src[s].off \in Nat /\ src[s].mem \in Nat
  BY <1>1 DEF SourceType
<1>6. src'[s].file = Append(f, x) /\ src'[s].off = src[s].off
      /\ src'[s].mem = src[s].mem
  <2>1. src'[s] = [src[s] EXCEPT !.file = Append(f, x)]
    BY <1>1, <1>2
  <2> HIDE DEF x
  <2>2. QED
    BY <1>5, <2>1 DEF SourceType
<1>7. LineOk(src[s], q, H)
  BY <1>1
<1>8. /\ m \in Nat /\ src[s].off =< m /\ src[s].mem =< m
      /\ \A k \in 1..Len(q) : q[k].op = "save" => q[k].n =< m
  BY <1>7, FurthestOffset
<1>9. \A k \in 1..Len(q) : q[k].n \in Nat
  <2>1. q \in Seq(FrameType)
    BY DEF PipeType, TodoOk, Threads, Stack
  <2>2. \A k \in 1..Len(q) : q[k] \in FrameType
    BY <2>1
  <2>3. QED
    BY <2>2 DEF FrameType
<1> HIDE DEF f, x, q, m, H, G
<1>10. Behind(Append(f, x), src[s].off, G) /\ Behind(Append(f, x), src[s].mem, G)
  <2>1. Behind(f, src[s].off, H) /\ Behind(f, src[s].mem, H)
    BY <1>7 DEF LineOk, f
  <2>2. (Len(f) < src[s].off => x \in G) /\ (Len(f) < src[s].mem => x \in G)
    BY <1>3, <1>5, <1>8
  <2>3. QED
    BY <1>1, <1>3, <1>5, <2>1, <2>2, AppendBehind
<1>11. Covered(Append(f, x), q, G)
  <2>1. Covered(f, q, H)
    BY <1>7 DEF LineOk, f
  <2>2. \A k \in 1..Len(q) : q[k].op = "save" =>
          q[k].n \in Nat /\ (Len(f) < q[k].n => x \in G)
    BY <1>3, <1>5, <1>8, <1>9
  <2>3. QED
    BY <1>1, <1>3, <1>5, <2>1, <2>2, AppendCovered
<1>12. LineOk(src'[s], todo'[s], G)
  BY <1>2, <1>6, <1>10, <1>11 DEF LineOk, q
<1>13. QED
  BY <1>2, <1>4, <1>12 DEF LineInv, G

\* A step aside keeps every line accounted for.
LEMMA AsideLines ==
  ASSUME PipeType, LineInv, Aside
  PROVE  LineInv'
<1> DEFINE H == handled \cup gone
           G == handled' \cup gone'
<1>1. /\ TodoOk /\ src \in [Sources -> SourceType] /\ handled' = handled
      /\ \A u \in Sources : LineOk(src[u], todo[u], H)
  BY DEF PipeType, FilesOk, LineInv, Aside
<1>2. Sources \subseteq Threads
  BY DEF Threads
<1>3. SUFFICES ASSUME NEW u \in Sources PROVE LineOk(src'[u], todo'[u], G)
  BY DEF LineInv
<1>4. LineOk(src[u], todo[u], H) /\ src[u] \in SourceType /\ u \in Threads
  BY <1>1, <1>2
<1>5. gone \subseteq gone' => LineOk(src[u], todo[u], G)
  <2>1. gone \subseteq gone' => H \subseteq G
    BY <1>1
  <2> HIDE DEF H, G
  <2>2. QED
    BY <1>4, <2>1, LineMore
<1> HIDE DEF G
<1>6. ASSUME src' = src, gone \subseteq gone', NEW t \in Threads, NEW fs, Starts(t, fs),
             t = u => Covered(src[u].file, fs, G)
      PROVE  LineOk(src'[u], todo'[u], G)
  <2>1. todo'[u] = IF t = u THEN fs ELSE todo[u]
    BY <1>1, <1>4, <1>6 DEF Starts, TodoOk
  <2>2. QED
    BY <1>5, <1>6, <2>1 DEF LineOk
<1>7. ASSUME NEW t \in Threads, src' = src, gone' = gone, StartWork(t)
      PROVE  LineOk(src'[u], todo'[u], G)
  <2>1. PICK fs \in Stack : Starts(t, fs) /\ Fresh(fs)
    BY <1>7 DEF StartWork
  <2>2. Covered(src[u].file, fs, G)
    BY <2>1, NoSave DEF Fresh
  <2>3. QED
    BY <1>6, <1>7, <2>1, <2>2
<1>8. ASSUME NEW t \in Threads, src' = src, gone' = gone, ApproveWork(t)
      PROVE  LineOk(src'[u], todo'[u], G)
  <2>1. PICK r \in 1..Len(runs), g \in FrameType : Starts(t, <<g>>) /\ g.op = "resume"
    BY <1>8 DEF ApproveWork
  <2>2. \A k \in 1..Len(<<g>>) : <<g>>[k].op # "save"
    BY <2>1
  <2>3. Covered(src[u].file, <<g>>, G)
    BY <2>2, NoSave
  <2>4. QED
    BY <1>6, <1>8, <2>1, <2>3
<1>9. ASSUME NEW s \in Sources, PollWork(s), src' = src, gone \subseteq gone'
      PROVE  LineOk(src'[u], todo'[u], G)
  <2>1. PICK fs \in Stack :
          Starts(s, fs) /\ Polled(src[s].file, ReadFrom(s), fs, gone')
    BY <1>9 DEF PollWork
  <2>2. ASSUME s = u PROVE Covered(src[u].file, fs, G)
    <3> DEFINE f == src[u].file
               a == ReadFrom(u)
    <3>1. f \in Seq(Nat \ {0}) /\ src[u].mem \in Nat /\ a \in Nat /\ a =< Len(f)
          /\ (a = 0 \/ a = src[u].mem)
      BY <1>4 DEF SourceType, ReadFrom
    <3>2. Behind(f, src[u].mem, G)
      BY <1>5, <1>9 DEF LineOk
    <3>3. Behind(f, a, G)
      BY <3>1, <3>2 DEF Behind
    <3>4. Polled(f, a, fs, gone') /\ gone' \subseteq G
      BY <2>1, <2>2 DEF G
    <3> HIDE DEF f, a
    <3>5. Covered(f, fs, G)
      BY <3>1, <3>3, <3>4, PollCovers
    <3>6. QED
      BY <3>5 DEF f
  <2>3. s \in Threads
    BY <1>2
  <2>4. QED
    BY <1>6, <1>9, <2>1, <2>2, <2>3
<1>10. ASSUME src' = src, gone' = gone, HourCounter PROVE LineOk(src'[u], todo'[u], G)
  <2>1. Len(todo'[u]) = Len(todo[u]) /\ \A k \in 1..Len(todo[u]) :
          todo'[u][k].op = todo[u][k].op /\ todo'[u][k].n = todo[u][k].n
    BY <1>1, <1>4, <1>10, HourIs
  <2>2. LineOk(src[u], todo[u], G) /\ Len(todo[u]) \in Nat
    BY <1>1, <1>4, <1>5, <1>10 DEF TodoOk, Stack
  <2>3. \A k \in 1..Len(todo[u]) : \A y :
          Pending(todo[u], k - 1, y) => Pending(todo'[u], k - 1, y)
    <3>1. \A k \in 1..Len(todo[u]) : \A j \in 1..k - 1 : j \in 1..Len(todo[u])
      BY <2>2
    <3>2. QED
      BY <2>1, <3>1 DEF Pending
  <2>4. Covered(src[u].file, todo'[u], G)
    BY <2>1, <2>2, <2>3 DEF LineOk, Covered
  <2>5. QED
    BY <1>10, <2>2, <2>4 DEF LineOk
<1>11. ASSUME NEW s \in Sources, Append1(s) PROVE LineOk(src'[u], todo'[u], G)
  <2>1. LineInv'
    BY <1>11, AppendLines
  <2>2. QED
    BY <2>1 DEF LineInv, G
<1>12. ASSUME NEW s \in Sources, Rotate(s) PROVE LineOk(src'[u], todo'[u], G)
  <2>1. todo' = todo /\ gone \subseteq gone' /\ src' = [src EXCEPT ![s].file = <<>>]
    BY <1>12 DEF Rotate
  <2>2. LineOk(src[u], todo[u], G)
    BY <1>5, <2>1
  <2>3. CASE u # s
    BY <1>1, <2>1, <2>2, <2>3
  <2>4. CASE u = s
    <3>1. src'[u] = [src[u] EXCEPT !.file = <<>>]
      BY <1>1, <2>1, <2>4
    <3>2. src'[u].file = <<>>
      BY <1>4, <3>1 DEF SourceType
    <3>3. Len(src'[u].file) = 0
      BY <3>2
    <3>4. \A p \in 1..Len(src'[u].file) : FALSE
      BY <3>3
    <3>5. QED
      BY <2>1, <2>2, <3>4 DEF LineOk, Behind, Covered
  <2>5. QED
    BY <2>3, <2>4
<1>13. CASE Restart
  <2>1. gone' = gone /\ todo'[u] = <<>>
        /\ src'[u] = [src[u] EXCEPT !.mem = src[u].off]
    BY <1>4, <1>13 DEF Restart
  <2>2. src'[u].file = src[u].file /\ src'[u].mem = src[u].off /\ src'[u].off = src[u].off
    BY <1>4, <2>1 DEF SourceType
  <2>3. Behind(src[u].file, src[u].off, G)
    BY <1>5, <2>1 DEF LineOk
  <2>4. QED
    BY <2>1, <2>2, <2>3, NoFrames DEF LineOk
<1>14. ASSUME src' = src, gone' = gone, todo' = todo PROVE LineOk(src'[u], todo'[u], G)
  BY <1>5, <1>14
<1>15. QED
  BY <1>7, <1>8, <1>9, <1>10, <1>11, <1>12, <1>13, <1>14 DEF Aside

\* For any set of logs, any number of lines, polls, crashes, failed saves and
\* rotations: every line before the offset that _save_offset wrote has become an
\* event or a dead letter or asked for neither, unless it was read half written,
\* hidden by a rotation, or met a failure of both the audit file and the table in
\* log_event, an exception there, or a dead letter that was not stored.
THEOREM NoLineIsLost == Spec => []NoLineLost
<1>1. Init => LineInv
  <2> SUFFICES ASSUME Init, NEW s \in Sources
               PROVE  LineOk(src[s], todo[s], handled \cup gone)
    BY DEF LineInv
  <2>1. src[s] = [file |-> <<>>, off |-> 0, mem |-> 0] /\ todo[s] = <<>>
    BY DEF Init, Threads
  <2>2. src[s].file = <<>>
    BY <2>1
  <2>3. \A n, H : Behind(<<>>, n, H)
    BY DEF Behind
  <2>4. QED
    BY <2>1, <2>2, <2>3, NoFrames DEF LineOk
<1>2. PipeInv /\ LineInv /\ [Next]_vars => LineInv'
  BY NextIs, AsideLines, WorkLines DEF PipeInv
<1>3. PipeInv /\ LineInv => NoLineLost
  <2> SUFFICES ASSUME PipeInv, LineInv, NEW s \in Sources,
                      NEW p \in DOMAIN src[s].file, p =< src[s].off
               PROVE  src[s].file[p] \in handled \cup gone
    BY DEF NoLineLost
  <2>1. src[s] \in SourceType
    BY DEF PipeInv, PipeType, FilesOk
  <2>2. p \in 1..Len(src[s].file)
    BY <2>1 DEF SourceType
  <2>3. Behind(src[s].file, src[s].off, handled \cup gone)
    BY DEF LineInv, LineOk
  <2>4. QED
    BY <2>2, <2>3 DEF Behind
<1>4. QED
  BY <1>1, <1>2, <1>3, PipeHolds, PTL DEF Spec
=============================================================================
