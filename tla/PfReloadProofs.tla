--------------------------- MODULE PfReloadProofs ---------------------------
(***************************************************************************)
(* Proofs about PfReload for any set of callers and rulesets: what can     *)
(* never be installed, and what an undisturbed apply achieves.             *)
(***************************************************************************)
EXTENDS PfReload, TLAPS

\* A ruleset past the checks was accepted by them, and so was every file text
\* on its way from one file to another.
Vetted ==
    \A c \in Callers :
      /\ job[c].pc \in PCs \ {"idle", "validate"} => job[c].conf \notin Rejected
      /\ job[c].pc \in {"backup_write", "restore"} => job[c].text \notin Rejected

VettedInv == OnlyVettedInstalled /\ Vetted

\* What the caller that runs alone has established at each step.
SoloInv ==
    \A c \in Callers : solo = c =>
      LET j == job[c]
      IN  /\ \A x \in Callers \ {c} : Idle(x)
          /\ j.pc \in {"validate", "backup", "backup_write", "write", "pipes"}
               => j.conf = db
          /\ j.pc \in {"validate", "backup", "backup_write", "write"}
               => file = start.file
          /\ j.pc = "backup_write" => j.text = start.file
          /\ j.pc \in {"write", "pipes", "reload", "enable"}
               => known = start.file
          /\ j.pc \in {"pipes", "reload", "enable"} => file = j.conf
          /\ j.pc \in {"reload", "enable"} /\ j.conf \notin Unlimited
               => pipes = j.conf
          /\ j.pc = "enable" => kernel = j.conf
          /\ j.conf \in Unloadable =>
               /\ j.pc = "rollback" => known = start.file
               /\ j.pc = "restore" => j.text = start.file
               /\ j.pc = "reload_back" => file = start.file

\* A caller between two calls holds the initial ruleset, which no check refuses.
LEMMA IdleJobType == IdleJob \in Job /\ IdleJob.pc = "idle" /\ IdleJob.conf = Initial
BY PfAssumption DEF IdleJob, Job, PCs, Files

\* Moving on within a call keeps the job well typed.
LEMMA AtType ==
  ASSUME TypeOK, NEW c \in Callers
  PROVE  /\ \A pc \in PCs : At(c, pc) \in Job
         /\ \A pc \in PCs, t \in Files : Copying(c, pc, t) \in Job
         /\ job[c].conf \in Confs /\ job[c].text \in Files
BY DEF TypeOK, Job, At, Copying

\* A step of a call, also one that fails, keeps the bookkeeping well typed.
LEMMA GotoType ==
  ASSUME TypeOK, NEW c \in Callers, NEW j \in Job, Goto(c, j) \/ Disturbed(c, j)
  PROVE  /\ job' \in [Callers -> Job] /\ events' \in 0..MaxEvents
         /\ solo' \in Callers \cup {NoOne}
         /\ start' \in [file : Files, kernel : Files]
BY PfAssumption DEF TypeOK, Goto, Disturbed, Event, Overlap, NoStart, Files

\* So does the start of a call of reload_pf_rules or rollback_pf.
LEMMA CallType ==
  ASSUME TypeOK, NEW c \in Callers, NEW j \in Job, Call(c, j)
  PROVE  /\ job' \in [Callers -> Job] /\ events' \in 0..MaxEvents
         /\ solo' \in Callers \cup {NoOne}
         /\ start' \in [file : Files, kernel : Files]
BY PfAssumption DEF TypeOK, Call, Overlap, NoStart, Files

\* No step inside reload_pf_rules or rollback_pf leaves the types.
LEMMA StepType ==
  ASSUME TypeOK, NEW c \in Callers, Step(c)
  PROVE  TypeOK'
<1> USE AtType, IdleJobType DEF PCs
<1>1. /\ job' \in [Callers -> Job] /\ events' \in 0..MaxEvents
      /\ solo' \in Callers \cup {NoOne}
      /\ start' \in [file : Files, kernel : Files]
  <2>1. PICK j \in Job : Goto(c, j) \/ Disturbed(c, j)
    <3>1. CASE Validate(c)
      BY <3>1 DEF Validate
    <3>2. CASE TruncateBackup(c)
      <4>1. file \in Files
        BY DEF TypeOK
      <4>2. QED
        BY <3>2, <4>1 DEF TruncateBackup
    <3>3. CASE WriteBackup(c) \/ WriteConf(c) \/ SetupPipes(c)
      BY <3>3 DEF WriteBackup, WriteConf, SetupPipes
    <3>4. CASE Reload(c) \/ Enable(c) \/ Restore(c) \/ ReloadBack(c)
      BY <3>4 DEF Reload, Enable, Restore, ReloadBack
    <3>5. CASE Rollback(c)
      <4>1. known # NoFile => known \in Files
        BY DEF TypeOK
      <4>2. QED
        BY <3>5, <4>1 DEF Rollback
    <3>6. QED
      BY <3>1, <3>2, <3>3, <3>4, <3>5 DEF Step
  <2>2. QED
    BY <2>1, GotoType
<1>2. /\ db' \in Confs /\ file' \in Files /\ known' \in Files \cup {NoFile}
      /\ kernel' \in Files /\ pipes' \in Files /\ enabled' \in BOOLEAN
      /\ loadedEver' \in SUBSET Files
  BY DEF Step, Validate, TruncateBackup, WriteBackup, WriteConf, SetupPipes,
         Reload, Enable, Rollback, Restore, ReloadBack, Load, TypeOK, Files,
         disk, live
<1>3. QED
  BY <1>1, <1>2 DEF TypeOK

\* Every reachable state is well typed; in particular pf.conf is always a
\* generated ruleset or a truncated file, never missing.
THEOREM TypeCorrect == Spec => []TypeOK
<1>1. Init => TypeOK
  BY PfAssumption, IdleJobType DEF Init, TypeOK, Files, NoStart
<1>2. TypeOK /\ [Next]_vars => TypeOK'
  <2> SUFFICES ASSUME TypeOK, [Next]_vars PROVE TypeOK'
    OBVIOUS
  <2>1. CASE SaveConfig
    BY <2>1, PfAssumption
       DEF SaveConfig, Event, Overlap, NoStart, TypeOK, Files, disk, live
  <2>2. ASSUME NEW c \in Callers, StartReload(c) PROVE TypeOK'
    <3>1. [IdleJob EXCEPT !.pc = "validate", !.conf = db] \in Job
      BY IdleJobType DEF TypeOK, Job, PCs
    <3>2. QED
      BY <2>2, <3>1, CallType DEF StartReload, GeneratePfConf, TypeOK, disk, live
  <2>3. ASSUME NEW c \in Callers, StartRollback(c) PROVE TypeOK'
    <3>1. [IdleJob EXCEPT !.pc = "rollback"] \in Job
      BY IdleJobType DEF Job, PCs
    <3>2. QED
      BY <2>3, <3>1, CallType DEF StartRollback, TypeOK, disk, live
  <2>4. ASSUME NEW c \in Callers, Step(c) PROVE TypeOK'
    BY <2>4, StepType
  <2>5. ASSUME NEW c \in Callers, Crash(c) PROVE TypeOK'
    BY <2>5, IdleJobType, GotoType DEF Crash, TypeOK, disk, live
  <2>6. CASE UNCHANGED vars
    BY <2>6 DEF vars, TypeOK
  <2>7. QED
    BY <2>1, <2>2, <2>3, <2>4, <2>5, <2>6 DEF Next
<1>3. QED
  BY <1>1, <1>2, PTL DEF Spec

-----------------------------------------------------------------------------
\* The kernel, pf.conf and the backup never hold a refused ruleset, however
\* many callers apply and roll back at once and wherever they fail or crash.
THEOREM NothingRejectedInstalled == Spec => []OnlyVettedInstalled
<1>1. Init => VettedInv
  BY PfAssumption, IdleJobType DEF Init, VettedInv, OnlyVettedInstalled, Vetted
<1>2. TypeOK /\ VettedInv /\ [Next]_vars => VettedInv'
  <2> SUFFICES ASSUME TypeOK, VettedInv, [Next]_vars PROVE VettedInv'
    OBVIOUS
  <2> USE PfAssumption DEF VettedInv
  <2>1. \A c \in Callers : job[c] \in Job
    BY DEF TypeOK
  <2>2. \A c \in Callers, pc \in PCs : At(c, pc) = [job[c] EXCEPT !.pc = pc]
    BY DEF At
  <2>3. CASE SaveConfig
    BY <2>3 DEF SaveConfig, Vetted, OnlyVettedInstalled, disk, live
  <2>4. ASSUME NEW c \in Callers, StartReload(c) PROVE VettedInv'
    BY <2>4, IdleJobType DEF StartReload, GeneratePfConf, Call, Vetted, OnlyVettedInstalled,
       TypeOK, Job, disk, live
  <2>5. ASSUME NEW c \in Callers, StartRollback(c) PROVE VettedInv'
    BY <2>5, IdleJobType DEF StartRollback, Call, Vetted, OnlyVettedInstalled,
       TypeOK, Job, disk, live
  <2>6. ASSUME NEW c \in Callers, Crash(c) PROVE VettedInv'
    BY <2>6, IdleJobType DEF Crash, Disturbed, Vetted, OnlyVettedInstalled,
       TypeOK, disk, live
  <2>7. ASSUME NEW c \in Callers, Step(c) PROVE VettedInv'
    <3> USE <2>1, IdleJobType DEF PCs
    <3>1. CASE Validate(c)
      BY <3>1 DEF Validate, Accepted, Goto, Disturbed, At, Vetted, OnlyVettedInstalled,
         TypeOK, Job, disk, live
    <3>2. CASE TruncateBackup(c)
      <4>1. /\ job'[c].conf = job[c].conf
            /\ job'[c].text \in {file, job[c].text}
            /\ job'[c].pc \in {"backup_write", "write"}
            /\ job'[c].pc = "backup_write" => job'[c].text = file
            /\ \A x \in Callers \ {c} : job'[x] = job[x]
        BY <3>2 DEF TruncateBackup, Goto, Disturbed, At, Copying, TypeOK, Job
      <4>2. OnlyVettedInstalled'
        BY <3>2 DEF TruncateBackup, OnlyVettedInstalled, live
      <4>3. file \notin Rejected /\ job[c].conf \notin Rejected
        BY <3>2 DEF TruncateBackup, OnlyVettedInstalled, Vetted
      <4>4. Vetted'
        BY <4>1, <4>3 DEF Vetted
      <4>5. QED
        BY <4>2, <4>4
    <3>3. CASE WriteBackup(c)
      BY <3>3 DEF WriteBackup, Goto, Disturbed, At, Vetted, OnlyVettedInstalled, TypeOK,
         Job, live
    <3>4. CASE WriteConf(c)
      BY <3>4 DEF WriteConf, Goto, Disturbed, At, Vetted, OnlyVettedInstalled,
         TypeOK, Job, live
    <3>5. CASE SetupPipes(c)
      BY <3>5 DEF SetupPipes, Goto, Disturbed, At, Vetted, OnlyVettedInstalled, TypeOK,
         Job, disk
    <3>6. CASE Reload(c)
      BY <3>6 DEF Reload, Load, Goto, Disturbed, At, Vetted,
         OnlyVettedInstalled, TypeOK, Job, disk
    <3>7. CASE Enable(c)
      BY <3>7 DEF Enable, Goto, Disturbed, At, Vetted, OnlyVettedInstalled,
         TypeOK, Job, disk
    <3>8. CASE Rollback(c)
      <4>1. /\ job'[c].conf \in {job[c].conf, Initial}
            /\ job'[c].pc \in {"idle", "restore"}
            /\ job'[c].pc = "restore" => job'[c].text = known
            /\ \A x \in Callers \ {c} : job'[x] = job[x]
        BY <3>8 DEF Rollback, Goto, Disturbed, Copying, TypeOK, Job
      <4>2. OnlyVettedInstalled'
        BY <3>8 DEF Rollback, OnlyVettedInstalled, live
      <4>3. known \notin Rejected /\ job[c].conf \notin Rejected
        BY <3>8 DEF Rollback, OnlyVettedInstalled, Vetted
      <4>4. Vetted'
        BY <4>1, <4>3 DEF Vetted
      <4>5. QED
        BY <4>2, <4>4
    <3>9. CASE Restore(c)
      BY <3>9 DEF Restore, Goto, Disturbed, At, Vetted, OnlyVettedInstalled, TypeOK, Job,
         live
    <3>10. CASE ReloadBack(c)
      BY <3>10 DEF ReloadBack, Load, Goto, Disturbed, Vetted,
         OnlyVettedInstalled, TypeOK, Job, disk
    <3>11. QED
      BY <2>7, <3>1, <3>2, <3>3, <3>4, <3>5, <3>6, <3>7, <3>8, <3>9, <3>10
         DEF Step
  <2>8. CASE UNCHANGED vars
    BY <2>8 DEF vars, Vetted, OnlyVettedInstalled
  <2>9. QED
    BY <2>3, <2>4, <2>5, <2>6, <2>7, <2>8 DEF Next
<1>3. VettedInv => OnlyVettedInstalled
  BY DEF VettedInv
<1>4. QED
  BY <1>1, <1>2, <1>3, TypeCorrect, PTL DEF Spec

-----------------------------------------------------------------------------
(* SoloInv says what the caller that runs alone knows at each step; the two *)
(* action properties are read off its last steps.                           *)

\* Whoever was disturbed, or takes a step while another call is under way,
\* claims nothing.
LEMMA OverlapKeeps ==
  ASSUME Overlap
  PROVE  SoloInv'
<1>1. solo' = NoOne /\ NoOne \notin Callers
  BY PfAssumption DEF Overlap
<1>2. \A c \in Callers : solo' # c
  BY <1>1
<1>3. QED
  BY <1>2 DEF SoloInv

\* A call that starts alone knows the files and the ruleset it starts from.
LEMMA CallSolo ==
  ASSUME TypeOK, SoloInv, NEW c \in Callers, StartReload(c) \/ StartRollback(c)
  PROVE  SoloInv'
<1>1. CASE solo' # c
  BY <1>1, OverlapKeeps DEF StartReload, StartRollback, Call
<1>2. CASE solo' = c
  <2>1. /\ \A x \in Callers \ {c} : Idle(x)
        /\ start' = [file |-> file, kernel |-> kernel]
    BY <1>2, PfAssumption DEF StartReload, StartRollback, Call, Overlap
  <2>2. \A x \in Callers \ {c} : Idle(x)'
    BY <2>1 DEF StartReload, StartRollback, Call, Idle, TypeOK
  <2>3. /\ file' = file /\ db' = db
        /\ \/ job'[c].pc = "validate" /\ job'[c].conf = db
           \/ job'[c].pc = "rollback" /\ job'[c].conf = Initial
    <3>1. DOMAIN job = Callers /\ DOMAIN IdleJob = {"pc", "conf", "text"}
      BY DEF TypeOK, IdleJob
    <3>2. CASE StartReload(c)
      BY <3>1, <3>2 DEF StartReload, GeneratePfConf, Call, IdleJob, disk
    <3>3. CASE StartRollback(c)
      BY <3>1, <3>3 DEF StartRollback, Call, IdleJob, disk
    <3>4. QED
      BY <3>2, <3>3
  <2>4. QED
    BY <1>2, <2>1, <2>2, <2>3, PfAssumption DEF SoloInv
<1>3. QED
  BY <1>1, <1>2

\* One step of a call that runs alone.
LEMMA StepSolo ==
  ASSUME TypeOK, SoloInv, NEW c \in Callers, Step(c), solo = c, solo' = c
  PROVE  SoloInv'
<1> DEFINE j == job[c]
           k == job'[c]
<1> USE IdleJobType, PfAssumption
<1>1. j \in Job /\ job \in [Callers -> Job] /\ file \in Files
  BY DEF TypeOK
<1>2. /\ \A x \in Callers \ {c} : job'[x] = job[x]
      /\ start' = start
  BY <1>1 DEF Step, Validate, TruncateBackup, WriteBackup, WriteConf,
     SetupPipes, Reload, Enable, Rollback, Restore, ReloadBack, Goto, Disturbed,
     Overlap
<1>3. \A x \in Callers \ {c} : Idle(x)'
  BY <1>2 DEF SoloInv, Idle
<1>4. CASE Validate(c)
  <2>1. k = [j EXCEPT !.pc = "backup"] \/ k = IdleJob
    BY <1>1, <1>4 DEF Validate, Goto, Disturbed, Overlap, At
  <2>2. (k.pc = "backup" /\ k.conf = j.conf) \/ k.pc = "idle"
    BY <1>1, <2>1 DEF Job
  <2>3. QED
    BY <1>2, <1>3, <1>4, <2>2 DEF Validate, SoloInv, disk
<1>5. CASE TruncateBackup(c)
  <2>1. k.pc = "backup_write" /\ k.conf = j.conf /\ k.text = file
    BY <1>1, <1>5 DEF TruncateBackup, Goto, Disturbed, Overlap, Copying, Job
  <2>2. QED
    BY <1>2, <1>3, <1>5, <2>1 DEF TruncateBackup, SoloInv
<1>6. CASE WriteBackup(c)
  <2>1. k.pc = "write" /\ k.conf = j.conf /\ known' = j.text
    BY <1>1, <1>6 DEF WriteBackup, Goto, Disturbed, Overlap, At, Job
  <2>2. QED
    BY <1>2, <1>3, <1>6, <2>1 DEF WriteBackup, SoloInv
<1>7. CASE WriteConf(c)
  <2>1. k.pc = "pipes" /\ k.conf = j.conf /\ file' = j.conf
    BY <1>1, <1>7 DEF WriteConf, Goto, Disturbed, Overlap, At, Job
  <2>2. QED
    BY <1>2, <1>3, <1>7, <2>1 DEF WriteConf, SoloInv
<1>8. CASE SetupPipes(c)
  <2>1. /\ k.pc = "reload" /\ k.conf = j.conf
        /\ db \notin Unlimited => pipes' = db
    BY <1>1, <1>8 DEF SetupPipes, Goto, Disturbed, Overlap, At, Job
  <2>2. QED
    BY <1>2, <1>3, <1>8, <2>1 DEF SetupPipes, SoloInv, disk
<1>9. CASE Reload(c)
  <2>1. /\ k.conf = j.conf
        /\ \/ k.pc = "enable" /\ kernel' = file
           \/ k.pc = "rollback"
    BY <1>1, <1>9 DEF Reload, Load, Goto, Disturbed, Overlap, At, Job
  <2>2. QED
    BY <1>2, <1>3, <1>9, <2>1 DEF Reload, SoloInv, disk
<1>10. CASE Enable(c)
  <2>1. k.pc = "idle"
    BY <1>1, <1>10 DEF Enable, Goto, Disturbed, Overlap
  <2>2. QED
    BY <1>2, <1>3, <2>1 DEF SoloInv
<1>11. CASE Rollback(c)
  <2>1. k.pc = "idle" \/ (k.pc = "restore" /\ k.conf = j.conf /\ k.text = known)
    BY <1>1, <1>11 DEF Rollback, Goto, Disturbed, Overlap, Copying, Job
  <2>2. QED
    BY <1>2, <1>3, <1>11, <2>1 DEF Rollback, SoloInv
<1>12. CASE Restore(c)
  <2>1. k.pc = "reload_back" /\ k.conf = j.conf /\ file' = j.text
    BY <1>1, <1>12 DEF Restore, Goto, Disturbed, Overlap, At, Job
  <2>2. QED
    BY <1>2, <1>3, <1>12, <2>1 DEF Restore, SoloInv
<1>13. CASE ReloadBack(c)
  <2>1. k.pc = "idle"
    BY <1>1, <1>13 DEF ReloadBack, Goto, Disturbed, Overlap
  <2>2. QED
    BY <1>2, <1>3, <2>1 DEF SoloInv
<1>14. QED
  BY <1>4, <1>5, <1>6, <1>7, <1>8, <1>9, <1>10, <1>11, <1>12, <1>13 DEF Step

\* SoloInv holds throughout: an undisturbed call finds its own work intact.
LEMMA SoloInductive == Spec => []SoloInv
<1>1. Init => SoloInv
  BY PfAssumption DEF Init, SoloInv
<1>2. TypeOK /\ SoloInv /\ [Next]_vars => SoloInv'
  <2> SUFFICES ASSUME TypeOK, SoloInv, [Next]_vars PROVE SoloInv'
    OBVIOUS
  <2>1. CASE SaveConfig
    BY <2>1, OverlapKeeps DEF SaveConfig
  <2>2. ASSUME NEW c \in Callers, StartReload(c) \/ StartRollback(c)
        PROVE  SoloInv'
    BY <2>2, CallSolo
  <2>3. ASSUME NEW c \in Callers, Step(c) PROVE SoloInv'
    <3>1. Overlap \/ (solo = c /\ solo' = c)
      BY <2>3 DEF Step, Validate, TruncateBackup, WriteBackup, WriteConf,
         SetupPipes, Reload, Enable, Rollback, Restore, ReloadBack, Goto,
         Disturbed
    <3>2. QED
      BY <2>3, <3>1, OverlapKeeps, StepSolo
  <2>4. ASSUME NEW c \in Callers, Crash(c) PROVE SoloInv'
    BY <2>4, OverlapKeeps DEF Crash, Disturbed
  <2>5. CASE UNCHANGED vars
    BY <2>5 DEF vars, SoloInv, Idle
  <2>6. QED
    BY <2>1, <2>2, <2>3, <2>4, <2>5 DEF Next
<1>3. QED
  BY <1>1, <1>2, TypeCorrect, PTL DEF Spec

\* An apply that nothing disturbs and that reaches its end has installed in
\* pf.conf, the kernel and dummynet exactly the configuration it generated.
THEOREM ApplyIsComplete == Spec => ApplyInstallsConf
<1> DEFINE A == \A c \in Callers :
                  job[c].pc = "enable" /\ job'[c].pc = "idle" /\ solo' = c
                  => /\ kernel' = job[c].conf /\ file' = job[c].conf
                     /\ job[c].conf \notin Unlimited => pipes' = job[c].conf
                     /\ enabled'
<1>1. TypeOK /\ SoloInv /\ [Next]_vars => [A]_vars
  <2> SUFFICES ASSUME TypeOK, SoloInv, Next, NEW c \in Callers,
                      job[c].pc = "enable", job'[c].pc = "idle", solo' = c
               PROVE  /\ kernel' = job[c].conf /\ file' = job[c].conf
                      /\ job[c].conf \notin Unlimited => pipes' = job[c].conf
                     /\ enabled'
    OBVIOUS
  <2>1. Enable(c)
    <3>1. solo' # NoOne
      BY PfAssumption
    <3>2. ASSUME NEW x \in Callers, Step(x) PROVE x = c
      BY <3>1, <3>2 DEF Step, Validate, TruncateBackup, WriteBackup, WriteConf,
         SetupPipes, Reload, Enable, Rollback, Restore, ReloadBack, Goto,
         Disturbed, Overlap
    <3>3. ASSUME NEW x \in Callers, StartReload(x) \/ StartRollback(x) PROVE FALSE
      BY <3>1, <3>3 DEF StartReload, StartRollback, Call, Overlap, Idle
    <3>4. ~SaveConfig /\ \A x \in Callers : ~Crash(x)
      BY <3>1 DEF SaveConfig, Crash, Disturbed, Overlap
    <3>5. Step(c)
      BY <3>2, <3>3, <3>4 DEF Next
    <3>6. QED
      BY <3>5 DEF Step, Validate, TruncateBackup, WriteBackup, WriteConf,
         SetupPipes, Reload, Rollback, Restore, ReloadBack
  <2>2. solo = c /\ enabled'
    BY <2>1, PfAssumption DEF Enable, Goto, Disturbed, Overlap
  <2>3. QED
    BY <2>1, <2>2 DEF SoloInv, Enable, disk
<1>2. QED
  BY <1>1, TypeCorrect, SoloInductive, PTL DEF Spec, ApplyInstallsConf

\* When the kernel refuses the ruleset of an undisturbed apply, the rollback
\* puts the previous pf.conf back and the kernel runs it if it loads at all.
THEOREM FailedApplyIsUndone == Spec => FailedApplyRestores
<1> DEFINE A == \A c \in Callers :
                  /\ job[c].pc = "reload_back" /\ job'[c].pc = "idle" /\ solo' = c
                  /\ job[c].conf \in Unloadable
                  => /\ file' = start.file
                     /\ start.file \in Confs \ Unloadable => kernel' = start.file
<1>1. TypeOK /\ SoloInv /\ [Next]_vars => [A]_vars
  <2> SUFFICES ASSUME TypeOK, SoloInv, Next, NEW c \in Callers,
                      job[c].pc = "reload_back", job'[c].pc = "idle", solo' = c,
                      job[c].conf \in Unloadable
               PROVE  /\ file' = start.file
                      /\ start.file \in Confs \ Unloadable => kernel' = start.file
    OBVIOUS
  <2>1. ReloadBack(c)
    <3>1. solo' # NoOne
      BY PfAssumption
    <3>2. ASSUME NEW x \in Callers, Step(x) PROVE x = c
      BY <3>1, <3>2 DEF Step, Validate, TruncateBackup, WriteBackup, WriteConf,
         SetupPipes, Reload, Enable, Rollback, Restore, ReloadBack, Goto,
         Disturbed, Overlap
    <3>3. ASSUME NEW x \in Callers, StartReload(x) \/ StartRollback(x) PROVE FALSE
      BY <3>1, <3>3 DEF StartReload, StartRollback, Call, Overlap, Idle
    <3>4. ~SaveConfig /\ \A x \in Callers : ~Crash(x)
      BY <3>1 DEF SaveConfig, Crash, Disturbed, Overlap
    <3>5. Step(c)
      BY <3>2, <3>3, <3>4 DEF Next
    <3>6. QED
      BY <3>5 DEF Step, Validate, TruncateBackup, WriteBackup, WriteConf,
         SetupPipes, Reload, Enable, Rollback, Restore
  <2>2. solo = c /\ file' = file
        /\ (file \in Unloadable \cup {Torn} \/ kernel' = file)
    BY <2>1, PfAssumption DEF ReloadBack, Load, Goto, Disturbed, Overlap, disk
  <2>3. QED
    BY <2>1, <2>2, PfAssumption DEF SoloInv
<1>2. QED
  BY <1>1, TypeCorrect, SoloInductive, PTL DEF Spec, FailedApplyRestores
-----------------------------------------------------------------------------
(* pf.conf and the ruleset in the kernel. *)

\* What the caller that runs alone knows of both: the ruleset it found until it loads
\* one, and that a rollback copies the backup.
DiskInv ==
    \A c \in Callers : solo = c =>
      LET j == job[c]
      IN  /\ j.pc \in {"validate", "backup", "backup_write", "write", "pipes", "reload"}
               => kernel = start.kernel
          /\ j.pc = "rollback" /\ known = NoFile
               => file = start.file /\ kernel = start.kernel
          /\ j.pc = "restore" => j.text = known
          /\ j.pc = "reload_back" => file = known

\* A caller that still runs alone after a step of a call has taken that step itself.
LEMMA SoloStep ==
  ASSUME TypeOK, Next, NEW c \in Callers, ~Idle(c), solo' = c
  PROVE  Step(c) /\ solo = c /\ start' = start
<1>1. solo' # NoOne
  BY PfAssumption
<1>2. ASSUME NEW x \in Callers, Step(x) PROVE x = c /\ solo = c /\ start' = start
  BY <1>1, <1>2 DEF Step, Validate, TruncateBackup, WriteBackup, WriteConf,
     SetupPipes, Reload, Enable, Rollback, Restore, ReloadBack, Goto,
     Disturbed, Overlap
<1>3. ASSUME NEW x \in Callers, StartReload(x) \/ StartRollback(x) PROVE FALSE
  BY <1>1, <1>3 DEF StartReload, StartRollback, Call, Overlap, Idle
<1>4. ~SaveConfig /\ \A x \in Callers : ~Crash(x)
  BY <1>1 DEF SaveConfig, Crash, Disturbed, Overlap
<1>5. QED
  BY <1>2, <1>3, <1>4 DEF Next

\* One step of a call that runs alone keeps DiskInv.
LEMMA StepDisk ==
  ASSUME TypeOK, SoloInv, DiskInv, NEW c \in Callers, Step(c), solo = c, solo' = c,
         start' = start
  PROVE  DiskInv'
<1> DEFINE j == job[c]
           k == job'[c]
<1> USE IdleJobType, PfAssumption
<1>1. j \in Job /\ job \in [Callers -> Job] /\ start.file \in Files
  BY DEF TypeOK
<1>2. NoFile \notin Files
  BY DEF Files
<1>3. CASE Validate(c)
  <2>1. k = [j EXCEPT !.pc = "backup"] \/ k = IdleJob
    BY <1>1, <1>3 DEF Validate, Goto, Disturbed, Overlap, At
  <2>2. k.pc \in {"backup", "idle"}
    BY <1>1, <2>1 DEF Job
  <2>3. QED
    BY <1>3, <2>2 DEF Validate, DiskInv, live
<1>4. CASE TruncateBackup(c)
  <2>1. k.pc = "backup_write"
    BY <1>1, <1>4 DEF TruncateBackup, Goto, Disturbed, Overlap, Copying, Job
  <2>2. QED
    BY <1>4, <2>1 DEF TruncateBackup, DiskInv, live
<1>5. CASE WriteBackup(c)
  <2>1. k.pc = "write"
    BY <1>1, <1>5 DEF WriteBackup, Goto, Disturbed, Overlap, At, Job
  <2>2. QED
    BY <1>5, <2>1 DEF WriteBackup, DiskInv, live
<1>6. CASE WriteConf(c)
  <2>1. k.pc = "pipes"
    BY <1>1, <1>6 DEF WriteConf, Goto, Disturbed, Overlap, At, Job
  <2>2. QED
    BY <1>6, <2>1 DEF WriteConf, DiskInv, live
<1>7. CASE SetupPipes(c)
  <2>1. k.pc = "reload"
    BY <1>1, <1>7 DEF SetupPipes, Goto, Disturbed, Overlap, At, Job
  <2>2. QED
    BY <1>7, <2>1 DEF SetupPipes, DiskInv
<1>8. CASE Reload(c)
  <2>1. k.pc \in {"enable", "rollback"} /\ known' = known /\ known = start.file
    BY <1>1, <1>8 DEF Reload, Goto, Disturbed, Overlap, At, Job, SoloInv, disk
  <2>2. QED
    BY <1>1, <1>2, <2>1 DEF DiskInv
<1>9. CASE Enable(c) \/ ReloadBack(c)
  <2>1. k.pc = "idle"
    BY <1>1, <1>9 DEF Enable, ReloadBack, Goto, Disturbed, Overlap
  <2>2. QED
    BY <2>1 DEF DiskInv
<1>10. CASE Rollback(c)
  <2>1. k.pc = "idle" \/ (k.pc = "restore" /\ k.text = known)
    BY <1>1, <1>10 DEF Rollback, Goto, Disturbed, Overlap, Copying, Job
  <2>2. QED
    BY <1>10, <2>1 DEF Rollback, DiskInv
<1>11. CASE Restore(c)
  <2>1. k.pc = "reload_back" /\ file' = j.text /\ known' = known
    BY <1>1, <1>11 DEF Restore, Goto, Disturbed, Overlap, At, Job
  <2>2. j.text = known
    BY <1>11 DEF Restore, DiskInv
  <2>3. QED
    BY <2>1, <2>2 DEF DiskInv
<1>12. QED
  BY <1>3, <1>4, <1>5, <1>6, <1>7, <1>8, <1>9, <1>10, <1>11 DEF Step

\* DiskInv holds throughout.
LEMMA DiskInductive == Spec => []DiskInv
<1>1. Init => DiskInv
  BY PfAssumption DEF Init, DiskInv
<1>2. TypeOK /\ SoloInv /\ DiskInv /\ [Next]_vars => DiskInv'
  <2> SUFFICES ASSUME TypeOK, SoloInv, DiskInv, [Next]_vars, NEW c \in Callers, solo' = c
               PROVE  DiskInv'
    BY DEF DiskInv
  <2>1. CASE UNCHANGED vars
    BY <2>1 DEF vars, DiskInv
  <2>2. CASE Next /\ Idle(c)
    <3>1. CASE \E x \in Callers : StartReload(x) \/ StartRollback(x)
      <4>1. PICK x \in Callers : StartReload(x) \/ StartRollback(x)
        BY <3>1
      <4>2. PICK j : Call(x, j)
        BY <4>1 DEF StartReload, StartRollback
      <4>3. x = c /\ start' = [file |-> file, kernel |-> kernel]
        BY <4>2, PfAssumption DEF Call, Overlap
      <4>4. file' = file /\ kernel' = kernel
        BY <4>1 DEF StartReload, StartRollback, disk, live
      <4>5. job'[c].pc \in {"validate", "rollback"}
        <5>1. \/ job'[c] = [IdleJob EXCEPT !.pc = "validate", !.conf = GeneratePfConf]
              \/ job'[c] = [IdleJob EXCEPT !.pc = "rollback"]
          BY <4>1, <4>3 DEF StartReload, StartRollback, Call, TypeOK
        <5>2. QED
          BY <5>1, IdleJobType DEF Job
      <4>6. QED
        BY <4>3, <4>4, <4>5 DEF DiskInv
    <3>2. CASE ~\E x \in Callers : StartReload(x) \/ StartRollback(x)
      <4>1. job'[c] = job[c]
        <5>1. solo' # NoOne
          BY PfAssumption
        <5>2. PICK x \in Callers : Step(x)
          BY <2>2, <3>2, <5>1 DEF Next, SaveConfig, Crash, Disturbed, Overlap
        <5>3. x = c
          BY <5>1, <5>2 DEF Step, Validate, TruncateBackup, WriteBackup, WriteConf,
             SetupPipes, Reload, Enable, Rollback, Restore, ReloadBack, Goto,
             Disturbed, Overlap
        <5>4. QED
          BY <2>2, <5>2, <5>3 DEF Idle, Step, Validate, TruncateBackup, WriteBackup,
             WriteConf, SetupPipes, Reload, Enable, Rollback, Restore, ReloadBack
      <4>2. QED
        BY <2>2, <4>1 DEF DiskInv, Idle
    <3>3. QED
      BY <3>1, <3>2
  <2>3. CASE Next /\ ~Idle(c)
    BY <2>3, SoloStep, StepDisk
  <2>4. QED
    BY <2>1, <2>2, <2>3
<1>3. QED
  BY <1>1, <1>2, TypeCorrect, SoloInductive, PTL DEF Spec

\* An undisturbed reload_pf_rules or rollback_pf that found pf.conf and the kernel in
\* agreement leaves them so, whichever way it ends, if its backup is whole and loadable.
THEOREM DiskAndKernelAgree == Spec => DiskMatchesKernel
<1> DEFINE A == \A c \in Callers :
                  /\ job[c].pc # "idle" /\ job'[c].pc = "idle" /\ solo' = c
                  /\ start.file = start.kernel /\ start.kernel \in Confs
                  /\ known' \in (Confs \ Unloadable) \cup {NoFile}
                  => file' = kernel'
<1>1. TypeOK /\ SoloInv /\ DiskInv /\ [Next]_vars => [A]_vars
  <2> SUFFICES ASSUME TypeOK, SoloInv, DiskInv, Next, NEW c \in Callers,
                      job[c].pc # "idle", job'[c].pc = "idle", solo' = c,
                      start.file = start.kernel,
                      known' \in (Confs \ Unloadable) \cup {NoFile}
               PROVE  file' = kernel'
    OBVIOUS
  <2>1. Step(c) /\ solo = c
    BY SoloStep DEF Idle
  <2>2. job[c] \in Job /\ job \in [Callers -> Job] /\ file \in Files
    BY DEF TypeOK
  <2>3. CASE Validate(c)
    BY <2>1, <2>3 DEF Validate, SoloInv, DiskInv, disk, live
  <2>4. CASE Enable(c)
    BY <2>1, <2>4 DEF Enable, SoloInv, disk
  <2>5. CASE Rollback(c)
    <3>1. known = NoFile /\ UNCHANGED <<file, kernel>>
      BY <2>1, <2>2, <2>5, PfAssumption
         DEF Rollback, Goto, Disturbed, Overlap, Copying, Job, live
    <3>2. QED
      BY <2>1, <2>5, <3>1 DEF DiskInv, Rollback
  <2>6. CASE ReloadBack(c)
    <3>1. /\ file' = file /\ known' = known
          /\ kernel' = file \/ file \in Unloadable \cup {Torn}
      BY <2>1, <2>6, PfAssumption DEF ReloadBack, Load, Goto, Disturbed, Overlap, disk
    <3>2. file = known
      BY <2>1, <2>6 DEF DiskInv, ReloadBack
    <3>3. file \notin Unloadable \cup {Torn}
      BY <2>2, <3>1, <3>2, PfAssumption DEF Files
    <3>4. QED
      BY <3>1, <3>3
  <2>7. CASE TruncateBackup(c) \/ WriteBackup(c) \/ WriteConf(c) \/ SetupPipes(c)
             \/ Reload(c) \/ Restore(c)
    <3>1. job'[c].pc # "idle"
      BY <2>1, <2>2, <2>7, PfAssumption
         DEF TruncateBackup, WriteBackup, WriteConf, SetupPipes, Reload, Restore,
             Goto, Disturbed, Overlap, At, Copying, Job
    <3>2. QED
      BY <3>1
  <2>8. QED
    BY <2>1, <2>3, <2>4, <2>5, <2>6, <2>7 DEF Step
<1>2. QED
  BY <1>1, TypeCorrect, SoloInductive, DiskInductive, PTL DEF Spec, DiskMatchesKernel
=============================================================================
