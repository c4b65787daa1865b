------------------------------ MODULE PfReload ------------------------------
(***************************************************************************)
(* The PF apply pipeline: reload_pf_rules generates pf.conf from the       *)
(* database, checks it, backs the live file up as "known good", swaps the  *)
(* new one in, reloads the kernel and rolls back when that fails;          *)
(* rollback_pf is also an operation of its own.                            *)
(*                                                                         *)
(* Web workers, the schedule enforcer, the assistant and the command line  *)
(* all call it, with no lock between them, so each file or kernel access   *)
(* is an action of its own.  A ruleset is identified by the database       *)
(* contents it was generated from.                                         *)
(***************************************************************************)
EXTENDS Naturals

CONSTANTS
    Callers,    \* processes that may call reload_pf_rules or rollback_pf
    Confs,      \* database contents, and the pf.conf text generated from each
    Initial,    \* the ruleset in force at the start
    Rejected,   \* macros, section order or pfctl -nf refuse these
    Unloadable, \* these pass pfctl -nf and are refused by pfctl -f
    Unlimited,  \* these have no enabled row in limiters_configs
    Torn,       \* a file truncated and not yet written; half-built pipes
    NoFile,     \* no pf.conf.known_good yet
    NoOne,      \* no caller has been running alone
    MaxEvents   \* bound on saves, failing commands and crashes

ASSUME PfAssumption ==
    /\ Rejected \subseteq Confs /\ Unloadable \subseteq Confs
    /\ Unlimited \subseteq Confs
    /\ Initial \in Confs \ (Rejected \cup Unloadable)
    /\ Torn \notin Confs /\ NoFile \notin Confs \cup {Torn}
    /\ NoOne \notin Callers
    /\ MaxEvents \in Nat

VARIABLES
    db,         \* what generate_pf_conf would produce now
    file,       \* /etc/pf.conf
    known,      \* the known-good backup
    kernel,     \* the ruleset PF runs
    pipes,      \* the configuration the dummynet pipes were built from
    enabled,    \* PF is enabled
    job,        \* the call each caller is executing
    events,     \* how much of MaxEvents is used
    solo,       \* the caller that ran its current call without overlap,
    start,      \* and the pf.conf and the ruleset in force when it began
    loadedEver  \* history: rulesets the kernel has accepted

vars == <<db, file, known, kernel, pipes, enabled, job, events, solo, start,
          loadedEver>>
disk == <<file, known>>
live == <<kernel, pipes, enabled, loadedEver>>

Files == Confs \cup {Torn}

PCs == {"idle", "validate", "backup", "backup_write", "write", "pipes",
        "reload", "enable", "rollback", "restore", "reload_back"}

\* conf: the text generated; text: the file contents being copied.
Job == [pc : PCs, conf : Confs, text : Files]

IdleJob == [pc |-> "idle", conf |-> Initial, text |-> Initial]

NoStart == [file |-> Initial, kernel |-> Initial]

TypeOK ==
    /\ db \in Confs
    /\ file \in Files
    /\ known \in Files \cup {NoFile}
    /\ kernel \in Files
    /\ pipes \in Files
    /\ enabled \in BOOLEAN
    /\ job \in [Callers -> Job]
    /\ events \in 0..MaxEvents
    /\ solo \in Callers \cup {NoOne}
    /\ start \in [file : Files, kernel : Files]
    /\ loadedEver \in SUBSET Files

Init ==
    /\ db = Initial /\ file = Initial /\ known = NoFile
    /\ kernel = Initial /\ pipes = Initial
    /\ enabled \in BOOLEAN
    /\ job = [c \in Callers |-> IdleJob]
    /\ events = 0
    /\ solo = NoOne /\ start = NoStart
    /\ loadedEver = {Initial}

-----------------------------------------------------------------------------
Event ==
    /\ events < MaxEvents
    /\ events' = events + 1

Idle(c) == job[c].pc = "idle"

Overlap == solo' = NoOne /\ start' = NoStart

Call(c, j) ==
    /\ Idle(c)
    /\ UNCHANGED events
    /\ job' = [job EXCEPT ![c] = j]
    /\ \/ /\ \A x \in Callers \ {c} : Idle(x)
          /\ solo' = c /\ start' = [file |-> file, kernel |-> kernel]
       \/ /\ \E x \in Callers \ {c} : ~Idle(x)
          /\ Overlap

Goto(c, j) ==
    /\ job' = [job EXCEPT ![c] = j]
    /\ IF solo = c THEN UNCHANGED <<solo, start>> ELSE Overlap
    /\ UNCHANGED events

\* An I/O error or a command that fails although the ruleset is fine.
Disturbed(c, j) ==
    /\ Event
    /\ job' = [job EXCEPT ![c] = j]
    /\ Overlap

At(c, pc) == [job[c] EXCEPT !.pc = pc]

Copying(c, pc, text) == [pc |-> pc, conf |-> job[c].conf, text |-> text]

-----------------------------------------------------------------------------
\* An administrator saves rules, aliases or settings.
SaveConfig ==
    /\ Event
    /\ \E x \in Confs : db' = x
    /\ Overlap
    /\ UNCHANGED <<disk, live, job>>

\* The ruleset text is a function of the database contents.
GeneratePfConf == db

\* reload_pf_rules up to the generated text.
StartReload(c) ==
    /\ Call(c, [IdleJob EXCEPT !.pc = "validate", !.conf = GeneratePfConf])
    /\ UNCHANGED <<db, disk, live>>

\* Mutant: the result of pfctl -nf is not looked at.
ValidateIgnored(c) ==
    /\ job[c].pc = "validate"
    /\ Goto(c, At(c, "backup"))
    /\ UNCHANGED <<db, disk, live>>

\* The macro check, the section-order check and pfctl -nf.
Accepted(conf) == conf \notin Rejected

\* pfctl -nf reads a private temporary file; a timeout counts as a refusal.
Validate(c) ==
    /\ job[c].pc = "validate"
    /\ \/ Accepted(job[c].conf) /\ Goto(c, At(c, "backup"))
       \/ ~Accepted(job[c].conf) /\ Goto(c, IdleJob)
       \/ Disturbed(c, IdleJob)
    /\ UNCHANGED <<db, disk, live>>

\* Mutant: the text about to be written is backed up instead of the old one.
BackupNewText(c) ==
    /\ job[c].pc = "backup"
    /\ known' = Torn
    /\ Goto(c, Copying(c, "backup_write", job[c].conf))
    /\ UNCHANGED <<db, file, live>>

\* _save_known_good: read pf.conf, then open the backup for writing, which
\* truncates it.  An OSError here is swallowed.
TruncateBackup(c) ==
    /\ job[c].pc = "backup"
    /\ \/ /\ known' = Torn
          /\ Goto(c, Copying(c, "backup_write", file))
       \/ /\ Disturbed(c, At(c, "write"))
          /\ UNCHANGED known
    /\ UNCHANGED <<db, file, live>>

WriteBackup(c) ==
    /\ job[c].pc = "backup_write"
    /\ \/ known' = job[c].text /\ Goto(c, At(c, "write"))
       \/ UNCHANGED known /\ Disturbed(c, At(c, "write"))
    /\ UNCHANGED <<db, file, live>>

\* Mutant: the temporary file is written and never moved into place.
WriteTempOnly(c) ==
    /\ job[c].pc = "write"
    /\ Goto(c, At(c, "pipes"))
    /\ UNCHANGED <<db, disk, live>>

\* atomic_write: the temporary file replaces pf.conf in one step, or not at all.
WriteConf(c) ==
    /\ job[c].pc = "write"
    /\ \/ /\ file' = job[c].conf
          /\ Goto(c, At(c, "pipes"))
       \/ /\ Disturbed(c, IdleJob)
          /\ UNCHANGED file
    /\ UNCHANGED <<db, known, live>>

\* _run_dnctl_setup reads the limiters from the database as it is now; with
\* none enabled it returns before the flush, and old pipes stay.  Failing dnctl
\* commands are ignored.
SetupPipes(c) ==
    /\ job[c].pc = "pipes"
    /\ \/ /\ db \notin Unlimited /\ pipes' = db
          /\ Goto(c, At(c, "reload"))
       \/ /\ db \in Unlimited /\ UNCHANGED pipes
          /\ Goto(c, At(c, "reload"))
       \/ /\ db \notin Unlimited /\ pipes' = Torn
          /\ Disturbed(c, At(c, "reload"))
    /\ UNCHANGED <<db, disk, kernel, enabled, loadedEver>>

\* pfctl -f pf.conf: a ruleset that loads becomes the kernel's; a torn file
\* may parse as a shorter ruleset or be refused; any load may fail or time out.
Loads == file \notin Unloadable

Load ==
    /\ kernel' = file
    /\ loadedEver' = loadedEver \cup {file}

\* Mutant: no rollback when pfctl -f fails.
ReloadNoRollback(c) ==
    /\ job[c].pc = "reload"
    /\ \/ /\ Loads /\ Load
          /\ Goto(c, At(c, "enable"))
       \/ /\ file \in Unloadable \cup {Torn}
          /\ Goto(c, IdleJob)
          /\ UNCHANGED <<kernel, loadedEver>>
    /\ UNCHANGED <<db, disk, pipes, enabled>>

Reload(c) ==
    /\ job[c].pc = "reload"
    /\ \/ /\ Loads /\ Load
          /\ Goto(c, At(c, "enable"))
       \/ /\ file \in Unloadable \cup {Torn}
          /\ Goto(c, At(c, "rollback"))
          /\ UNCHANGED <<kernel, loadedEver>>
       \/ /\ Disturbed(c, At(c, "rollback"))
          /\ UNCHANGED <<kernel, loadedEver>>
    /\ UNCHANGED <<db, disk, pipes, enabled>>

\* pf.enable is in the same try block: a timeout rolls back as well, but its
\* exit status is not looked at and the call then reports success.
Enable(c) ==
    /\ job[c].pc = "enable"
    /\ \/ enabled' = TRUE /\ Goto(c, IdleJob)
       \/ UNCHANGED enabled /\ Disturbed(c, At(c, "rollback"))
       \/ UNCHANGED enabled /\ Disturbed(c, IdleJob)
    /\ UNCHANGED <<db, disk, kernel, pipes, loadedEver>>

\* rollback_pf as an operation of its own.
StartRollback(c) ==
    /\ Call(c, [IdleJob EXCEPT !.pc = "rollback"])
    /\ UNCHANGED <<db, disk, live>>

\* Mutant: the backup is not checked for existence.
RollbackUnchecked(c) ==
    /\ job[c].pc = "rollback"
    /\ file' = Torn
    /\ Goto(c, Copying(c, "restore", known))
    /\ UNCHANGED <<db, known, live>>

\* rollback_pf reads the backup, then opens pf.conf for writing.
Rollback(c) ==
    /\ job[c].pc = "rollback"
    /\ \/ /\ known = NoFile
          /\ Goto(c, IdleJob)
          /\ UNCHANGED file
       \/ /\ known # NoFile
          /\ file' = Torn
          /\ Goto(c, Copying(c, "restore", known))
       \/ /\ Disturbed(c, IdleJob)
          /\ UNCHANGED file
    /\ UNCHANGED <<db, known, live>>

Restore(c) ==
    /\ job[c].pc = "restore"
    /\ \/ file' = job[c].text /\ Goto(c, At(c, "reload_back"))
       \/ UNCHANGED file /\ Disturbed(c, IdleJob)
    /\ UNCHANGED <<db, known, live>>

ReloadBack(c) ==
    /\ job[c].pc = "reload_back"
    /\ \/ /\ Loads /\ Load
          /\ Goto(c, IdleJob)
       \/ /\ file \in Unloadable \cup {Torn}
          /\ Goto(c, IdleJob)
          /\ UNCHANGED <<kernel, loadedEver>>
       \/ /\ Disturbed(c, IdleJob)
          /\ UNCHANGED <<kernel, loadedEver>>
    /\ UNCHANGED <<db, disk, pipes, enabled>>

\* The process is killed in the middle of a call.
Crash(c) ==
    /\ ~Idle(c)
    /\ Disturbed(c, IdleJob)
    /\ UNCHANGED <<db, disk, live>>

Step(c) ==
    \/ Validate(c) \/ TruncateBackup(c) \/ WriteBackup(c) \/ WriteConf(c)
    \/ SetupPipes(c) \/ Reload(c) \/ Enable(c) \/ Rollback(c) \/ Restore(c)
    \/ ReloadBack(c)

Next ==
    \/ SaveConfig
    \/ \E c \in Callers : StartReload(c) \/ StartRollback(c) \/ Step(c) \/ Crash(c)

Spec == Init /\ [][Next]_vars

-----------------------------------------------------------------------------
(* Properties. *)

\* However calls overlap, fail or crash, neither the kernel nor pf.conf nor the
\* backup ever holds a ruleset that the checks of reload_pf_rules refuse.
OnlyVettedInstalled == {kernel, file, known} \cap Rejected = {}

\* An undisturbed reload_pf_rules that gets as far as enabling PF leaves the
\* kernel and pf.conf at the configuration it generated, and the dummynet pipes
\* too if that configuration has limiters.
ApplyInstallsConf ==
    [][\A c \in Callers :
         job[c].pc = "enable" /\ job'[c].pc = "idle" /\ solo' = c
         => /\ kernel' = job[c].conf /\ file' = job[c].conf
            /\ job[c].conf \notin Unlimited => pipes' = job[c].conf
            /\ enabled']_vars

\* An undisturbed reload_pf_rules whose ruleset the kernel refuses puts back the
\* pf.conf it found and, if that file loads, the kernel runs it.
FailedApplyRestores ==
    [][\A c \in Callers :
         /\ job[c].pc = "reload_back" /\ job'[c].pc = "idle" /\ solo' = c
         /\ job[c].conf \in Unloadable
         => /\ file' = start.file
            /\ start.file \in Confs \ Unloadable => kernel' = start.file]_vars

\* An undisturbed call that starts while PF runs the ruleset on disk ends so too,
\* and a reboot brings up the same firewall, provided the backup it may fall
\* back on is whole and loadable.
DiskMatchesKernel ==
    [][\A c \in Callers :
         /\ job[c].pc # "idle" /\ job'[c].pc = "idle" /\ solo' = c
         /\ start.file = start.kernel /\ start.kernel \in Confs
         /\ known' \in (Confs \ Unloadable) \cup {NoFile}
         => file' = kernel']_vars

\* "Restore the known-good pf.conf": what rollback_pf would restore has been
\* accepted by the kernel before.
KnownGoodWasLoaded == known \in loadedEver \cup {NoFile, Torn}
=============================================================================
