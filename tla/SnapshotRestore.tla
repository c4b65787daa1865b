--------------------------- MODULE SnapshotRestore ---------------------------
(***************************************************************************)
(* Full-system snapshots: a backup reads the components one after the      *)
(* other, a restore first takes a rollback snapshot, then writes component *)
(* by component, and on the first error restores the rollback snapshot the *)
(* same way.  Directories are emptied and refilled file by file, and a     *)
(* directory may hold files that are components of their own.  Everything  *)
(* else keeps writing meanwhile, a step may fail, the process may die.     *)
(***************************************************************************)
EXTENDS Naturals, Sequences, FiniteSets

CONSTANTS
    Definitions,  \* the components in order: kind, and the paths below it
    Contents,     \* what a file may hold
    Disks,        \* the paths present on the systems a behaviour may begin with
    Uploads,      \* backups from elsewhere an administrator may upload
    MaxAsked,     \* bound on the requests
    MaxTouched    \* bound on the writes by others

Gone == "gone"
Paths == UNION {Definitions[i].paths : i \in DOMAIN Definitions}

ASSUME SnapshotAssumption ==
    /\ Gone \notin Contents
    /\ Definitions \in Seq([kind : {"file", "directory"}, paths : SUBSET Paths])
    /\ Disks \subseteq SUBSET Paths
    /\ \A i \in DOMAIN Definitions : Definitions[i].kind = "file" =>
            Cardinality(Definitions[i].paths) = 1
    /\ {MaxAsked, MaxTouched} \subseteq Nat

VARIABLES
    disk,       \* path -> contents, or Gone
    shelf,      \* backups made here
    work,        \* the backup or restore under way
    verdict,    \* what the last request told the administrator
    asked,      \* requests so far
    wished,     \* history: the parts the last restore was asked for
    before,     \* history: the disk when it was asked
    touched,    \* history: paths others wrote since
    stuck,      \* history: paths that could not be removed
    touches     \* writes by others so far

snapVars == <<disk, shelf, work, verdict, asked, wished, before, touched, stuck, touches>>
histVars == <<wished, before, touched, stuck, touches>>

\* next: the component at hand; left: the paths of it still to be written once it
\* is emptied; parts: what is being restored; bad: the component of it whose
\* checksum is wrong, 0 for none; got: what has been read.
NoWork == [phase |-> "idle", next |-> 1, emptied |-> FALSE, left |-> {},
          parts |-> <<>>, bad |-> 0, got |-> <<>>, masked |-> FALSE]

Component == Definitions[work.next]
More == work.next =< Len(Definitions)
Advance(j) == [j EXCEPT !.next = @ + 1, !.emptied = FALSE, !.left = {}]
-----------------------------------------------------------------------------
\* _build_full_snapshot_payload, for backup_restore_download and for the rollback
\* snapshot of a restore; an error ends either request with nothing changed.
Download(mask) ==
    /\ work = NoWork /\ asked < MaxAsked
    /\ asked' = asked + 1
    /\ work' = [NoWork EXCEPT !.phase = "backup", !.masked = mask]
    /\ UNCHANGED <<disk, shelf, verdict, histVars>>

ReadComponent ==
    /\ work.phase \in {"backup", "snapshot"} /\ More
    /\ work' = Advance([work EXCEPT !.got = Append(@, [p \in Component.paths |-> disk[p]])])
    /\ UNCHANGED <<disk, shelf, verdict, asked, histVars>>

ReadFails ==
    /\ work.phase \in {"backup", "snapshot"}
    /\ work' = NoWork
    /\ UNCHANGED <<disk, shelf, verdict, asked, histVars>>

\* A backup as this system writes it, in an envelope with checksum and schema.
Backup(parts, masked) ==
    [parts |-> parts, masked |-> masked, bad |-> 0, newer |-> FALSE, bare |-> FALSE]

SaveBackup ==
    /\ work.phase = "backup" /\ ~More
    /\ shelf' = shelf \cup {Backup(work.got, work.masked)}
    /\ work' = NoWork
    /\ UNCHANGED <<disk, verdict, asked, histVars>>
-----------------------------------------------------------------------------
\* _decode_snapshot_envelope and the masking check: a bare payload has neither a
\* checksum nor a schema to look at.
Refused(b) == b.masked \/ (~b.bare /\ (b.bad # 0 \/ b.newer))

\* backup_restore_restore up to the rollback snapshot.
Restore(b) ==
    /\ work = NoWork /\ asked < MaxAsked
    /\ asked' = asked + 1
    /\ verdict' = IF Refused(b) THEN "refused" ELSE "none"
    /\ work' = IF Refused(b) THEN NoWork
              ELSE [NoWork EXCEPT !.phase = "snapshot", !.parts = b.parts, !.bad = b.bad]
    /\ wished' = b.parts
    /\ before' = disk
    /\ touched' = {} /\ stuck' = {}
    /\ UNCHANGED <<disk, shelf, touches>>

\* The rollback snapshot is complete; writing it out as a safety file is optional
\* and may fail.
BeginWriting(safety) ==
    /\ work.phase = "snapshot" /\ ~More
    /\ shelf' = IF safety THEN shelf \cup {Backup(work.got, FALSE)} ELSE shelf
    /\ work' = [work EXCEPT !.phase = "restore", !.next = 1]
    /\ UNCHANGED <<disk, verdict, asked, histVars>>

Writing == work.phase \in {"restore", "rollback"}

\* The component of the backup at hand; one the backup does not carry is passed over.
Carried == More /\ work.next \in DOMAIN work.parts
Wanted == work.parts[work.next]

PassOver ==
    /\ Writing /\ More /\ work.next \notin DOMAIN work.parts
    /\ work' = Advance(work)
    /\ UNCHANGED <<disk, shelf, verdict, asked, histVars>>

\* _restore_file_component: removed if the backup has none, else replaced in one go.
FileTarget(p) == Wanted[p]

RestoreFile ==
    /\ Writing /\ Carried /\ Component.kind = "file" /\ work.next # work.bad
    /\ disk' = [p \in Paths |-> IF p \in Component.paths THEN FileTarget(p) ELSE disk[p]]
    /\ work' = Advance(work)
    /\ UNCHANGED <<shelf, verdict, asked, histVars>>

\* _restore_directory_component begins: _force_rmtree swallows the errors of the
\* paths it cannot remove.
EmptyDirectory(kept) ==
    /\ Writing /\ Carried /\ Component.kind = "directory" /\ ~work.emptied
    /\ kept \subseteq {p \in Component.paths : disk[p] # Gone}
    /\ disk' = [p \in Paths |-> IF p \in Component.paths \ kept THEN Gone ELSE disk[p]]
    /\ stuck' = stuck \cup kept
    /\ work' = [work EXCEPT !.emptied = TRUE,
                          !.left = {p \in Component.paths : Wanted[p] # Gone}]
    /\ UNCHANGED <<shelf, verdict, asked, wished, before, touched, touches>>

RestoreEntry(p) ==
    /\ Writing /\ More /\ p \in work.left /\ work.next # work.bad
    /\ disk' = [disk EXCEPT ![p] = Wanted[p]]
    /\ work' = [work EXCEPT !.left = @ \ {p}]
    /\ UNCHANGED <<shelf, verdict, asked, histVars>>

DirectoryDone ==
    /\ Writing /\ More /\ work.emptied /\ work.left = {}
    /\ work' = Advance(work)
    /\ UNCHANGED <<disk, shelf, verdict, asked, histVars>>

\* Mutant: the rollback goes on from the component that failed.
RollBackFromHere == [work EXCEPT !.phase = "rollback", !.emptied = FALSE, !.left = {},
                                !.parts = work.got, !.bad = 0]

\* The rollback is a restore of the rollback snapshot, from the first component on.
RollBack == [NoWork EXCEPT !.phase = "rollback", !.parts = work.got]

\* An error of the restore starts the rollback, one of the rollback ends it.
RestoreFails ==
    /\ Writing
    /\ IF work.phase = "restore"
       THEN work' = RollBack /\ UNCHANGED verdict
       ELSE work' = NoWork /\ verdict' = "rollback_failed"
    /\ UNCHANGED <<disk, shelf, asked, histVars>>

\* Every component is done; a backup that carried none of them is an error, which
\* RestoreFails covers.  Restarting the services afterwards changes no component.
RestoreDone ==
    /\ Writing /\ ~More
    /\ DOMAIN Definitions \cap DOMAIN work.parts # {}
    /\ verdict' = IF work.phase = "restore" THEN "restored" ELSE "rolled_back"
    /\ work' = NoWork
    /\ UNCHANGED <<disk, shelf, asked, histVars>>

\* The process dies with the request.
Killed ==
    /\ work # NoWork
    /\ work' = NoWork
    /\ UNCHANGED <<disk, shelf, verdict, asked, histVars>>

\* Any other writer of these files: a request, a service, the database.
Touch(p, c) ==
    /\ touches < MaxTouched
    /\ touches' = touches + 1
    /\ disk' = [disk EXCEPT ![p] = c]
    /\ touched' = touched \cup {p}
    /\ UNCHANGED <<shelf, work, verdict, asked, wished, before, stuck>>
-----------------------------------------------------------------------------
InitialDisks ==
    {[p \in Paths |-> IF p \in present THEN c ELSE Gone] : present \in Disks, c \in Contents}

SnapInit ==
    /\ disk \in InitialDisks
    /\ shelf = {}
    /\ work = NoWork /\ verdict = "none" /\ asked = 0
    /\ wished = <<>> /\ before = disk /\ touched = {} /\ stuck = {} /\ touches = 0

SnapNext ==
    \/ \E mask \in BOOLEAN : Download(mask)
    \/ \E b \in shelf \cup Uploads : Restore(b)
    \/ \E safety \in BOOLEAN : BeginWriting(safety)
    \/ \E kept \in SUBSET Paths : EmptyDirectory(kept)
    \/ \E p \in Paths : RestoreEntry(p)
    \/ \E p \in Paths, c \in Contents \cup {Gone} : Touch(p, c)
    \/ ReadComponent \/ ReadFails \/ SaveBackup \/ PassOver \/ RestoreFile
    \/ DirectoryDone \/ RestoreFails \/ RestoreDone \/ Killed

\* What the restored backup says of a path: the last component that carries it.
Carriers(p) == {i \in DOMAIN wished \cap DOMAIN Definitions : p \in Definitions[i].paths}
Promised(p) ==
    IF Carriers(p) = {} THEN before[p]
    ELSE wished[CHOOSE i \in Carriers(p) : \A j \in Carriers(p) : j =< i][p]

\* What the administrator is told is true of every path nobody else wrote: after
\* "restore completed" it holds what the backup holds, after "previous
\* configuration was restored" what it held when the restore was asked for, and
\* after a refusal nothing has changed.  A file that could not be removed may
\* remain where none should be.
RestoreToldTruth ==
    work = NoWork =>
        \A p \in Paths \ touched :
            LET due == CASE verdict = "restored" -> Promised(p)
                         [] verdict \in {"rolled_back", "refused"} -> before[p]
                         [] OTHER -> disk[p]
            IN  disk[p] = due \/ (due = Gone /\ p \in stuck)
=============================================================================
