----------------------------- MODULE WorkerLock -----------------------------
(***************************************************************************)
(* Leader election between the Gunicorn workers.  acquire_worker_lock      *)
(* opens a lock file, takes a non-blocking flock on it and writes its pid; *)
(* before that, _remove_stale_lock unlinks a file left by a dead process.  *)
(* Only a worker that got the lock starts the background daemons.          *)
(*                                                                         *)
(* A flock belongs to the open file, not to its path: once the file is     *)
(* unlinked, the path names another one.  One action is one system call.   *)
(***************************************************************************)
EXTENDS Naturals, FiniteSets

CONSTANTS
    Workers,    \* Gunicorn worker slots; the master respawns a dead worker
    MaxDeaths   \* bound on workers dying

ASSUME LockAssumption == MaxDeaths \in Nat

VARIABLES
    path,       \* the file the lock path names, NoFile when there is none
    made,       \* files created so far; files are numbered from 1
    content,    \* the pid in that file, Empty when there is none
    pc,         \* where each worker is in acquire_worker_lock
    pid,        \* its process id
    seen,       \* the pid it read from the lock file
    fd,         \* _lock_fd: the file it has open, NoFile when none
    pids,       \* process ids handed out so far
    deaths,     \* how much of MaxDeaths is used
    removals    \* history: lock files unlinked so far

file == <<path, made, content>>
process == <<pid, pids, deaths>>
vars == <<file, removals, process, pc, seen, fd>>

NoFile == 0
Empty == 0

\* The leader of the previous run of the service, dead by now; process ids are
\* not reused.
OldPid == 1

PCs == {"dead", "check", "stale", "open", "lock", "write", "leader", "follower"}

TypeOK ==
    /\ path \in Nat /\ made \in Nat /\ content \in Nat
    /\ pc \in [Workers -> PCs]
    /\ pid \in [Workers -> Nat] /\ pids \in Nat
    /\ seen \in [Workers -> Nat]
    /\ fd \in [Workers -> Nat]
    /\ deaths \in 0..MaxDeaths
    /\ removals \in Nat

\* The service starts.  The lock file is never removed on exit, so it may be
\* there from the previous run, with the old pid or emptied by a follower.
Init ==
    /\ \/ path = NoFile /\ made = 0 /\ content = Empty
       \/ path = 1 /\ made = 1 /\ content \in {Empty, OldPid}
    /\ pc = [w \in Workers |-> "dead"]
    /\ pid = [w \in Workers |-> OldPid] /\ pids = OldPid
    /\ seen = [w \in Workers |-> Empty]
    /\ fd = [w \in Workers |-> NoFile]
    /\ deaths = 0
    /\ removals = 0

-----------------------------------------------------------------------------
Alive(p) == \E w \in Workers : pc[w] # "dead" /\ pid[w] = p

Locked(f) == \E w \in Workers : fd[w] = f /\ pc[w] \in {"write", "leader"}

Leaders == {w \in Workers : pc[w] = "leader"}

\* The master forks a worker, which runs start_background_workers.
Spawn(w) ==
    /\ pc[w] = "dead"
    /\ pids' = pids + 1
    /\ pid' = [pid EXCEPT ![w] = pids + 1]
    /\ pc' = [pc EXCEPT ![w] = "check"]
    /\ UNCHANGED <<file, removals, seen, fd, deaths>>

\* Mutant: a pid file that exists means there is a leader.
TrustPidFile(w) ==
    /\ pc[w] = "check"
    /\ pc' = [pc EXCEPT ![w] = IF path = NoFile THEN "open" ELSE "follower"]
    /\ UNCHANGED <<file, removals, process, seen, fd>>

\* _remove_stale_lock: read the pid in the lock file, if there is one.
ReadPid(w) ==
    /\ pc[w] = "check"
    /\ seen' = [seen EXCEPT ![w] = content]
    /\ pc' = [pc EXCEPT ![w] = IF path = NoFile \/ content = Empty
                                THEN "open" ELSE "stale"]
    /\ UNCHANGED <<file, removals, process, fd>>

\* os.kill(pid, 0), then os.unlink of whatever file the path names by now.
RemoveStale(w) ==
    /\ pc[w] = "stale"
    /\ \/ /\ ~Alive(seen[w]) /\ path # NoFile
          /\ path' = NoFile /\ content' = Empty
          /\ removals' = removals + 1
       \/ /\ Alive(seen[w]) \/ path = NoFile
          /\ UNCHANGED <<path, content, removals>>
    /\ pc' = [pc EXCEPT ![w] = "open"]
    /\ seen' = [seen EXCEPT ![w] = Empty]
    /\ UNCHANGED <<made, process, fd>>

\* open(_LOCK_FILE, "w") creates the file or truncates the one that is there.
Open(w) ==
    /\ pc[w] = "open"
    /\ \/ path = NoFile /\ made' = made + 1 /\ path' = made + 1
       \/ path # NoFile /\ UNCHANGED <<path, made>>
    /\ content' = Empty
    /\ fd' = [fd EXCEPT ![w] = path']
    /\ pc' = [pc EXCEPT ![w] = "lock"]
    /\ UNCHANGED <<removals, process, seen>>

\* Mutant: the result of flock is not looked at.
LockUnchecked(w) ==
    /\ pc[w] = "lock"
    /\ pc' = [pc EXCEPT ![w] = "write"]
    /\ UNCHANGED <<file, removals, process, seen, fd>>

\* Mutant: a failed flock leaves an invalid descriptor behind.
LockKeepsInvalidFd(w) ==
    /\ pc[w] = "lock"
    /\ \/ /\ ~Locked(fd[w])
          /\ pc' = [pc EXCEPT ![w] = "write"]
          /\ UNCHANGED fd
       \/ /\ Locked(fd[w])
          /\ pc' = [pc EXCEPT ![w] = "follower"]
          /\ fd' = [fd EXCEPT ![w] = 0 - 1]
    /\ UNCHANGED <<file, removals, process, seen>>

\* flock(LOCK_EX | LOCK_NB); without it the worker closes the file.
Lock(w) ==
    /\ pc[w] = "lock"
    /\ \/ /\ ~Locked(fd[w])
          /\ pc' = [pc EXCEPT ![w] = "write"]
          /\ UNCHANGED fd
       \/ /\ Locked(fd[w])
          /\ pc' = [pc EXCEPT ![w] = "follower"]
          /\ fd' = [fd EXCEPT ![w] = NoFile]
    /\ UNCHANGED <<file, removals, process, seen>>

\* Only the file the path names can be read by anyone else.
WritePid(w) ==
    /\ pc[w] = "write"
    /\ content' = IF fd[w] = path THEN pid[w] ELSE content
    /\ pc' = [pc EXCEPT ![w] = "leader"]
    /\ UNCHANGED <<path, made, removals, process, seen, fd>>

\* A worker exits or is killed; the kernel closes its file.
Die(w) ==
    /\ pc[w] # "dead" /\ deaths < MaxDeaths
    /\ deaths' = deaths + 1
    /\ pc' = [pc EXCEPT ![w] = "dead"]
    /\ fd' = [fd EXCEPT ![w] = NoFile]
    /\ seen' = [seen EXCEPT ![w] = Empty]
    /\ UNCHANGED <<file, removals, pid, pids>>

Acquire(w) ==
    ReadPid(w) \/ RemoveStale(w) \/ Open(w) \/ Lock(w) \/ WritePid(w)

Next == \E w \in Workers : Spawn(w) \/ Acquire(w) \/ Die(w)

Spec == Init /\ [][Next]_vars

\* The master respawns workers and a worker that starts goes on.
FairSpec == Spec /\ \A w \in Workers : WF_vars(Spawn(w)) /\ WF_vars(Acquire(w))

-----------------------------------------------------------------------------
(* Properties. *)

\* Whatever dies and restarts, each further leader costs the removal of a lock
\* file; while none was removed, at most one worker runs the daemons.
LeadersBounded == Cardinality(Leaders) <= 1 + removals

\* The daemons run in the end: a stale file, an emptied file, a lost race or a
\* dead leader never leaves the service without a leader for good.
EventuallyLed == <>[](Leaders # {})

\* "Ensures only one Gunicorn worker process runs background daemon threads."
SingleLeader == \A v, w \in Leaders : v = w
=============================================================================
