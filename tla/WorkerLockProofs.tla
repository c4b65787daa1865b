-------------------------- MODULE WorkerLockProofs --------------------------
(***************************************************************************)
(* For any set of workers and any number of deaths, only the removal of a  *)
(* lock file can lead to a further leader.                                 *)
(***************************************************************************)
EXTENDS WorkerLock, FiniteSetTheorems, TLAPS

\* Workers that have a lock file open, and those that hold its flock.
Opened == {w \in Workers : pc[w] \in {"lock", "write", "leader"}}
Holders == {w \in Workers : pc[w] \in {"write", "leader"}}

\* Files are numbered in the order of their creation and each one after the
\* first was created because its predecessor had been removed.
FilesInv ==
    /\ made <= removals + 1
    /\ path = NoFile => made <= removals
    /\ path \in 0..made
    /\ \A w \in Opened : fd[w] \in 1..made

\* A file has one flock.
FlockInv == \A v, w \in Holders : fd[v] = fd[w] => v = w

\* Every reachable state of the election is well typed.
THEOREM TypeCorrect == Spec => []TypeOK
<1>1. Init => TypeOK
  BY LockAssumption DEF Init, TypeOK, PCs, NoFile, Empty, OldPid
<1>2. TypeOK /\ [Next]_vars => TypeOK'
  <2> SUFFICES ASSUME TypeOK, [Next]_vars PROVE TypeOK'
    OBVIOUS
  <2> USE DEF TypeOK, PCs, NoFile, Empty, file, process
  <2>1. ASSUME NEW w \in Workers, Spawn(w) PROVE TypeOK'
    BY <2>1 DEF Spawn
  <2>2. ASSUME NEW w \in Workers, ReadPid(w) PROVE TypeOK'
    BY <2>2 DEF ReadPid
  <2>3. ASSUME NEW w \in Workers, RemoveStale(w) PROVE TypeOK'
    BY <2>3 DEF RemoveStale
  <2>4. ASSUME NEW w \in Workers, Open(w) PROVE TypeOK'
    BY <2>4 DEF Open
  <2>5. ASSUME NEW w \in Workers, Lock(w) PROVE TypeOK'
    BY <2>5 DEF Lock
  <2>6. ASSUME NEW w \in Workers, WritePid(w) PROVE TypeOK'
    BY <2>6 DEF WritePid
  <2>7. ASSUME NEW w \in Workers, Die(w) PROVE TypeOK'
    BY <2>7, LockAssumption DEF Die
  <2>8. CASE UNCHANGED vars
    BY <2>8 DEF vars
  <2>9. QED
    BY <2>1, <2>2, <2>3, <2>4, <2>5, <2>6, <2>7, <2>8 DEF Next, Acquire
<1>3. QED
  BY <1>1, <1>2, PTL DEF Spec

-----------------------------------------------------------------------------
\* Files are only created in place of removed ones.
LEMMA FilesInductive == TypeOK /\ FilesInv /\ [Next]_vars => FilesInv'
<1> SUFFICES ASSUME TypeOK, FilesInv, [Next]_vars PROVE FilesInv'
  OBVIOUS
<1> USE DEF TypeOK, FilesInv, Opened, file, NoFile
<1>1. ASSUME NEW w \in Workers, Spawn(w) \/ ReadPid(w) PROVE FilesInv'
  BY <1>1 DEF Spawn, ReadPid
<1>2. ASSUME NEW w \in Workers, RemoveStale(w) PROVE FilesInv'
  BY <1>2 DEF RemoveStale
<1>3. ASSUME NEW w \in Workers, Open(w) PROVE FilesInv'
  BY <1>3 DEF Open
<1>4. ASSUME NEW w \in Workers, Lock(w) PROVE FilesInv'
  BY <1>4 DEF Lock
<1>5. ASSUME NEW w \in Workers, WritePid(w) \/ Die(w) PROVE FilesInv'
  BY <1>5 DEF WritePid, Die
<1>6. CASE UNCHANGED vars
  BY <1>6 DEF vars
<1>7. QED
  BY <1>1, <1>2, <1>3, <1>4, <1>5, <1>6 DEF Next, Acquire

\* Only Lock makes a holder, and only of a file that nobody holds.
LEMMA FlockInductive == TypeOK /\ FlockInv /\ [Next]_vars => FlockInv'
<1> SUFFICES ASSUME TypeOK, FlockInv, [Next]_vars PROVE FlockInv'
  OBVIOUS
<1> USE DEF TypeOK, FlockInv, Holders
<1>1. ASSUME NEW w \in Workers, Lock(w) PROVE FlockInv'
  BY <1>1 DEF Lock, Locked
<1>2. ASSUME NEW w \in Workers,
             Spawn(w) \/ ReadPid(w) \/ RemoveStale(w) \/ Open(w)
      PROVE  FlockInv'
  BY <1>2 DEF Spawn, ReadPid, RemoveStale, Open
<1>3. ASSUME NEW w \in Workers, WritePid(w) \/ Die(w) PROVE FlockInv'
  BY <1>3 DEF WritePid, Die
<1>4. CASE UNCHANGED vars
  BY <1>4 DEF vars
<1>5. QED
  BY <1>1, <1>2, <1>3, <1>4 DEF Next, Acquire

\* Whichever workers die and restart, there are at most as many workers running
\* the background daemons as lock files were removed as stale, and one more:
\* leaders hold flocks of different files, and there are not more files.
THEOREM OneLeaderPerRemoval == Spec => []LeadersBounded
<1>1. Init => FilesInv /\ FlockInv
  BY DEF Init, FilesInv, FlockInv, Opened, Holders, NoFile
<1>2. TypeOK /\ FilesInv /\ FlockInv => LeadersBounded
  <2> SUFFICES ASSUME TypeOK, FilesInv, FlockInv PROVE LeadersBounded
    OBVIOUS
  <2> DEFINE f == [w \in Leaders |-> fd[w]]
  <2>1. f \in [Leaders -> 1..made]
    BY DEF FilesInv, Opened, Leaders
  <2>2. \A v, w \in Leaders : f[v] = f[w] => v = w
    BY DEF FlockInv, Holders, Leaders
  <2>3. f \in Injection(Leaders, 1..made)
    BY <2>1, <2>2 DEF Injection, IsInjective
  <2>4. IsFiniteSet(1..made) /\ Cardinality(1..made) = made
    BY FS_Interval DEF TypeOK
  <2>5. IsFiniteSet(Leaders) /\ Cardinality(Leaders) <= made
    BY <2>3, <2>4, FS_Injection
  <2>6. Cardinality(Leaders) \in Nat
    BY <2>5, FS_CardinalityType
  <2>7. QED
    BY <2>5, <2>6 DEF TypeOK, FilesInv, LeadersBounded
<1>3. QED
  BY <1>1, <1>2, FilesInductive, FlockInductive, TypeCorrect, PTL DEF Spec
=============================================================================
