---------------------------- MODULE RootLockProofs ----------------------------
(***************************************************************************)
(* The root lock excludes until a purge unlinks its file, for any number   *)
(* of processes and inodes.                                                *)
(***************************************************************************)
EXTENDS RootLock, TLAPS

\* Every variable keeps its type, whatever descriptors are opened and closed.
LEMMA TypeStep == TypeOK /\ [Next]_vars => TypeOK'
<1> SUFFICES ASSUME TypeOK, [Next]_vars PROVE TypeOK'
    OBVIOUS
<1> USE RootLockAssumption DEF TypeOK, Steps, Held
<1>1. ASSUME NEW p \in Procs, Begin(p) \/ Flock(p) PROVE TypeOK'
    BY <1>1 DEF Begin, Flock, Go
<1>2. ASSUME NEW p \in Procs, Acquire(p) PROVE TypeOK'
    BY <1>2 DEF Acquire, MakeDir, OpenDir, OpenFile, FreshInodes, Go
<1>3. ASSUME NEW p \in Procs, Release(p) \/ Crash(p) PROVE TypeOK'
    BY <1>3 DEF Release, Crash, CloseAll, Go
<1>4. ASSUME NEW p \in Procs, UnlinkFile(p) PROVE TypeOK'
    BY <1>4 DEF UnlinkFile, Go
<1>5. ASSUME NEW p \in Procs, RemoveDir(p) PROVE TypeOK'
    BY <1>5 DEF RemoveDir, Go
<1>6. ASSUME NEW p \in Procs, BeginRemoveTree(p) PROVE TypeOK'
    BY <1>6 DEF BeginRemoveTree, Go
<1>7. CASE Reboot
    BY <1>7 DEF Reboot
<1>8. CASE UNCHANGED vars
    BY <1>8 DEF vars
<1> QED
    BY <1>1, <1>2, <1>3, <1>4, <1>5, <1>6, <1>7, <1>8 DEF Next, Finish

\* No step of any process takes a lock from its holder or, before a purge,
\* leaves a process with a descriptor of another file.
LEMMA LockStep == LockInv /\ [Next]_vars => LockInv'
<1> SUFFICES ASSUME LockInv, [Next]_vars PROVE LockInv'
    OBVIOUS
<1>type. TypeOK /\ TypeOK'
    BY TypeStep DEF LockInv
<1> USE RootLockAssumption DEF Held
<1>1. ASSUME NEW p \in Procs, Begin(p) PROVE HoldersLock' /\ SameFile'
    BY <1>1, <1>type DEF Begin, Go, LockInv, HoldersLock, SameFile, TypeOK
<1>2. ASSUME NEW p \in Procs, MakeDir(p) \/ OpenDir(p) PROVE HoldersLock' /\ SameFile'
    BY <1>2, <1>type DEF MakeDir, OpenDir, Go, LockInv, HoldersLock, SameFile, TypeOK
<1>3. ASSUME NEW p \in Procs, OpenFile(p) PROVE HoldersLock' /\ SameFile'
  <2>1. CASE dirFd[p] # dir
      BY <2>1, <1>3, <1>type DEF OpenFile, Go, LockInv, HoldersLock, SameFile, TypeOK
  <2>2. CASE dirFd[p] = dir
    <3>1. /\ file' # None
          /\ fd' = [fd EXCEPT ![p] = file']
          /\ pc' = [pc EXCEPT ![p] = "flock"]
          /\ UNCHANGED <<lockedBy, purged>>
          /\ file # None => file' = file
        BY <2>2, <1>3, <1>type DEF OpenFile, Go, FreshInodes, TypeOK
    <3>2. HoldersLock'
        BY <3>1, <1>type DEF LockInv, HoldersLock, TypeOK
    <3>3. SameFile'
        BY <3>1, <1>type DEF LockInv, SameFile, TypeOK
    <3> QED
        BY <3>2, <3>3
  <2> QED
      BY <2>1, <2>2
<1>4. ASSUME NEW p \in Procs, Flock(p) PROVE HoldersLock' /\ SameFile'
    BY <1>4, <1>type DEF Flock, Go, LockInv, HoldersLock, SameFile, TypeOK
<1>5. ASSUME NEW p \in Procs, Release(p) \/ Crash(p) PROVE HoldersLock' /\ SameFile'
  <2>1. /\ CloseAll(p)
        /\ pc' = [pc EXCEPT ![p] = "idle"]
        /\ UNCHANGED <<file, purged>>
      BY <1>5 DEF Release, Crash, Go
  <2> QED
      BY <2>1, <1>type DEF CloseAll, LockInv, HoldersLock, SameFile, TypeOK
<1>6. ASSUME NEW p \in Procs, BeginRemoveTree(p) PROVE HoldersLock' /\ SameFile'
    BY <1>6, <1>type DEF BeginRemoveTree, Go, LockInv, HoldersLock, SameFile, TypeOK
<1>7. ASSUME NEW p \in Procs, UnlinkFile(p) \/ RemoveDir(p) PROVE HoldersLock' /\ SameFile'
    BY <1>7, <1>type DEF UnlinkFile, RemoveDir, Go, LockInv, HoldersLock, SameFile, TypeOK
<1>8. CASE Reboot
    BY <1>8, <1>type DEF Reboot, LockInv, HoldersLock, SameFile
<1>9. CASE UNCHANGED vars
    BY <1>9, <1>type DEF vars, LockInv, HoldersLock, SameFile
<1> QED
    BY <1>type, <1>1, <1>2, <1>3, <1>4, <1>5, <1>6, <1>7, <1>8, <1>9
    DEF Next, Acquire, Finish, LockInv

\* Holders hold the lock of the file their descriptor names, and until a purge
\* that is the one file every process opens (RootLock::acquire).
THEOREM LockInvariant == Spec => []LockInv
<1>1. Init => LockInv
    BY RootLockAssumption
    DEF Init, LockInv, TypeOK, HoldersLock, SameFile, Steps, Held
<1> QED
    BY <1>1, LockStep, PTL DEF Spec

\* Until a purge has unlinked helper.lock, no two of any number of helpers and
\* boot passes hold the root lock at once (rootlock.cpp).
THEOREM Exclusion == Spec => []ExclusiveUntilPurge
<1>1. LockInv => ExclusiveUntilPurge
    BY DEF LockInv, HoldersLock, SameFile, ExclusiveUntilPurge, MutualExclusion
<1> QED
    BY <1>1, LockInvariant, PTL
=============================================================================
