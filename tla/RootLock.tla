------------------------------- MODULE RootLock -------------------------------
(***************************************************************************)
(* The advisory lock every privileged nasmount process takes:              *)
(* /run/nasmount/helper.lock, reached through a directory that each        *)
(* acquisition creates when it is missing, opened with O_CREAT and locked  *)
(* with flock.  flock locks the inode behind the descriptor, not the name, *)
(* and purge removes the file and its directory while holding the lock.    *)
(***************************************************************************)
CONSTANTS
    Procs,      \* nasmount-helper and nasmount-boot
    Purgers,    \* the processes that may run a purge (the helper)
    Inodes,     \* file and directory inodes
    None

ASSUME RootLockAssumption ==
    /\ Purgers \subseteq Procs
    /\ None \notin Procs \cup Inodes

VARIABLES
    dir,        \* the inode of /run/nasmount, or None
    file,       \* the inode of helper.lock in it, or None
    dirFd,      \* each process's open directory
    fd,         \* each process's open lock file
    lockedBy,   \* who holds the flock on each inode
    pc,
    purged      \* a purge has unlinked the lock file since the last reboot

vars == <<dir, file, dirFd, fd, lockedBy, pc, purged>>

Held == {"held", "unlink", "rmdir"}

Steps == {"idle", "mkdir", "opendir", "open", "flock"} \cup Held

TypeOK ==
    /\ dir \in Inodes \cup {None}
    /\ file \in Inodes \cup {None}
    /\ dirFd \in [Procs -> Inodes \cup {None}]
    /\ fd \in [Procs -> Inodes \cup {None}]
    /\ lockedBy \in [Inodes -> Procs \cup {None}]
    /\ pc \in [Procs -> Steps]
    /\ purged \in BOOLEAN

Init ==
    /\ dir = None
    /\ file = None
    /\ dirFd = [p \in Procs |-> None]
    /\ fd = [p \in Procs |-> None]
    /\ lockedBy = [i \in Inodes |-> None]
    /\ pc = [p \in Procs |-> "idle"]
    /\ purged = FALSE

\* An inode lives while a name or a descriptor refers to it.
FreshInodes ==
    Inodes \ ({dir, file} \cup {dirFd[p] : p \in Procs} \cup {fd[p] : p \in Procs})

Go(p, step) == pc' = [pc EXCEPT ![p] = step]

\* Closing a descriptor drops the flock its holder had on the inode.
CloseAll(p) ==
    /\ dirFd' = [dirFd EXCEPT ![p] = None]
    /\ fd' = [fd EXCEPT ![p] = None]
    /\ lockedBy' = [i \in Inodes |-> IF lockedBy[i] = p THEN None ELSE lockedBy[i]]

-----------------------------------------------------------------------------
(* RootLock::acquire.                                                      *)

Begin(p) ==
    /\ pc[p] = "idle"
    /\ Go(p, "mkdir")
    /\ UNCHANGED <<dir, file, dirFd, fd, lockedBy, purged>>

\* mkdirat, where an existing directory is as good.
MakeDir(p) ==
    /\ pc[p] = "mkdir"
    /\ IF dir = None THEN dir' \in FreshInodes ELSE UNCHANGED dir
    /\ Go(p, "opendir")
    /\ UNCHANGED <<file, dirFd, fd, lockedBy, purged>>

\* The directory may have gone again: "cannot open just-created".
OpenDir(p) ==
    /\ pc[p] = "opendir"
    /\ IF dir = None
       THEN Go(p, "idle") /\ UNCHANGED dirFd
       ELSE Go(p, "open") /\ dirFd' = [dirFd EXCEPT ![p] = dir]
    /\ UNCHANGED <<dir, file, fd, lockedBy, purged>>

\* Mutant of OpenFile: every acquisition makes its own file.
OpenFileAnew(p) ==
    /\ pc[p] = "open"
    /\ dirFd' = [dirFd EXCEPT ![p] = None]
    /\ file' \in FreshInodes
    /\ fd' = [fd EXCEPT ![p] = file']
    /\ Go(p, "flock")
    /\ UNCHANGED <<dir, lockedBy, purged>>

\* openat(O_CREAT) in the directory the descriptor names; a removed directory
\* takes no new entry.
OpenFile(p) ==
    /\ pc[p] = "open"
    /\ dirFd' = [dirFd EXCEPT ![p] = None]
    /\ IF dirFd[p] # dir
       THEN Go(p, "idle") /\ UNCHANGED <<file, fd>>
       ELSE /\ IF file = None THEN file' \in FreshInodes ELSE UNCHANGED file
            /\ fd' = [fd EXCEPT ![p] = file']
            /\ Go(p, "flock")
    /\ UNCHANGED <<dir, lockedBy, purged>>

\* Mutant of Flock: a shared lock.
FlockShared(p) ==
    /\ pc[p] = "flock"
    /\ lockedBy' = [lockedBy EXCEPT ![fd[p]] = p]
    /\ Go(p, "held")
    /\ UNCHANGED <<dir, file, dirFd, fd, purged>>

\* Blocks until the inode is free.  Nothing looks at the path again.
Flock(p) ==
    /\ pc[p] = "flock"
    /\ lockedBy[fd[p]] = None
    /\ lockedBy' = [lockedBy EXCEPT ![fd[p]] = p]
    /\ Go(p, "held")
    /\ UNCHANGED <<dir, file, dirFd, fd, purged>>

\* Mutant of Release: the descriptor leaks and the flock with it.
ReleaseLeaks(p) ==
    /\ pc[p] = "held"
    /\ Go(p, "idle")
    /\ UNCHANGED <<dir, file, dirFd, fd, lockedBy, purged>>

Release(p) ==
    /\ pc[p] = "held"
    /\ CloseAll(p)
    /\ Go(p, "idle")
    /\ UNCHANGED <<dir, file, purged>>

-----------------------------------------------------------------------------
(* The end of purge: durableRemoveTree on /run/nasmount, lock held.        *)

BeginRemoveTree(p) ==
    /\ pc[p] = "held"
    /\ p \in Purgers
    /\ dirFd' = [dirFd EXCEPT ![p] = dir]
    /\ Go(p, IF dir = None THEN "held" ELSE "unlink")
    /\ UNCHANGED <<dir, file, fd, lockedBy, purged>>

UnlinkFile(p) ==
    /\ pc[p] = "unlink"
    /\ IF dirFd[p] = dir THEN file' = None ELSE UNCHANGED file
    /\ purged' = TRUE
    /\ dirFd' = [dirFd EXCEPT ![p] = None]
    /\ Go(p, "rmdir")
    /\ UNCHANGED <<dir, fd, lockedBy>>

\* rmdir fails on a directory somebody has put a new lock file into; the
\* purge then reports the failure.
RemoveDir(p) ==
    /\ pc[p] = "rmdir"
    /\ IF file = None THEN dir' = None ELSE UNCHANGED dir
    /\ Go(p, "held")
    /\ UNCHANGED <<file, dirFd, fd, lockedBy, purged>>

-----------------------------------------------------------------------------
\* A process is killed, or a step of its acquisition fails and it gives up:
\* either way its descriptors are closed.
Crash(p) ==
    /\ pc[p] # "idle"
    /\ CloseAll(p)
    /\ Go(p, "idle")
    /\ UNCHANGED <<dir, file, purged>>

\* /run is empty after a restart.
Reboot ==
    /\ dir' = None
    /\ file' = None
    /\ dirFd' = [p \in Procs |-> None]
    /\ fd' = [p \in Procs |-> None]
    /\ lockedBy' = [i \in Inodes |-> None]
    /\ pc' = [p \in Procs |-> "idle"]
    /\ purged' = FALSE

Acquire(p) == MakeDir(p) \/ OpenDir(p) \/ OpenFile(p)

Finish(p) == Release(p) \/ UnlinkFile(p) \/ RemoveDir(p)

Next ==
    \/ \E p \in Procs :
          \/ Begin(p) \/ Acquire(p) \/ Flock(p) \/ Finish(p)
          \/ BeginRemoveTree(p) \/ Crash(p)
    \/ Reboot

Spec == Init /\ [][Next]_vars

\* Processes run, holders finish, and flock serves waiters in order.
Fairness ==
    \A p \in Procs : /\ WF_vars(Acquire(p))
                     /\ WF_vars(UnlinkFile(p) \/ RemoveDir(p))
                     /\ SF_vars(Release(p))
                     /\ SF_vars(Flock(p))

FairSpec == Spec /\ Fairness

-----------------------------------------------------------------------------
(* Properties.                                                             *)

\* rootlock.h: a boot arming pass and a helper call can never interleave.
MutualExclusion == \A p, q \in Procs : pc[p] \in Held /\ pc[q] \in Held => p = q

\* The lock excludes as long as no purge has unlinked its file: whatever way
\* acquisitions, crashes and re-creations of the directory interleave, all
\* processes flock the same inode.
ExclusiveUntilPurge == purged \/ MutualExclusion

\* Why: who is past flock holds the lock of the inode its own descriptor names,
\* and until a purge every open descriptor names the file the path leads to.
HoldersLock ==
    \A p \in Procs :
        /\ pc[p] \in Held \cup {"flock"} => fd[p] # None
        /\ pc[p] \in Held => lockedBy[fd[p]] = p

SameFile == purged \/ \A p \in Procs : fd[p] \in {None, file}

\* The inductive invariant behind ExclusiveUntilPurge.
LockInv == TypeOK /\ HoldersLock /\ SameFile

\* Whoever started to acquire the lock gets it or gets an error: no waiter is
\* left behind on an inode that was unlinked under it.
AcquireEnds == \A p \in Procs : pc[p] = "mkdir" ~> pc[p] \in Held \cup {"idle"}
=============================================================================
