---------------------------- MODULE ShareLifecycle ----------------------------
(***************************************************************************)
(* The privileged half of nasmount: the helper's definesystem,             *)
(* undefinesystem and purge calls and nasmount-boot's arming pass, run     *)
(* step by step under the root lock, over the files they leave on disk,    *)
(* the automount-id records in /run, PID 1's loaded units and the kernel's *)
(* mounts.  A step is the largest piece of an operation whose effect is    *)
(* one system call or one systemctl command, so that a crash, a reboot, a  *)
(* user crossing the trigger or an administrator can come between any two. *)
(*                                                                         *)
(* Faults selects what the environment may do besides letting every step   *)
(* succeed:                                                                *)
(*   "io"      a file, statx or systemctl step may fail, with or without   *)
(*             having taken effect;                                        *)
(*   "crash"   a privileged process may be killed between any two steps;   *)
(*   "reboot"  the machine may restart;                                    *)
(*   "access"  users cross triggers, idle mounts expire;                   *)
(*   "admin"   an administrator starts, stops, mounts or unmounts by hand; *)
(*   "late"    a start job whose systemctl timed out may still run.        *)
(***************************************************************************)
EXTENDS Verify

CONSTANTS
    Units,      \* mount points, one systemd unit pair each
    Helpers,    \* KAuth helper processes (one, by D-Bus activation)
    Boot,       \* the nasmount-boot process
    MountIds,   \* kernel mount ids (STATX_MNT_ID_UNIQUE) of what is mounted there
    Enclosing,  \* the mount id of the file system the mount points are in
    InitFiles,  \* what a unit file may be before nasmount ever ran
    Requested,  \* the kinds of share users add
    Faults

Procs == Helpers \cup {Boot}

FaultKinds == {"io", "crash", "reboot", "access", "admin", "late"}

ASSUME LifecycleAssumption ==
    /\ None \notin Units \cup Procs \cup MountIds
    /\ Enclosing \notin MountIds \cup {None}
    /\ Boot \notin Helpers
    /\ InitFiles \subseteq {None, Unmarked, Altered}
    /\ Requested \subseteq Auths
    /\ Faults \subseteq FaultKinds

VARIABLES
    mountUnit,      \* /etc/systemd/system/<unit>.mount
    automountUnit,  \* /etc/systemd/system/<unit>.automount
    creds,          \* ids with a file /etc/nasmount/<id>.cred
    tempSecret,     \* a .nasmount-tmp-* credential file was left behind
    dirs,           \* mount points whose directory exists
    idRec,          \* /run/nasmount-ids/<unit>
    loaded,         \* the unit PID 1 holds in memory
    autofs,         \* mount id of the active trigger at each unit's path
    origin,         \* who started that trigger: none, own or foreign
    live,           \* the mount on top of it
    lateStart,      \* units PID 1 still has a start job for
    holder,         \* who holds the root lock
    pc, task, local,\* each process: its step, its request, its variables
    purgeOpen       \* a purge has begun to delete and none has finished since

disk == <<mountUnit, automountUnit, creds, tempSecret, dirs>>
kernel == <<loaded, autofs, origin, live, lateStart>>
control == <<holder, task, purgeOpen>>
vars == <<disk, idRec, kernel, control, pc, local>>

-----------------------------------------------------------------------------
(* State of the processes.                                                 *)

Ops == {"none", "define", "undefine", "purge", "boot"}

DefineSteps == {"define", "wrMount", "wrAutomount", "wrCred", "reload"}

ArmSteps == {"armInspect", "armTrust", "armCred", "armWalk", "armStart",
             "armRecheck", "armFailId", "armId", "armRecord",
             "compCheck", "compStop", "compRec", "armFailed"}

CleanupSteps == {"clCred", "clAutomount", "clMount", "clRec", "clReload"}

StopSteps == {"stopInspect", "stopTrust", "stopMount", "stopAutomount"}

RemoveSteps == {"rmCred", "rmMount", "rmAutomount", "rmRec", "rmReload"}

PurgeSteps == {"purge", "purStop", "purRm", "purEtc", "purRun"}

ReplySteps == {"replyOk", "replyFail"}

LockedSteps == DefineSteps \cup ArmSteps \cup CleanupSteps \cup StopSteps
               \cup RemoveSteps \cup PurgeSteps \cup ReplySteps
               \cup {"undefine", "boot", "bootNext"}

Steps == LockedSteps \cup {"idle", "lock"}

Task == [op : Ops, user : Users \cup {None}, unit : Units \cup {None},
         id : Ids \cup {None}, auth : Auths]

NoTask == [op |-> "none", user |-> None, unit |-> None, id |-> None, auth |-> "Guest"]

Managed == [unit : Units, marker : Marker]

\* What statx of a mount point may report.
Reported == MountIds \cup {Enclosing}

Local == [made    : SUBSET {"mount", "automount", "cred"}, \* define's *MayExist flags
          snap    : Snapshot,
          started : Reported \cup {None},   \* startedId
          safe    : BOOLEAN,                \* definitionCleanupSafe
          stopOk  : BOOLEAN,                \* safeStop's mountOk
          plan    : SUBSET Managed,         \* the units enumerated
          todo    : SUBSET Managed,         \* those not processed yet
          logged  : SUBSET Units]           \* units boot reported as left unarmed

NoLocal == [made |-> {}, snap |-> NoSnapshot, started |-> None, safe |-> TRUE,
            stopOk |-> TRUE, plan |-> {}, todo |-> {}, logged |-> {}]

LiveMount == [id : MountIds \cup {None}, source : {"none", "ours", "other"}]

NoMount == [id |-> None, source |-> "none"]

TypeOK ==
    /\ mountUnit \in [Units -> UnitFile]
    /\ automountUnit \in [Units -> UnitFile]
    /\ creds \subseteq Ids
    /\ tempSecret \in BOOLEAN
    /\ dirs \subseteq Units
    /\ idRec \in [Units -> Reported \cup {None}]
    /\ loaded \in [Units -> UnitFile]
    /\ autofs \in [Units -> MountIds \cup {None}]
    /\ origin \in [Units -> {"none", "own", "foreign"}]
    /\ live \in [Units -> LiveMount]
    /\ lateStart \subseteq Units
    /\ holder \in Procs \cup {None}
    /\ pc \in [Procs -> Steps]
    /\ task \in [Procs -> Task]
    /\ local \in [Procs -> Local]
    /\ purgeOpen \in BOOLEAN

Init ==
    /\ mountUnit \in [Units -> InitFiles]
    /\ automountUnit \in [Units -> InitFiles]
    /\ creds = {}
    /\ tempSecret = FALSE
    /\ dirs = {}
    /\ idRec = [u \in Units |-> None]
    /\ loaded = [u \in Units |-> None]
    /\ autofs = [u \in Units |-> None]
    /\ origin = [u \in Units |-> "none"]
    /\ live = [u \in Units |-> NoMount]
    /\ lateStart = {}
    /\ holder = None
    /\ pc = [p \in Procs |-> "idle"]
    /\ task = [p \in Procs |-> NoTask]
    /\ local = [p \in Procs |-> NoLocal]
    /\ purgeOpen = FALSE

Go(p, step) == pc' = [pc EXCEPT ![p] = step]

IOFault == "io" \in Faults

UnitOf(p) == task[p].unit

MarkerOf(p) == [owner |-> task[p].user, id |-> task[p].id, auth |-> task[p].auth]

-----------------------------------------------------------------------------
(* PID 1 and the kernel, as the code uses them.                            *)

\* Kernel mount ids are never reused; an id nothing refers to any more is as
\* good as a new one.
FreshMountIds ==
    MountIds \ (UNION {{autofs[u], live[u].id, idRec[u]} : u \in Units}
                \cup {local[p].started : p \in Procs})

\* A trigger needs both halves: systemd refuses an automount without its mount.
DiskUnit(u) ==
    IF mountUnit[u] # None /\ automountUnit[u] # None THEN mountUnit[u] ELSE None

CanStart(u) == live[u].id = None /\ (loaded[u] # None \/ DiskUnit(u) # None)

\* systemctl start <unit>.automount; already active is success.
StartTrigger(u, who) ==
    IF autofs[u] # None
    THEN UNCHANGED <<autofs, origin, loaded>>
    ELSE /\ CanStart(u)
         /\ \E i \in FreshMountIds : autofs' = [autofs EXCEPT ![u] = i]
         /\ origin' = [origin EXCEPT ![u] = who]
         /\ loaded' = [loaded EXCEPT ![u] = IF @ = None THEN DiskUnit(u) ELSE @]

\* systemctl stop <unit>.automount; systemd detaches whatever lies on top of
\* the trigger with it, and cancels a start job.
StopTrigger(u) ==
    /\ autofs' = [autofs EXCEPT ![u] = None]
    /\ origin' = [origin EXCEPT ![u] = "none"]
    /\ live' = [live EXCEPT ![u] = IF autofs[u] # None THEN NoMount ELSE @]
    /\ lateStart' = lateStart \ {u}

\* systemctl daemon-reload: units without files stay only while active; the
\* start job of a unit that vanished goes with it.
DaemonReload ==
    /\ loaded' = [u \in Units |->
                    IF DiskUnit(u) # None THEN DiskUnit(u)
                    ELSE IF autofs[u] # None THEN loaded[u] ELSE None]
    /\ lateStart' = {u \in lateStart : DiskUnit(u) # None}

\* uniqueMountId(path): statx with AT_NO_AUTOMOUNT reports the topmost mount, or
\* where nothing is mounted the file system the directory is in, if there is one.
uniqueMountId(u) ==
    IF live[u].id # None THEN live[u].id
    ELSE IF autofs[u] # None THEN autofs[u]
    ELSE IF u \in dirs THEN Enclosing ELSE None

\* The mountinfo entries at the unit's path.
MountStack(u) ==
    (IF autofs[u] = None THEN {}
     ELSE {[id |-> autofs[u], parent |-> None, fs |-> "autofs", source |-> "none"]})
    \cup
    (IF live[u].id = None THEN {}
     ELSE {[id |-> live[u].id, parent |-> autofs[u], fs |-> "cifs",
            source |-> live[u].source]})

\* inspectRuntime up to the trust read: what a look at the unit may report.
\* A failed query, or mountinfo and PID 1 disagreeing, is Indeterminate.
runtimeViews(u, expectedWhat) ==
    LET seen == classifyMountEntries(MountStack(u), expectedWhat)
        act == IF autofs[u] # None THEN "Active" ELSE "Inactive"
        Mounts == {seen} \cup
                  (IF IOFault THEN {[mount |-> "Indeterminate",
                                     verification |-> "Indeterminate"]} ELSE {})
    IN  {[mount |-> m.mount, verification |-> m.verification,
          automount |-> a, trust |-> "Untrusted"] :
            m \in Mounts, a \in {act} \cup (IF IOFault THEN {"Indeterminate"} ELSE {})}

\* The trust half of inspectRuntime, read after the rest.
WithTrust(snap, u) ==
    [snap EXCEPT !.trust =
        IF /\ snap.automount = "Active"
           /\ idRec[u] # None
           /\ idRec[u] = uniqueMountId(u)
        THEN "Trusted" ELSE "Untrusted"]

-----------------------------------------------------------------------------
(* Requests, the root lock and replies.                                    *)

CallDefine(p, usr, u, a) ==
    /\ pc[p] = "idle"
    /\ Go(p, "lock")
    /\ task' = [task EXCEPT ![p] = [op |-> "define", user |-> usr, unit |-> u,
                                    id |-> None, auth |-> a]]
    /\ UNCHANGED <<disk, idRec, kernel, holder, local, purgeOpen>>

CallUndefine(p, usr, u) ==
    /\ pc[p] = "idle"
    /\ Go(p, "lock")
    /\ task' = [task EXCEPT ![p] = [NoTask EXCEPT !.op = "undefine", !.user = usr,
                                                  !.unit = u]]
    /\ UNCHANGED <<disk, idRec, kernel, holder, local, purgeOpen>>

CallPurge(p, usr) ==
    /\ pc[p] = "idle"
    /\ Go(p, "lock")
    /\ task' = [task EXCEPT ![p] = [NoTask EXCEPT !.op = "purge", !.user = usr]]
    /\ UNCHANGED <<disk, idRec, kernel, holder, local, purgeOpen>>

\* nasmount-boot.service starts at boot, or again by hand.
BootStart ==
    /\ pc[Boot] = "idle"
    /\ Go(Boot, "lock")
    /\ task' = [task EXCEPT ![Boot] = [NoTask EXCEPT !.op = "boot"]]
    /\ UNCHANGED <<disk, idRec, kernel, holder, local, purgeOpen>>

Forget(p) ==
    /\ task' = [task EXCEPT ![p] = NoTask]
    /\ local' = [local EXCEPT ![p] = NoLocal]

\* Mutant of AcquireLock: the lock is shared.
AcquireLockShared(p) ==
    /\ pc[p] = "lock"
    /\ holder' = p
    /\ Go(p, task[p].op)
    /\ UNCHANGED <<disk, idRec, kernel, task, local, purgeOpen>>

AcquireLock(p) ==
    /\ pc[p] = "lock"
    /\ holder = None
    /\ holder' = p
    /\ Go(p, task[p].op)
    /\ UNCHANGED <<disk, idRec, kernel, task, local, purgeOpen>>

LockUnavailable(p) ==
    /\ pc[p] = "lock"
    /\ IOFault
    /\ Go(p, "idle")
    /\ Forget(p)
    /\ UNCHANGED <<disk, idRec, kernel, holder, purgeOpen>>

\* Mutant of Reply: the lock outlives the call.
ReplyKeepsLock(p) ==
    /\ pc[p] \in ReplySteps
    /\ Go(p, "idle")
    /\ Forget(p)
    /\ UNCHANGED <<disk, idRec, kernel, holder, purgeOpen>>

\* The reply is sent and the lock's destructor runs.
Reply(p) ==
    /\ pc[p] \in ReplySteps
    /\ holder' = None
    /\ Go(p, "idle")
    /\ Forget(p)
    /\ UNCHANGED <<disk, idRec, kernel, purgeOpen>>

-----------------------------------------------------------------------------
(* definesystem.                                                           *)

\* Mutant of IdsInUse: only credential files are searched.
IdsWithCredential == creds

\* Every id a marker or a credential file claims, whoever owns it.
IdsInUse ==
    creds \cup {f.id : f \in Marker \cap {mountUnit[u] : u \in Units}}
          \cup {f.id : f \in Marker \cap {automountUnit[u] : u \in Units}}

\* Any check of the caller's input may refuse; the walk that ends the checks
\* may have created the directory before it does.
DefineRefuse(p) ==
    /\ pc[p] = "define"
    /\ dirs' \in {dirs, dirs \cup {UnitOf(p)}}
    /\ Go(p, "replyFail")
    /\ UNCHANGED <<mountUnit, automountUnit, creds, tempSecret, idRec, kernel, control, local>>

\* Mutant of DefineCheck: whatever is on disk is overwritten.
DefineCheckOverwrites(p) ==
    /\ pc[p] = "define"
    /\ dirs' = dirs \cup {UnitOf(p)}
    /\ \E i \in Ids \ IdsInUse : task' = [task EXCEPT ![p].id = i]
    /\ Go(p, "wrMount")
    /\ UNCHANGED <<mountUnit, automountUnit, creds, tempSecret, idRec, kernel,
                   holder, local, purgeOpen>>

\* Mutant of DefineCheck: the units are built before the id is drawn.
DefineCheckNoId(p) ==
    /\ pc[p] = "define"
    /\ inspectDefinition(mountUnit[UnitOf(p)], automountUnit[UnitOf(p)], task[p].user) = "None"
    /\ dirs' = dirs \cup {UnitOf(p)}
    /\ Go(p, "wrMount")
    /\ UNCHANGED <<mountUnit, automountUnit, creds, tempSecret, idRec, kernel, control, local>>

DefineCheck(p) ==
    LET u == UnitOf(p) IN
    /\ pc[p] = "define"
    /\ inspectDefinition(mountUnit[u], automountUnit[u], task[p].user) = "None"
    /\ dirs' = dirs \cup {u}
    /\ \E i \in Ids \ IdsInUse : task' = [task EXCEPT ![p].id = i]
    /\ Go(p, "wrMount")
    /\ UNCHANGED <<mountUnit, automountUnit, creds, tempSecret, idRec, kernel,
                   holder, local, purgeOpen>>

\* durableReplace: a failure leaves the old file, or the new one when only the
\* directory's fsync failed.
WriteMountUnit(p) ==
    LET u == UnitOf(p)
        written == [mountUnit EXCEPT ![u] = MarkerOf(p)]
    IN
    /\ pc[p] = "wrMount"
    /\ local' = [local EXCEPT ![p].made = @ \cup {"mount"}]
    /\ \/ mountUnit' = written /\ Go(p, "wrAutomount")
       \/ IOFault /\ mountUnit' \in {mountUnit, written} /\ Go(p, "clCred")
    /\ UNCHANGED <<automountUnit, creds, tempSecret, dirs, idRec, kernel, control>>

WriteAutomountUnit(p) ==
    LET u == UnitOf(p)
        written == [automountUnit EXCEPT ![u] = MarkerOf(p)]
    IN
    /\ pc[p] = "wrAutomount"
    /\ local' = [local EXCEPT ![p].made = @ \cup {"automount"}]
    /\ \/ automountUnit' = written /\ Go(p, "wrCred")
       \/ IOFault /\ automountUnit' \in {automountUnit, written} /\ Go(p, "clCred")
    /\ UNCHANGED <<mountUnit, creds, tempSecret, dirs, idRec, kernel, control>>

\* A failed write unlinks its temporary file without looking at the result.
WriteCredential(p) ==
    LET written == creds \cup {task[p].id} IN
    /\ pc[p] = "wrCred"
    /\ task[p].auth = "Credentials"
    /\ local' = [local EXCEPT ![p].made = @ \cup {"cred"}]
    /\ \/ creds' = written /\ UNCHANGED tempSecret /\ Go(p, "reload")
       \/ IOFault /\ creds' = written /\ UNCHANGED tempSecret /\ Go(p, "clCred")
       \/ IOFault /\ UNCHANGED creds /\ tempSecret' \in {tempSecret, TRUE} /\ Go(p, "clCred")
    /\ UNCHANGED <<mountUnit, automountUnit, dirs, idRec, kernel, control>>

\* A guest share must have no credential file.
AssertNoCredential(p) ==
    /\ pc[p] = "wrCred"
    /\ task[p].auth = "Guest"
    /\ \/ task[p].id \notin creds /\ Go(p, "reload")
       \/ (IOFault \/ task[p].id \in creds) /\ Go(p, "clCred")
    /\ UNCHANGED <<disk, idRec, kernel, control, local>>

DefineReload(p) ==
    /\ pc[p] = "reload"
    /\ \/ DaemonReload /\ Go(p, "armInspect")
       \/ /\ IOFault
          /\ DaemonReload \/ UNCHANGED <<loaded, lateStart>>
          /\ Go(p, "clCred")
    /\ UNCHANGED <<disk, idRec, autofs, origin, live, control, local>>

-----------------------------------------------------------------------------
(* The cleanup lambda of define: credential first, then the units, so that *)
(* a secret that cannot be removed stays indexed by its definition.        *)

\* Mutant of CleanupCredential: the units go even if the secret did not.
CleanupCredentialCarriesOn(p) ==
    /\ pc[p] = "clCred"
    /\ creds' \in {creds \ {task[p].id}} \cup (IF IOFault THEN {creds} ELSE {})
    /\ Go(p, "clAutomount")
    /\ UNCHANGED <<mountUnit, automountUnit, tempSecret, dirs, idRec, kernel, control, local>>

CleanupCredential(p) ==
    LET removed == creds \ {task[p].id} IN
    /\ pc[p] = "clCred"
    /\ \/ "cred" \notin local[p].made /\ Go(p, "clAutomount") /\ UNCHANGED <<creds, local>>
       \/ "cred" \in local[p].made /\ creds' = removed /\ Go(p, "clAutomount")
          /\ UNCHANGED local
       \/ /\ "cred" \in local[p].made /\ IOFault
          /\ creds' \in {creds, removed}
          /\ local' = [local EXCEPT ![p].made = {}]     \* mayRemoveUnits = false
          /\ Go(p, "clRec")
    /\ UNCHANGED <<mountUnit, automountUnit, tempSecret, dirs, idRec, kernel, control>>

\* Removal of one half carries on whether or not it worked.
CleanupAutomount(p) ==
    LET removed == [automountUnit EXCEPT ![UnitOf(p)] = None] IN
    /\ pc[p] = "clAutomount"
    /\ IF "automount" \in local[p].made
       THEN automountUnit' = removed \/ (IOFault /\ UNCHANGED automountUnit)
       ELSE UNCHANGED automountUnit
    /\ Go(p, "clMount")
    /\ UNCHANGED <<mountUnit, creds, tempSecret, dirs, idRec, kernel, control, local>>

CleanupMount(p) ==
    LET removed == [mountUnit EXCEPT ![UnitOf(p)] = None] IN
    /\ pc[p] = "clMount"
    /\ IF "mount" \in local[p].made
       THEN mountUnit' = removed \/ (IOFault /\ UNCHANGED mountUnit)
       ELSE UNCHANGED mountUnit
    /\ Go(p, "clRec")
    /\ UNCHANGED <<automountUnit, creds, tempSecret, dirs, idRec, kernel, control, local>>

CleanupRecord(p) ==
    /\ pc[p] = "clRec"
    /\ idRec' = [idRec EXCEPT ![UnitOf(p)] = None] \/ (IOFault /\ UNCHANGED idRec)
    /\ Go(p, IF local[p].made = {} THEN "replyFail" ELSE "clReload")
    /\ UNCHANGED <<disk, kernel, control, local>>

CleanupReload(p) ==
    /\ pc[p] = "clReload"
    /\ DaemonReload \/ (IOFault /\ UNCHANGED <<loaded, lateStart>>)
    /\ Go(p, "replyFail")
    /\ UNCHANGED <<disk, idRec, autofs, origin, live, control, local>>

-----------------------------------------------------------------------------
(* armShare.                                                               *)

\* Where an armed (or already armed) share leaves its caller.
ArmSucceeds(p) == Go(p, IF task[p].op = "define" THEN "replyOk" ELSE "bootNext")

ArmInspect(p) ==
    /\ pc[p] = "armInspect"
    /\ \E s \in runtimeViews(UnitOf(p), "ours") : local' = [local EXCEPT ![p].snap = s]
    /\ Go(p, "armTrust")
    /\ UNCHANGED <<disk, idRec, kernel, control>>

ArmTrust(p) ==
    LET verdict == evaluateArmPrecheck(WithTrust(local[p].snap, UnitOf(p))) IN
    /\ pc[p] = "armTrust"
    /\ \/ verdict = "Blocked" /\ Go(p, "armFailed")
       \/ verdict = "AlreadyArmed" /\ ArmSucceeds(p)
       \/ verdict = "ReadyToArm" /\ Go(p, "armCred")
    /\ local' = [local EXCEPT ![p].snap = NoSnapshot]
    /\ UNCHANGED <<disk, idRec, kernel, control>>

CredentialHealthy(p) ==
    IF task[p].auth = "Credentials" THEN task[p].id \in creds ELSE task[p].id \notin creds

ArmCredential(p) ==
    /\ pc[p] = "armCred"
    /\ \/ CredentialHealthy(p) /\ Go(p, "armWalk")
       \/ (IOFault \/ ~CredentialHealthy(p)) /\ Go(p, "armFailed")
    /\ UNCHANGED <<disk, idRec, kernel, control, local>>

\* The walk may create the directory for an Add, never at boot; anything it
\* does not like about the path refuses.
ArmWalk(p) ==
    LET u == UnitOf(p) IN
    /\ pc[p] = "armWalk"
    /\ \/ /\ task[p].op = "define" \/ u \in dirs
          /\ dirs' = dirs \cup {u}
          /\ Go(p, "armStart")
       \/ /\ IOFault \/ u \notin dirs
          /\ UNCHANGED dirs
          /\ Go(p, "armFailed")
    /\ UNCHANGED <<mountUnit, automountUnit, creds, tempSecret, idRec, kernel, control, local>>

ArmStart(p) ==
    LET u == UnitOf(p) IN
    /\ pc[p] = "armStart"
    /\ StartTrigger(u, "own")
    /\ Go(p, "armId")
    /\ UNCHANGED <<disk, idRec, live, lateStart, control, local>>

\* systemctl reports failure: nothing happened, the unit started all the
\* same, or the job is still queued.
ArmStartFails(p) ==
    LET u == UnitOf(p) IN
    /\ pc[p] = "armStart"
    /\ \/ /\ IOFault \/ (autofs[u] = None /\ ~CanStart(u))
          /\ UNCHANGED <<autofs, origin, loaded, lateStart>>
       \/ IOFault /\ StartTrigger(u, "own") /\ UNCHANGED lateStart
       \/ /\ "late" \in Faults
          /\ lateStart' = lateStart \cup {u}
          /\ UNCHANGED <<autofs, origin, loaded>>
    /\ Go(p, "armRecheck")
    /\ UNCHANGED <<disk, idRec, live, control, local>>

\* After a failed start: compensate an automount that appeared, forbid the
\* definition's cleanup unless runtime looks conclusively inactive.
ArmRecheck(p) ==
    /\ pc[p] = "armRecheck"
    /\ \E s \in runtimeViews(UnitOf(p), "ours") :
          IF s.automount = "Active" /\ s.mount = "Absent"
          THEN Go(p, "armFailId") /\ UNCHANGED local
          ELSE /\ Go(p, "armFailed")
               /\ local' = [local EXCEPT ![p].safe =
                                s.automount = "Inactive" /\ s.mount = "Absent"]
    /\ UNCHANGED <<disk, idRec, kernel, control>>

\* The id of what is on top of the path now; a failed statx reads as no id.
startedIds(u) == {uniqueMountId(u)} \cup (IF IOFault THEN {None} ELSE {})

ArmFailId(p) ==
    /\ pc[p] = "armFailId"
    /\ \E i \in startedIds(UnitOf(p)) : local' = [local EXCEPT ![p].started = i]
    /\ Go(p, "compCheck")
    /\ UNCHANGED <<disk, idRec, kernel, control>>

ArmId(p) ==
    /\ pc[p] = "armId"
    /\ \E i \in startedIds(UnitOf(p)) :
          /\ local' = [local EXCEPT ![p].started = i]
          /\ Go(p, IF i = None THEN "compCheck" ELSE "armRecord")
    /\ UNCHANGED <<disk, idRec, kernel, control>>

\* Mutant of ArmRecord: a failed write of the record is not an error.
ArmRecordUnchecked(p) ==
    /\ pc[p] = "armRecord"
    /\ idRec' \in {[idRec EXCEPT ![UnitOf(p)] = local[p].started]}
                  \cup (IF IOFault THEN {idRec} ELSE {})
    /\ local' = [local EXCEPT ![p].started = None]
    /\ ArmSucceeds(p)
    /\ UNCHANGED <<disk, kernel, control>>

ArmRecord(p) ==
    LET written == [idRec EXCEPT ![UnitOf(p)] = local[p].started] IN
    /\ pc[p] = "armRecord"
    /\ \/ /\ idRec' = written
          /\ local' = [local EXCEPT ![p].started = None]
          /\ ArmSucceeds(p)
       \/ IOFault /\ idRec' \in {idRec, written} /\ UNCHANGED local /\ Go(p, "compCheck")
    /\ UNCHANGED <<disk, kernel, control>>

\* stopStartedAutomount: only the very instance this call started.
CompensateCheck(p) ==
    LET i == local[p].started IN
    /\ pc[p] = "compCheck"
    /\ \/ i # None /\ uniqueMountId(UnitOf(p)) = i /\ Go(p, "compStop") /\ UNCHANGED local
       \/ /\ i = None \/ uniqueMountId(UnitOf(p)) # i \/ IOFault
          /\ local' = [local EXCEPT ![p].safe = FALSE]
          /\ Go(p, "armFailed")
    /\ UNCHANGED <<disk, idRec, kernel, control>>

CompensateStop(p) ==
    LET u == UnitOf(p) IN
    /\ pc[p] = "compStop"
    /\ \/ StopTrigger(u) /\ UNCHANGED local /\ Go(p, "compRec")
       \/ /\ IOFault
          /\ StopTrigger(u) \/ UNCHANGED <<autofs, origin, live, lateStart>>
          /\ local' = [local EXCEPT ![p].safe = FALSE]
          /\ Go(p, "armFailed")
    /\ UNCHANGED <<disk, idRec, loaded, control>>

CompensateRecord(p) ==
    /\ pc[p] = "compRec"
    /\ idRec' = [idRec EXCEPT ![UnitOf(p)] = None] \/ (IOFault /\ UNCHANGED idRec)
    /\ Go(p, "armFailed")
    /\ UNCHANGED <<disk, kernel, control, local>>

\* Mutant of ArmFailed: define always cleans up.
ArmFailedAlwaysCleans(p) ==
    /\ pc[p] = "armFailed"
    /\ Go(p, IF task[p].op = "boot" THEN "bootNext" ELSE "clCred")
    /\ local' = [local EXCEPT ![p].started = None, ![p].safe = TRUE,
                              ![p].logged = IF task[p].op = "boot" THEN @ \cup {UnitOf(p)} ELSE @]
    /\ UNCHANGED <<disk, idRec, kernel, control>>

\* Mutant of ArmFailed: boot ends at the first share it cannot arm.
ArmFailedEndsBoot(p) ==
    /\ pc[p] = "armFailed"
    /\ Go(p, CASE task[p].op = "boot" -> "replyOk"
               [] task[p].op = "define" /\ local[p].safe -> "clCred"
               [] OTHER -> "replyFail")
    /\ local' = [local EXCEPT ![p].started = None, ![p].safe = TRUE,
                              ![p].logged = IF task[p].op = "boot" THEN @ \cup {UnitOf(p)} ELSE @]
    /\ UNCHANGED <<disk, idRec, kernel, control>>

\* NeedsAttention: define cleans up when that is safe and otherwise keeps the
\* definition; boot logs the share and goes on.
ArmFailed(p) ==
    /\ pc[p] = "armFailed"
    /\ Go(p, CASE task[p].op = "boot" -> "bootNext"
               [] task[p].op = "define" /\ local[p].safe -> "clCred"
               [] OTHER -> "replyFail")
    /\ local' = [local EXCEPT ![p].started = None, ![p].safe = TRUE,
                              ![p].logged = IF task[p].op = "boot" THEN @ \cup {UnitOf(p)} ELSE @]
    /\ UNCHANGED <<disk, idRec, kernel, control>>

-----------------------------------------------------------------------------
(* safeStop, shared by undefinesystem and purge.                           *)

\* The .mount half's own What=, unknown when that half is missing.
ExpectedWhat(u) == IF mountUnit[u] \in Marker THEN "ours" ELSE "unknown"

StopDone(p) == Go(p, IF task[p].op = "undefine" THEN "rmCred" ELSE "purStop")

StopInspect(p) ==
    /\ pc[p] = "stopInspect"
    /\ \E s \in runtimeViews(UnitOf(p), ExpectedWhat(UnitOf(p))) :
          local' = [local EXCEPT ![p].snap = s]
    /\ Go(p, "stopTrust")
    /\ UNCHANGED <<disk, idRec, kernel, control>>

StopTrust(p) ==
    LET verdict == evaluateStopPrecheck(WithTrust(local[p].snap, UnitOf(p))) IN
    /\ pc[p] = "stopTrust"
    /\ \/ verdict \in {"Indeterminate", "CorrelationMismatch"} /\ Go(p, "replyFail")
       \/ verdict = "AlreadyInactive" /\ StopDone(p)
       \/ verdict = "ShouldStop" /\ Go(p, "stopMount")
    /\ local' = [local EXCEPT ![p].snap = NoSnapshot]
    /\ UNCHANGED <<disk, idRec, kernel, control>>

\* systemctl stop <unit>.mount: the mount on top goes, the trigger stays.
StopMount(p) ==
    LET stopped == [live EXCEPT ![UnitOf(p)] = NoMount] IN
    /\ pc[p] = "stopMount"
    /\ \/ live' = stopped /\ UNCHANGED local
       \/ /\ IOFault
          /\ live' \in {live, stopped}
          /\ local' = [local EXCEPT ![p].stopOk = FALSE]
    /\ Go(p, "stopAutomount")
    /\ UNCHANGED <<disk, idRec, loaded, autofs, origin, lateStart, control>>

\* systemctl stop <unit>.automount, whether or not the first stop worked.  A
\* unit that is neither loaded nor on disk cannot be stopped by name.
StopAutomount(p) ==
    LET u == UnitOf(p) IN
    /\ pc[p] = "stopAutomount"
    /\ \/ /\ loaded[u] # None \/ automountUnit[u] # None
          /\ StopTrigger(u)
          /\ IF local[p].stopOk THEN StopDone(p) ELSE Go(p, "replyFail")
       \/ /\ IOFault \/ (loaded[u] = None /\ automountUnit[u] = None)
          /\ StopTrigger(u) \/ UNCHANGED <<autofs, origin, live, lateStart>>
          /\ Go(p, "replyFail")
    /\ local' = [local EXCEPT ![p].stopOk = TRUE]
    /\ UNCHANGED <<disk, idRec, loaded, control>>

-----------------------------------------------------------------------------
(* undefinesystem, and the removals purge makes for each share.            *)

UndefineCheck(p) ==
    LET u == UnitOf(p)
        def == inspectDefinition(mountUnit[u], automountUnit[u], task[p].user)
    IN
    /\ pc[p] = "undefine"
    /\ \/ /\ def \in {"Pair", "Partial"}
          /\ task' = [task EXCEPT ![p].id = definitionMarker(mountUnit[u], automountUnit[u]).id]
          /\ Go(p, "stopInspect")
       \/ Go(p, "replyFail") /\ UNCHANGED task     \* also any invalid input
    /\ UNCHANGED <<disk, idRec, kernel, holder, local, purgeOpen>>

\* Mutant of AfterRemoval: undefine answers without reloading PID 1.
AfterRemovalNoReload(p, step) ==
    LET undefining == task[p].op = "undefine" IN
    CASE step = "rmCred"      -> IF undefining THEN "rmMount" ELSE "purRm"
      [] step = "rmMount"     -> "rmAutomount"
      [] step = "rmAutomount" -> "rmRec"
      [] step = "rmRec"       -> IF undefining THEN "replyOk" ELSE "rmCred"
      [] step = "rmReload"    -> "purEtc"

\* Mutant of AfterRemoval: the id record is left to the next arming.
AfterRemovalKeepsRecord(p, step) ==
    LET undefining == task[p].op = "undefine" IN
    CASE step = "rmCred"      -> IF undefining THEN "rmMount" ELSE "purRm"
      [] step = "rmMount"     -> "rmAutomount"
      [] step = "rmAutomount" -> IF undefining THEN "rmReload" ELSE "rmRec"
      [] step = "rmRec"       -> "rmCred"
      [] step = "rmReload"    -> IF undefining THEN "replyOk" ELSE "purEtc"

\* undefine removes the credential before the units, purge after the record.
AfterRemoval(p, step) ==
    LET undefining == task[p].op = "undefine" IN
    CASE step = "rmCred"      -> IF undefining THEN "rmMount" ELSE "purRm"
      [] step = "rmMount"     -> "rmAutomount"
      [] step = "rmAutomount" -> "rmRec"
      [] step = "rmRec"       -> IF undefining THEN "rmReload" ELSE "rmCred"
      [] step = "rmReload"    -> IF undefining THEN "replyOk" ELSE "purEtc"

\* Mutant of RemoveCredential: its failure is ignored.
RemoveCredentialUnchecked(p) ==
    /\ pc[p] = "rmCred"
    /\ creds' \in {creds \ {task[p].id}} \cup (IF IOFault THEN {creds} ELSE {})
    /\ Go(p, AfterRemoval(p, "rmCred"))
    /\ UNCHANGED <<mountUnit, automountUnit, tempSecret, dirs, idRec, kernel, control, local>>

RemoveCredential(p) ==
    LET removed == creds \ {task[p].id} IN
    /\ pc[p] = "rmCred"
    /\ \/ creds' = removed /\ Go(p, AfterRemoval(p, "rmCred"))
       \/ IOFault /\ creds' \in {creds, removed} /\ Go(p, "replyFail")
    /\ UNCHANGED <<mountUnit, automountUnit, tempSecret, dirs, idRec, kernel, control, local>>

RemoveMountUnit(p) ==
    LET removed == [mountUnit EXCEPT ![UnitOf(p)] = None] IN
    /\ pc[p] = "rmMount"
    /\ \/ mountUnit' = removed /\ Go(p, AfterRemoval(p, "rmMount"))
       \/ IOFault /\ mountUnit' \in {mountUnit, removed} /\ Go(p, "replyFail")
    /\ UNCHANGED <<automountUnit, creds, tempSecret, dirs, idRec, kernel, control, local>>

RemoveAutomountUnit(p) ==
    LET removed == [automountUnit EXCEPT ![UnitOf(p)] = None] IN
    /\ pc[p] = "rmAutomount"
    /\ \/ automountUnit' = removed /\ Go(p, AfterRemoval(p, "rmAutomount"))
       \/ IOFault /\ automountUnit' \in {automountUnit, removed} /\ Go(p, "replyFail")
    /\ UNCHANGED <<mountUnit, creds, tempSecret, dirs, idRec, kernel, control, local>>

RemoveRecord(p) ==
    LET removed == [idRec EXCEPT ![UnitOf(p)] = None] IN
    /\ pc[p] = "rmRec"
    /\ \/ idRec' = removed /\ Go(p, AfterRemoval(p, "rmRec"))
       \/ IOFault /\ idRec' \in {idRec, removed} /\ Go(p, "replyFail")
    /\ UNCHANGED <<disk, kernel, control, local>>

RemoveReload(p) ==
    /\ pc[p] = "rmReload"
    /\ \/ DaemonReload /\ Go(p, AfterRemoval(p, "rmReload"))
       \/ /\ IOFault
          /\ DaemonReload \/ UNCHANGED <<loaded, lateStart>>
          /\ Go(p, "replyFail")
    /\ UNCHANGED <<disk, idRec, autofs, origin, live, control, local>>

-----------------------------------------------------------------------------
(* purge.                                                                  *)

\* Every managed unit must be a valid definition of the caller's, and no file
\* may look managed without being one.
PurgeAllowed(usr) ==
    /\ \A m \in enumerateManagedUnits(mountUnit, automountUnit) :
          /\ m.state \in {"Pair", "Partial"}
          /\ m.marker.owner = usr
          /\ inspectDefinition(mountUnit[m.unit], automountUnit[m.unit], usr) \in {"Pair", "Partial"}
    /\ \A u \in Units : Altered \notin {mountUnit[u], automountUnit[u]}

PurgeCheck(p) ==
    LET plan == {[unit |-> m.unit, marker |-> m.marker] :
                    m \in enumerateManagedUnits(mountUnit, automountUnit)}
    IN
    /\ pc[p] = "purge"
    /\ IF PurgeAllowed(task[p].user)
       THEN /\ local' = [local EXCEPT ![p].plan = plan, ![p].todo = plan]
            /\ Go(p, "purStop")
       ELSE UNCHANGED local /\ Go(p, "replyFail")
    /\ UNCHANGED <<disk, idRec, kernel, control>>

\* Take the next share of the list as the one worked on.
Take(p, m) ==
    /\ local' = [local EXCEPT ![p].todo = @ \ {m}]
    /\ task' = [task EXCEPT ![p].unit = m.unit, ![p].id = m.marker.id]

\* Mutant of PurgeStopNext: the list is not rewound for the removals.
PurgeStopNextNoRewind(p) ==
    /\ pc[p] = "purStop"
    /\ \/ \E m \in local[p].todo :
             /\ Take(p, m)
             /\ Go(p, "stopInspect")
             /\ UNCHANGED purgeOpen
       \/ /\ local[p].todo = {}
          /\ purgeOpen' = TRUE
          /\ Go(p, "purRm")
          /\ UNCHANGED <<task, local>>
    /\ UNCHANGED <<disk, idRec, kernel, holder>>

\* Every share is stopped before anything is deleted.
PurgeStopNext(p) ==
    /\ pc[p] = "purStop"
    /\ \/ \E m \in local[p].todo :
             /\ Take(p, m)
             /\ Go(p, "stopInspect")
             /\ UNCHANGED purgeOpen
       \/ /\ local[p].todo = {}
          /\ local' = [local EXCEPT ![p].todo = local[p].plan]
          /\ purgeOpen' = TRUE
          /\ Go(p, "purRm")
          /\ UNCHANGED task
    /\ UNCHANGED <<disk, idRec, kernel, holder>>

PurgeRemoveNext(p) ==
    /\ pc[p] = "purRm"
    /\ \/ \E m \in local[p].todo : Take(p, m) /\ Go(p, "rmMount")
       \/ local[p].todo = {} /\ Go(p, "rmReload") /\ UNCHANGED <<local, task>>
    /\ UNCHANGED <<disk, idRec, kernel, holder, purgeOpen>>

\* Mutant of PurgeCredentialTree: only the <id>.cred files are removed.
PurgeCredentialFiles(p) ==
    /\ pc[p] = "purEtc"
    /\ creds' = {}
    /\ purgeOpen' = FALSE
    /\ Go(p, "purRun")
    /\ UNCHANGED <<mountUnit, automountUnit, tempSecret, dirs, idRec, kernel, holder, task, local>>

\* durableRemoveTree on /etc/nasmount takes every entry, leftovers included,
\* and may stop halfway.
PurgeCredentialTree(p) ==
    /\ pc[p] = "purEtc"
    /\ \/ /\ creds' = {} /\ tempSecret' = FALSE
          /\ purgeOpen' = FALSE
          /\ Go(p, "purRun")
       \/ /\ IOFault
          /\ creds' \in SUBSET creds /\ tempSecret' \in {tempSecret, FALSE}
          /\ UNCHANGED purgeOpen
          /\ Go(p, "replyFail")
    /\ UNCHANGED <<mountUnit, automountUnit, dirs, idRec, kernel, holder, task, local>>

\* /run/nasmount-ids and then the lock's own directory (module RootLock).
PurgeRunTrees(p) ==
    /\ pc[p] = "purRun"
    /\ \/ idRec' = [u \in Units |-> None] /\ Go(p, "replyOk")
       \/ /\ IOFault
          /\ \E S \in SUBSET Units : idRec' = [u \in Units |-> IF u \in S THEN None ELSE idRec[u]]
          /\ Go(p, "replyFail")
    /\ UNCHANGED <<disk, kernel, control, local>>

-----------------------------------------------------------------------------
(* nasmount-boot.                                                          *)

BootEnumerate(p) ==
    LET found == enumerateManagedUnits(mountUnit, automountUnit)
        pairs == {[unit |-> m.unit, marker |-> m.marker] : m \in {x \in found : x.state = "Pair"}}
    IN
    /\ pc[p] = "boot"
    /\ local' = [local EXCEPT ![p].todo = pairs,
                              ![p].logged = {m.unit : m \in {x \in found : x.state # "Pair"}}]
    /\ Go(p, "bootNext")
    /\ UNCHANGED <<disk, idRec, kernel, control>>

BootNext(p) ==
    /\ pc[p] = "bootNext"
    /\ \/ \E m \in local[p].todo :
             /\ inspectDefinition(mountUnit[m.unit], automountUnit[m.unit], m.marker.owner) = "Pair"
             /\ task' = [task EXCEPT ![p] = [op |-> "boot", user |-> m.marker.owner,
                                             unit |-> m.unit, id |-> m.marker.id,
                                             auth |-> m.marker.auth]]
             /\ local' = [local EXCEPT ![p].todo = @ \ {m}]
             /\ Go(p, "armInspect")
       \* the account is gone, its path no longer validates or the pair does not
       \/ \E m \in local[p].todo :
             /\ local' = [local EXCEPT ![p].todo = @ \ {m}, ![p].logged = @ \cup {m.unit}]
             /\ UNCHANGED <<task, pc>>
       \/ local[p].todo = {} /\ Go(p, "replyOk") /\ UNCHANGED <<task, local>>
    /\ UNCHANGED <<disk, idRec, kernel, holder, purgeOpen>>

-----------------------------------------------------------------------------
(* The environment.                                                        *)

\* In the middle of durableReplace on a credential.
WritesSecret(p) == pc[p] = "wrCred" /\ task[p].auth = "Credentials"

\* A killed process: its lock is released, what it wrote stays; killed while
\* it wrote a credential it may leave the temporary file.
Crash(p) ==
    /\ "crash" \in Faults
    /\ pc[p] # "idle"
    /\ tempSecret' \in {tempSecret, tempSecret \/ WritesSecret(p)}
    /\ holder' = IF holder = p THEN None ELSE holder
    /\ Go(p, "idle")
    /\ Forget(p)
    /\ UNCHANGED <<mountUnit, automountUnit, creds, dirs, idRec, kernel, purgeOpen>>

\* /etc survives, /run and every mount do not; PID 1 loads what is on disk.
Reboot ==
    /\ "reboot" \in Faults
    /\ idRec' = [u \in Units |-> None]
    /\ loaded' = [u \in Units |-> DiskUnit(u)]
    /\ autofs' = [u \in Units |-> None]
    /\ origin' = [u \in Units |-> "none"]
    /\ live' = [u \in Units |-> NoMount]
    /\ lateStart' = {}
    /\ holder' = None
    /\ pc' = [p \in Procs |-> "idle"]
    /\ task' = [p \in Procs |-> NoTask]
    /\ local' = [p \in Procs |-> NoLocal]
    /\ tempSecret' \in {tempSecret, tempSecret \/ \E p \in Procs : WritesSecret(p)}
    /\ UNCHANGED <<mountUnit, automountUnit, creds, dirs, purgeOpen>>

\* Someone walks into the mount point: the kernel has systemd mount the share,
\* which needs its credential file.
AccessPath(u) ==
    /\ "access" \in Faults
    /\ autofs[u] # None
    /\ live[u].id = None
    /\ loaded[u] \in Marker
    /\ loaded[u].auth = "Credentials" => loaded[u].id \in creds
    /\ \E i \in FreshMountIds : live' = [live EXCEPT ![u] = [id |-> i, source |-> "ours"]]
    /\ UNCHANGED <<disk, idRec, loaded, autofs, origin, lateStart, control, pc, local>>

IdleUnmount(u) ==
    /\ "access" \in Faults
    /\ live[u].source = "ours" /\ autofs[u] # None
    /\ live' = [live EXCEPT ![u] = NoMount]
    /\ UNCHANGED <<disk, idRec, loaded, autofs, origin, lateStart, control, pc, local>>

HandStart(u) ==
    /\ "admin" \in Faults
    /\ autofs[u] = None
    /\ StartTrigger(u, "foreign")
    /\ UNCHANGED <<disk, idRec, live, lateStart, control, pc, local>>

HandStop(u) ==
    /\ "admin" \in Faults
    /\ autofs[u] # None
    /\ StopTrigger(u)
    /\ UNCHANGED <<disk, idRec, loaded, control, pc, local>>

HandMount(u) ==
    /\ "admin" \in Faults
    /\ autofs[u] = None /\ live[u].id = None
    /\ \E i \in FreshMountIds, src \in {"ours", "other"} :
          live' = [live EXCEPT ![u] = [id |-> i, source |-> src]]
    /\ UNCHANGED <<disk, idRec, loaded, autofs, origin, lateStart, control, pc, local>>

HandUnmount(u) ==
    /\ "admin" \in Faults
    /\ live[u].id # None
    /\ live' = [live EXCEPT ![u] = NoMount]
    /\ UNCHANGED <<disk, idRec, loaded, autofs, origin, lateStart, control, pc, local>>

\* PID 1 gets to the start job whose systemctl gave up waiting.
LateStart(u) ==
    /\ u \in lateStart
    /\ lateStart' = lateStart \ {u}
    /\ IF autofs[u] # None \/ CanStart(u)
       THEN StartTrigger(u, "own")
       ELSE UNCHANGED <<autofs, origin, loaded>>
    /\ UNCHANGED <<disk, idRec, live, control, pc, local>>

-----------------------------------------------------------------------------
DefineStep(p) ==
    \/ DefineRefuse(p) \/ DefineCheck(p) \/ WriteMountUnit(p) \/ WriteAutomountUnit(p)
    \/ WriteCredential(p) \/ AssertNoCredential(p) \/ DefineReload(p)
    \/ CleanupCredential(p) \/ CleanupAutomount(p) \/ CleanupMount(p)
    \/ CleanupRecord(p) \/ CleanupReload(p)

ArmStep(p) ==
    \/ ArmInspect(p) \/ ArmTrust(p) \/ ArmCredential(p) \/ ArmWalk(p)
    \/ ArmStart(p) \/ ArmStartFails(p) \/ ArmRecheck(p) \/ ArmFailId(p)
    \/ ArmId(p) \/ ArmRecord(p) \/ CompensateCheck(p) \/ CompensateStop(p)
    \/ CompensateRecord(p) \/ ArmFailed(p)

RemoveStep(p) ==
    \/ UndefineCheck(p) \/ StopInspect(p) \/ StopTrust(p) \/ StopMount(p) \/ StopAutomount(p)
    \/ RemoveCredential(p) \/ RemoveMountUnit(p) \/ RemoveAutomountUnit(p)
    \/ RemoveRecord(p) \/ RemoveReload(p)

PurgeStep(p) ==
    \/ PurgeCheck(p) \/ PurgeStopNext(p) \/ PurgeRemoveNext(p)
    \/ PurgeCredentialTree(p) \/ PurgeRunTrees(p)

BootStep(p) == BootEnumerate(p) \/ BootNext(p)

\* A step of the process that holds the lock.
Work(p) ==
    \/ Reply(p)
    \/ DefineStep(p) \/ ArmStep(p) \/ RemoveStep(p) \/ PurgeStep(p) \/ BootStep(p)

Call ==
    \/ \E p \in Helpers, usr \in Users, u \in Units, a \in Requested : CallDefine(p, usr, u, a)
    \/ \E p \in Helpers, usr \in Users, u \in Units : CallUndefine(p, usr, u)
    \/ \E p \in Helpers, usr \in Users : CallPurge(p, usr)
    \/ BootStart

Environment ==
    \/ Reboot
    \/ \E p \in Procs : Crash(p)
    \/ \E u \in Units : \/ AccessPath(u) \/ IdleUnmount(u)
                        \/ HandStart(u) \/ HandStop(u) \/ HandMount(u) \/ HandUnmount(u)
                        \/ LateStart(u)

Next ==
    \/ Call
    \/ \E p \in Procs : AcquireLock(p) \/ LockUnavailable(p) \/ Work(p)
    \/ Environment

Spec == Init /\ [][Next]_vars

\* The code keeps executing a call it has received, and flock wakes waiters in
\* the order they came.  Nobody is obliged to call, crash or access anything.
Fairness ==
    /\ \A p \in Procs : WF_vars(Work(p))
    /\ \A p \in Procs : SF_vars(AcquireLock(p))

FairSpec == Spec /\ Fairness

-----------------------------------------------------------------------------
(* Properties.                                                             *)

HalfClaims(file, i) == file \in Marker /\ file.id = i

\* A credential file is always named by the marker of some unit half on disk,
\* at every point of define, its cleanup and undefine, whatever step fails or
\* is cut short: a secret can be found and removed through its definition.
\* Only a purge that has begun to delete and has not finished is exempt,
\* because purge unlinks a share's units before its credential.
SecretIndexed ==
    \A i \in creds :
        \/ purgeOpen
        \/ \E u \in Units : HalfClaims(mountUnit[u], i) \/ HalfClaims(automountUnit[u], i)

\* The unit holds a complete definition whose credential is as its marker says.
Complete(u) ==
    /\ mountUnit[u] \in Marker
    /\ automountUnit[u] = mountUnit[u]
    /\ mountUnit[u].auth = "Credentials" => mountUnit[u].id \in creds

\* A trigger nasmount itself started is active only over a complete definition
\* with its credential: neither define's cleanup, nor undefine, nor purge ever
\* takes a file from under a running trigger, and boot never starts one for a
\* definition that another call is removing.
TriggerBacked == \A u \in Units : origin[u] = "own" => Complete(u)

\* Two units never carry the same share id, so one share's removal never takes
\* another share's credential.
IdsUnique ==
    \A u, v \in Units : \A i \in Ids :
        /\ HalfClaims(mountUnit[u], i) \/ HalfClaims(automountUnit[u], i)
        /\ HalfClaims(mountUnit[v], i) \/ HalfClaims(automountUnit[v], i)
        => u = v

\* When definesystem reports success the definition is complete, its trigger
\* is running (unless an administrator interfered) and an instance is recorded.
DefineAck ==
    \A p \in Procs : pc[p] = "replyOk" /\ task[p].op = "define" =>
        /\ Complete(UnitOf(p))
        /\ mountUnit[UnitOf(p)] = MarkerOf(p)
        /\ idRec[UnitOf(p)] # None
        /\ "admin" \in Faults \/ origin[UnitOf(p)] = "own"

\* When undefinesystem reports success nothing of the share is left: no file,
\* no credential, no record, no trigger of nasmount's and nothing in PID 1's
\* memory that could be started.
UndefineAck ==
    \A p \in Procs : pc[p] = "replyOk" /\ task[p].op = "undefine" =>
        LET u == UnitOf(p) IN
        /\ mountUnit[u] = None /\ automountUnit[u] = None
        /\ task[p].id \notin creds
        /\ idRec[u] = None
        /\ origin[u] # "own"
        /\ "admin" \in Faults \/ loaded[u] = None

\* When purge reports success no managed file, secret, leftover temporary
\* secret, record or running trigger of nasmount's is left on the machine.
PurgeAck ==
    \A p \in Procs : pc[p] = "replyOk" /\ task[p].op = "purge" =>
        /\ \A u \in Units : /\ {mountUnit[u], automountUnit[u]} \cap Marker = {}
                            /\ idRec[u] = None
                            /\ origin[u] # "own"
        /\ creds = {} /\ ~tempSecret

\* A finished boot pass has left every complete pair with a running trigger of
\* its own or has reported it: one share's failure never costs another its
\* attempt.
BootArmsOrReports ==
    \A p \in Procs : pc[p] = "replyOk" /\ task[p].op = "boot" =>
        \A u \in Units : Complete(u) =>
            autofs[u] # None \/ u \in local[p].logged \/ "admin" \in Faults

\* A unit file that exists is never replaced in place, and one nasmount did
\* not write is never touched: no interleaving of two calls overwrites a
\* definition or removes somebody else's unit.
UnitFilesRespected ==
    [][\A u \in Units :
        /\ mountUnit[u] \in Marker => mountUnit'[u] \in {mountUnit[u], None}
        /\ automountUnit[u] \in Marker => automountUnit'[u] \in {automountUnit[u], None}
        /\ mountUnit[u] \in {Unmarked, Altered} => mountUnit'[u] = mountUnit[u]
        /\ automountUnit[u] \in {Unmarked, Altered} => automountUnit'[u] = automountUnit[u]]_vars

\* A share's files and credential disappear only in a call made by its owner.
OwnerRemoves ==
    [][\A u \in Units :
        /\ mountUnit[u] \in Marker /\ mountUnit'[u] # mountUnit[u]
              => \E p \in Procs : pc[p] \in LockedSteps /\ task[p].user = mountUnit[u].owner
        /\ mountUnit[u] \in Marker /\ mountUnit[u].id \in creds \ creds'
              => \E p \in Procs : pc[p] \in LockedSteps /\ task[p].user = mountUnit[u].owner]_vars

\* Every call returns and gives up the root lock.
CallsReturn == \A p \in Procs : pc[p] # "idle" ~> pc[p] = "idle"

-----------------------------------------------------------------------------
(* The inductive invariant behind SecretIndexed.                           *)

\* The steps that work on one share, chosen by then.
ShareSteps == (DefineSteps \ {"define"}) \cup ArmSteps \cup CleanupSteps
              \cup StopSteps \cup (RemoveSteps \ {"rmReload"})

\* Whoever is past the lock holds it, the request says which steps come, and a
\* step on a share has one.
Control(p) ==
    LET op == task[p].op IN
    /\ pc[p] \in LockedSteps => holder = p
    /\ pc[p] = "lock" => op # "none"
    /\ pc[p] \in DefineSteps \cup CleanupSteps => op = "define"
    /\ pc[p] \in ArmSteps => op \in {"define", "boot"}
    /\ pc[p] \in {"boot", "bootNext"} => op = "boot"
    /\ pc[p] = "undefine" => op = "undefine"
    /\ pc[p] \in StopSteps \cup RemoveSteps => op \in {"undefine", "purge"}
    /\ pc[p] \in PurgeSteps => op = "purge"
    /\ op \in {"define", "undefine", "purge"} => task[p].user \in Users
    /\ op \in {"define", "undefine"} => task[p].unit \in Units
    /\ pc[p] \in ShareSteps => /\ task[p].user \in Users
                               /\ task[p].unit \in Units
                               /\ task[p].id \in Ids

ControlInv == \A p \in Procs : Control(p)

\* What define may rely on: it writes over nothing, what its flags let it
\* remove is its own, and its cleanup takes units only once the secret is gone.
DefineKnows(p) ==
    LET u == UnitOf(p)
        made == local[p].made
    IN
    task[p].op = "define" =>
        /\ pc[p] = "wrMount" => mountUnit[u] = None
        /\ pc[p] \in {"wrMount", "wrAutomount"} => automountUnit[u] = None
        /\ pc[p] \in {"wrAutomount", "wrCred"} => mountUnit[u] = MarkerOf(p)
        /\ pc[p] \in (DefineSteps \ {"define"}) \cup ArmSteps \cup {"clCred", "clAutomount", "clMount"} =>
              /\ "mount" \in made => mountUnit[u] \in {None, MarkerOf(p)}
              /\ "automount" \in made => automountUnit[u] \in {None, MarkerOf(p)}
              /\ "cred" \notin made => task[p].id \notin creds
        /\ pc[p] \in {"clAutomount", "clMount"} => task[p].id \notin creds

\* undefine removes only halves of the one share, after its secret; a purge
\* that deletes has declared so.
RemovalKnows(p) ==
    LET u == UnitOf(p) IN
    /\ task[p].op = "undefine" =>
        /\ pc[p] \in StopSteps \cup {"rmCred", "rmMount", "rmAutomount"} =>
              /\ mountUnit[u] \in Marker => mountUnit[u].id = task[p].id
              /\ automountUnit[u] \in Marker => automountUnit[u].id = task[p].id
        /\ pc[p] \in {"rmMount", "rmAutomount"} => task[p].id \notin creds
    /\ task[p].op = "purge" /\ pc[p] \in RemoveSteps \cup {"purRm", "purEtc"} => purgeOpen

Knows(p) == DefineKnows(p) /\ RemovalKnows(p)

\* At every step a call is right about the files it is about to touch, and the
\* root lock keeps it right until it has touched them.
SecretInv == TypeOK /\ ControlInv /\ (\A p \in Procs : Knows(p)) /\ SecretIndexed
-----------------------------------------------------------------------------
(* The inductive invariant behind the other properties of the unit files.  *)

Halves(u) == {mountUnit[u], automountUnit[u]}

Claimed(u, i) == HalfClaims(mountUnit[u], i) \/ HalfClaims(automountUnit[u], i)

\* define found nothing at its mount point and no use of its id; what it wrote
\* is complete before it is armed.
DefineFiles(p) ==
    LET u == UnitOf(p) IN
    task[p].op = "define" =>
        /\ pc[p] \in (DefineSteps \ {"define"}) \cup ArmSteps \cup CleanupSteps =>
              /\ Halves(u) \subseteq {None, MarkerOf(p)}
              /\ \A v \in Units \ {u} : ~Claimed(v, task[p].id)
        /\ pc[p] = "wrCred" => automountUnit[u] = MarkerOf(p)
        /\ pc[p] \in {"reload", "replyOk"} \cup ArmSteps =>
              Complete(u) /\ mountUnit[u] = MarkerOf(p)
        /\ pc[p] = "armRecord" => local[p].started # None
        /\ pc[p] = "replyOk" => idRec[u] # None

\* boot arms the pairs it enumerated, after a look at the credential.
BootFiles(p) ==
    LET u == UnitOf(p) IN
    task[p].op = "boot" =>
        /\ pc[p] \in {"bootNext"} \cup ArmSteps =>
              \A m \in local[p].todo : Halves(m.unit) = {m.marker}
        /\ pc[p] \in ArmSteps => Halves(u) = {MarkerOf(p)}
        /\ pc[p] \in {"armWalk", "armStart"} => Complete(u)

\* What undefine removes is one share of the caller's, in this order.
UndefineFiles(p) ==
    LET u == UnitOf(p) IN
    task[p].op = "undefine" =>
        /\ pc[p] \in StopSteps \cup {"rmCred", "rmMount", "rmAutomount"} =>
              \A f \in Halves(u) \ {None} :
                  f \in Marker /\ f.owner = task[p].user /\ f.id = task[p].id
        /\ pc[p] \in StopSteps \cup {"rmCred"} => Claimed(u, task[p].id)
        /\ pc[p] \in (RemoveSteps \ {"rmCred"}) \cup {"replyOk"} => task[p].id \notin creds
        /\ pc[p] \in {"rmAutomount", "rmRec", "rmReload", "replyOk"} => mountUnit[u] = None
        /\ pc[p] \in {"rmRec", "rmReload", "replyOk"} => automountUnit[u] = None
        /\ pc[p] \in {"rmReload", "replyOk"} => idRec[u] = None

\* purge's plan names every managed unit, all of them the caller's, and its
\* second loop leaves nothing of those it has taken.
PurgeFiles(p) ==
    LET u == UnitOf(p)
        plan == local[p].plan
        todo == local[p].todo
    IN
    task[p].op = "purge" =>
        /\ pc[p] \in (PurgeSteps \ {"purge"}) \cup StopSteps \cup RemoveSteps \cup {"replyOk"} =>
              /\ \A v \in Units : \A f \in Halves(v) \cap Marker :
                     f.owner = task[p].user /\ (\E m \in plan : m.unit = v)
              /\ \A m \in plan : Halves(m.unit) \subseteq {None, m.marker}
              /\ todo \subseteq plan
        /\ pc[p] \in ShareSteps => \E m \in plan : m.unit = u
        /\ pc[p] = "rmAutomount" => mountUnit[u] = None
        /\ pc[p] \in {"purRm"} \cup (RemoveSteps \ {"rmReload"}) =>
              \A m \in plan \ todo :
                  \/ Halves(m.unit) = {None}
                  \/ m.unit = u /\ pc[p] \in {"rmMount", "rmAutomount"}
        /\ pc[p] \in {"rmReload", "purEtc", "purRun", "replyOk"} =>
              \A v \in Units : Halves(v) \cap Marker = {}
        /\ pc[p] \in {"purRun", "replyOk"} => creds = {} /\ ~tempSecret
        /\ pc[p] = "replyOk" => \A v \in Units : idRec[v] = None

FilesKnown(p) == DefineFiles(p) /\ BootFiles(p) /\ UndefineFiles(p) /\ PurgeFiles(p)

FilesInv == SecretInv /\ IdsUnique /\ \A p \in Procs : FilesKnown(p)

-----------------------------------------------------------------------------
(* The inductive invariant behind the properties of the triggers.          *)

ByHand == "admin" \in Faults

KernelInv ==
    \A u \in Units : /\ autofs[u] = None <=> origin[u] = "none"
                     /\ origin[u] = "foreign" => ByHand

\* What armShare has read and started, and which shares boot still owes.
ArmKnows(p) ==
    LET u == UnitOf(p) IN
    /\ pc[p] = "armTrust" /\ local[p].snap.automount = "Active" => autofs[u] # None \/ ByHand
    /\ pc[p] \in {"armId", "armRecord"} => autofs[u] # None \/ ByHand
    /\ task[p].op = "boot" /\ pc[p] \in {"bootNext", "replyOk"} \cup ArmSteps =>
          \A v \in Units : Complete(v) =>
              \/ autofs[v] # None \/ ByHand
              \/ v \in local[p].logged
              \/ pc[p] # "replyOk" /\ \E m \in local[p].todo : m.unit = v
              \/ pc[p] \in ArmSteps /\ v = u

\* No trigger of nasmount's runs at a mount point that is being defined, until
\* the start, or once its definition may be cleaned up.
DefineTriggers(p) ==
    LET u == UnitOf(p) IN
    task[p].op = "define" =>
        /\ pc[p] \in (DefineSteps \ {"define"}) \cup CleanupSteps
                      \cup {"armInspect", "armTrust", "armCred", "armWalk", "armStart", "compRec"} =>
              origin[u] # "own"
        /\ pc[p] = "armFailed" /\ local[p].safe => origin[u] # "own"
        /\ pc[p] = "replyOk" => origin[u] = "own" \/ ByHand

\* None runs over a share from the moment safeStop said so.
RemovalTriggers(p) ==
    LET u == UnitOf(p)
        plan == local[p].plan
        todo == local[p].todo
    IN
    /\ pc[p] = "stopTrust" /\ local[p].snap.automount = "Inactive" => origin[u] # "own"
    /\ task[p].op = "undefine" =>
          /\ pc[p] \in RemoveSteps \cup {"replyOk"} => origin[u] # "own"
          /\ pc[p] = "replyOk" => loaded[u] = None \/ ByHand
    /\ task[p].op = "purge" =>
          /\ pc[p] \in StopSteps \cup {"purStop"} =>
                \A m \in plan \ todo :
                    origin[m.unit] # "own" \/ (pc[p] \in StopSteps /\ m.unit = u)
          /\ pc[p] \in RemoveSteps \cup {"purRm", "purEtc", "purRun", "replyOk"} =>
                \A v \in Units : origin[v] # "own"

NoLateStart ==
    /\ lateStart = {}
    /\ TriggerBacked
    /\ \A p \in Procs : DefineTriggers(p) /\ RemovalTriggers(p)

TriggerInv ==
    /\ FilesInv /\ KernelInv
    /\ \A p \in Procs : ArmKnows(p)
    /\ "late" \notin Faults => NoLateStart
=============================================================================
