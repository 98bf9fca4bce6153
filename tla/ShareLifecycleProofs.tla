------------------------- MODULE ShareLifecycleProofs -------------------------
(***************************************************************************)
(* What the privileged operations keep for any number of users, shares,    *)
(* mount points and helpers, and any selection of faults.                  *)
(***************************************************************************)
EXTENDS ShareLifecycle, TLAPS

-----------------------------------------------------------------------------
(* What the verdicts of inspectDefinition say about the two files.         *)

\* One half is valid for a user exactly when it carries a marker of that user's.
LEMMA SideVerdicts ==
    ASSUME NEW f \in UnitFile, NEW usr
    PROVE  /\ SideState(f, usr) \in {"NotPresent", "NoMarker", "Broken", "Valid"}
           /\ SideState(f, usr) = "NotPresent" <=> f = None
           /\ SideState(f, usr) = "Valid" <=> f \in Marker /\ f.owner = usr
    BY SentinelsDistinct DEF SideState, UnitFile

\* inspectDefinition accepts as None, Pair or Partial only absent halves and
\* the caller's own, and two halves only with one marker.
LEMMA Inspected ==
    ASSUME NEW m \in UnitFile, NEW a \in UnitFile, NEW usr
    PROVE  /\ inspectDefinition(m, a, usr) = "None" => m = None /\ a = None
           /\ inspectDefinition(m, a, usr) \in {"Pair", "Partial"} =>
                 /\ definitionMarker(m, a) \in Marker
                 /\ m \in {None, definitionMarker(m, a)}
                 /\ a \in {None, definitionMarker(m, a)}
                 /\ definitionMarker(m, a).owner = usr
<1> DEFINE sm == SideState(m, usr)
           sa == SideState(a, usr)
<1>1. /\ sm \in {"NotPresent", "NoMarker", "Broken", "Valid"}
      /\ sa \in {"NotPresent", "NoMarker", "Broken", "Valid"}
      /\ sm = "NotPresent" <=> m = None
      /\ sa = "NotPresent" <=> a = None
      /\ sm = "Valid" <=> m \in Marker /\ m.owner = usr
      /\ sa = "Valid" <=> a \in Marker /\ a.owner = usr
    BY SideVerdicts
<1>2. /\ inspectDefinition(m, a, usr) = "None" => sm = "NotPresent" /\ sa = "NotPresent"
      /\ inspectDefinition(m, a, usr) = "Pair" => sm = "Valid" /\ sa = "Valid" /\ m = a
      /\ inspectDefinition(m, a, usr) = "Partial" =>
            {sm, sa} = {"Valid", "NotPresent"}
  <2> HIDE DEF sm, sa
  <2>1. inspectDefinition(m, a, usr) =
          IF "Broken" \in {sm, sa} THEN "Tampered"
          ELSE IF "NoMarker" \in {sm, sa} THEN "NotOurs"
          ELSE IF {sm, sa} = {"NotPresent"} THEN "None"
          ELSE IF {sm, sa} = {"Valid"} THEN IF m = a THEN "Pair" ELSE "Tampered"
          ELSE "Partial"
      BY DEF inspectDefinition, sm, sa
  <2> QED
      BY <2>1, <1>1
<1> HIDE DEF sm, sa
<1>3. None \notin Marker
    BY SentinelsDistinct
<1> QED
    BY <1>1, <1>2, <1>3 DEF definitionMarker

-----------------------------------------------------------------------------
(* Types.                                                                  *)

\* The records the processes start from and return to are well typed.
LEMMA BlankTypes ==
    /\ NoTask \in Task
    /\ NoLocal \in Local
    /\ NoMount \in LiveMount
    /\ NoSnapshot \in Snapshot
<1>1. NoSnapshot \in Snapshot
    BY DEF NoSnapshot, Snapshot
<1>2. NoLocal \in Local
    BY <1>1 DEF NoLocal, Local
<1> QED
    BY <1>1, <1>2 DEF NoTask, Task, Ops, Auths, NoMount, LiveMount

\* A request's name is the step its locked part begins with.
LEMMA StepKinds ==
    /\ LockedSteps \subseteq Steps
    /\ Ops \ {"none"} \subseteq LockedSteps
    /\ {"idle", "lock"} \subseteq Steps
    BY DEF Steps, LockedSteps, Ops, DefineSteps, PurgeSteps

\* Every marker is a unit file, and its fields have their types.
LEMMA MarkerTypes ==
    /\ Marker \subseteq UnitFile
    /\ None \in UnitFile
    /\ \A m \in Marker : m.owner \in Users /\ m.id \in Ids /\ m.auth \in Auths
    BY DEF UnitFile, Marker

\* The initial state is well typed: no process is at work and nothing of this
\* tool is on disk yet.
LEMMA InitType == Init => TypeOK
<1> SUFFICES ASSUME Init PROVE TypeOK
    OBVIOUS
<1>1. InitFiles \subseteq UnitFile
    BY LifecycleAssumption DEF UnitFile
<1> QED
    BY <1>1, BlankTypes, StepKinds, MarkerTypes DEF Init, TypeOK

\* A helper call or a boot pass that arrives keeps the types.
LEMMA CallType ==
    ASSUME TypeOK, Call PROVE TypeOK'
<1> USE StepKinds, BlankTypes DEF TypeOK, Procs, disk, kernel, Go
<1>1. ASSUME NEW p \in Helpers, NEW usr \in Users, NEW u \in Units, NEW a \in Requested,
             CallDefine(p, usr, u, a)
      PROVE  TypeOK'
  <2>1. [op |-> "define", user |-> usr, unit |-> u, id |-> None, auth |-> a] \in Task
      BY LifecycleAssumption DEF Task, Ops
  <2> QED
      BY <1>1, <2>1 DEF CallDefine
<1>2. ASSUME NEW p \in Helpers, NEW usr \in Users, NEW u \in Units, CallUndefine(p, usr, u)
      PROVE  TypeOK'
  <2>1. [NoTask EXCEPT !.op = "undefine", !.user = usr, !.unit = u] \in Task
      BY DEF Task, Ops, NoTask, Auths
  <2> QED
      BY <1>2, <2>1 DEF CallUndefine
<1>3. ASSUME NEW p \in Helpers, NEW usr \in Users, CallPurge(p, usr)
      PROVE  TypeOK'
  <2>1. [NoTask EXCEPT !.op = "purge", !.user = usr] \in Task
      BY DEF Task, Ops, NoTask, Auths
  <2> QED
      BY <1>3, <2>1 DEF CallPurge
<1>4. CASE BootStart
  <2>1. [NoTask EXCEPT !.op = "boot"] \in Task
      BY DEF Task, Ops, NoTask, Auths
  <2> QED
      BY <1>4, <2>1 DEF BootStart
<1> QED
    BY <1>1, <1>2, <1>3, <1>4 DEF Call

\* Taking the root lock, failing to, and replying keep the types.
LEMMA LockType ==
    ASSUME TypeOK, NEW p \in Procs, Control(p),
           AcquireLock(p) \/ LockUnavailable(p) \/ Reply(p)
    PROVE  TypeOK'
<1> USE StepKinds, BlankTypes DEF TypeOK, disk, kernel, Go
<1>1. CASE AcquireLock(p)
  <2>1. task[p].op \in Steps
      BY <1>1 DEF AcquireLock, Control, Task, Steps
  <2> QED
      BY <1>1, <2>1 DEF AcquireLock
<1>2. CASE LockUnavailable(p)
    BY <1>2 DEF LockUnavailable, Forget
<1>3. CASE Reply(p)
    BY <1>3 DEF Reply, Forget
<1> QED
    BY <1>1, <1>2, <1>3

\* What PID 1 and the kernel do keeps the types of their state.
LEMMA KernelTypes ==
    ASSUME TypeOK, NEW u \in Units
    PROVE  /\ DiskUnit(u) \in UnitFile
           /\ uniqueMountId(u) \in Reported \cup {None}
           /\ FreshMountIds \subseteq MountIds
           /\ startedIds(u) \subseteq Reported \cup {None}
    BY MarkerTypes DEF TypeOK, DiskUnit, uniqueMountId, FreshMountIds, startedIds, Reported, LiveMount

\* So does systemctl start of a trigger ...
LEMMA StartType ==
    ASSUME TypeOK, NEW u \in Units, NEW who \in {"own", "foreign"}, StartTrigger(u, who)
    PROVE  /\ autofs' \in [Units -> MountIds \cup {None}]
           /\ origin' \in [Units -> {"none", "own", "foreign"}]
           /\ loaded' \in [Units -> UnitFile]
    BY KernelTypes DEF StartTrigger, TypeOK

\* ... systemctl stop of one ...
LEMMA StopType ==
    ASSUME TypeOK, NEW u \in Units, StopTrigger(u)
    PROVE  /\ autofs' \in [Units -> MountIds \cup {None}]
           /\ origin' \in [Units -> {"none", "own", "foreign"}]
           /\ live' \in [Units -> LiveMount]
           /\ lateStart' \subseteq Units
    BY BlankTypes DEF StopTrigger, TypeOK

\* ... and daemon-reload.
LEMMA ReloadType ==
    ASSUME TypeOK, DaemonReload
    PROVE  /\ loaded' \in [Units -> UnitFile]
           /\ lateStart' \subseteq Units
    BY KernelTypes, MarkerTypes DEF DaemonReload, TypeOK

\* inspectRuntime returns runtime snapshots, whatever the mount stack is.
LEMMA ViewTypes ==
    ASSUME NEW u \in Units, NEW what
    PROVE  runtimeViews(u, what) \subseteq Snapshot
<1> DEFINE seen == classifyMountEntries(MountStack(u), what)
<1>1. /\ seen.mount \in {"Absent", "Present", "Indeterminate"}
      /\ seen.verification \in {"NotApplicable", "Match", "Mismatch", "Indeterminate"}
    BY DEF classifyMountEntries
<1> QED
    BY <1>1 DEF runtimeViews, Snapshot

\* What enumerateManagedUnits returns can be put in a plan.
LEMMA PlanTypes ==
    ASSUME TypeOK, NEW m \in enumerateManagedUnits(mountUnit, automountUnit)
    PROVE  m.unit \in Units /\ m.marker \in Marker /\ [unit |-> m.unit, marker |-> m.marker] \in Managed
    BY DEF enumerateManagedUnits, TypeOK, pairState, definitionMarker, scannedHalf, Managed

\* Assigning a value of its type to one field of a process's variables.
LEMMA LocalUpdate ==
    ASSUME local \in [Procs -> Local], NEW p \in Procs
    PROVE  /\ \A v \in SUBSET {"mount", "automount", "cred"} :
                  [local EXCEPT ![p].made = v] \in [Procs -> Local]
           /\ \A v \in Snapshot : [local EXCEPT ![p].snap = v] \in [Procs -> Local]
           /\ \A v \in Reported \cup {None} : [local EXCEPT ![p].started = v] \in [Procs -> Local]
           /\ \A v \in BOOLEAN : [local EXCEPT ![p].safe = v] \in [Procs -> Local]
           /\ \A v \in BOOLEAN : [local EXCEPT ![p].stopOk = v] \in [Procs -> Local]
<1> DEFINE r == local[p]
<1>1. r \in Local
    OBVIOUS
<1> HIDE DEF r
<1>2. \A v \in SUBSET {"mount", "automount", "cred"} : [r EXCEPT !.made = v] \in Local
    BY <1>1 DEF Local
<1>3. \A v \in Snapshot : [r EXCEPT !.snap = v] \in Local
    BY <1>1 DEF Local
<1>4. \A v \in Reported \cup {None} : [r EXCEPT !.started = v] \in Local
    BY <1>1 DEF Local
<1>5. \A v \in BOOLEAN : [r EXCEPT !.safe = v] \in Local
    BY <1>1 DEF Local
<1>6. \A v \in BOOLEAN : [r EXCEPT !.stopOk = v] \in Local
    BY <1>1 DEF Local
<1>7. \A f \in Local : [local EXCEPT ![p] = f] \in [Procs -> Local]
    OBVIOUS
<1> QED
    BY <1>2, <1>3, <1>4, <1>5, <1>6, <1>7 DEF r

\* Types, over the steps of definesystem and its cleanup.
LEMMA DefineType ==
    ASSUME TypeOK, NEW p \in Procs, Control(p), DefineStep(p)
    PROVE  TypeOK'
<1> USE StepKinds DEF TypeOK, disk, kernel, control, Go, UnitOf
<1> USE DEF LockedSteps, DefineSteps, ArmSteps, CleanupSteps, ReplySteps
<1>1. CASE DefineRefuse(p)
    BY <1>1 DEF DefineRefuse, Control
<1>2. CASE DefineCheck(p)
  <2>1. /\ task' \in [Procs -> Task]
        /\ dirs' \subseteq Units
      BY <1>2 DEF DefineCheck, Control, Task
  <2> QED
      BY <1>2, <2>1 DEF DefineCheck
<1>3. pc[p] \in DefineSteps \ {"define"} => MarkerOf(p) \in UnitFile /\ task[p].id \in Ids
    BY DEF Control, ShareSteps, MarkerOf, UnitFile, Marker, Task
<1>4. ASSUME NEW k \in {"mount", "automount", "cred"}
      PROVE  [local EXCEPT ![p].made = @ \cup {k}] \in [Procs -> Local]
  <2>1. local[p].made \cup {k} \in SUBSET {"mount", "automount", "cred"}
      BY DEF Local
  <2> QED
      BY <2>1, LocalUpdate
<1>5. [local EXCEPT ![p].made = {}] \in [Procs -> Local]
    BY LocalUpdate
<1>6. CASE WriteMountUnit(p)
    BY <1>3, <1>4, <1>6 DEF WriteMountUnit
<1>7. CASE WriteAutomountUnit(p)
    BY <1>3, <1>4, <1>7 DEF WriteAutomountUnit
<1>8. CASE WriteCredential(p)
    BY <1>3, <1>4, <1>8 DEF WriteCredential
<1>9. CASE AssertNoCredential(p)
    BY <1>9 DEF AssertNoCredential
<1>10. CASE DefineReload(p)
    BY <1>10, ReloadType DEF DefineReload
<1>11. CASE CleanupCredential(p)
    BY <1>5, <1>11 DEF CleanupCredential
<1>12. CASE CleanupAutomount(p)
    BY <1>12, MarkerTypes DEF CleanupAutomount
<1>13. CASE CleanupMount(p)
    BY <1>13, MarkerTypes DEF CleanupMount
<1>14. CASE CleanupRecord(p)
    BY <1>14 DEF CleanupRecord
<1>15. CASE CleanupReload(p)
    BY <1>15, ReloadType DEF CleanupReload
<1> QED
    BY <1>1, <1>2, <1>6, <1>7, <1>8, <1>9, <1>10, <1>11, <1>12, <1>13, <1>14, <1>15
    DEF DefineStep

\* Types, over armShare and its compensation.
LEMMA ArmType ==
    ASSUME TypeOK, NEW p \in Procs, Control(p), ArmStep(p)
    PROVE  TypeOK'
<1> USE StepKinds DEF TypeOK, disk, kernel, control, Go, UnitOf
<1> USE DEF LockedSteps, ArmSteps, CleanupSteps, ReplySteps, ArmSucceeds
<1>u. pc[p] \in ArmSteps => UnitOf(p) \in Units
    BY DEF Control, ShareSteps
<1>1. ASSUME NEW s \in Snapshot
      PROVE  [local EXCEPT ![p].snap = s] \in [Procs -> Local]
    BY LocalUpdate
<1>2. ASSUME NEW i \in Reported \cup {None}
      PROVE  [local EXCEPT ![p].started = i] \in [Procs -> Local]
    BY LocalUpdate
<1>3. ASSUME NEW b \in BOOLEAN
      PROVE  [local EXCEPT ![p].safe = b] \in [Procs -> Local]
    BY LocalUpdate
<1>4. CASE ArmInspect(p)
    BY <1>u, <1>1, <1>4, ViewTypes DEF ArmInspect
<1>5. CASE ArmTrust(p)
    BY <1>1, <1>5, BlankTypes DEF ArmTrust
<1>6. CASE ArmCredential(p)
    BY <1>6 DEF ArmCredential
<1>7. CASE ArmWalk(p)
    BY <1>u, <1>7 DEF ArmWalk
<1>8. CASE ArmStart(p)
    BY <1>u, <1>8, StartType DEF ArmStart
<1>9. CASE ArmStartFails(p)
    BY <1>u, <1>9, StartType DEF ArmStartFails
<1>10. CASE ArmRecheck(p)
    BY <1>3, <1>10 DEF ArmRecheck
<1>11. CASE ArmFailId(p)
    BY <1>u, <1>2, <1>11, KernelTypes DEF ArmFailId
<1>12. CASE ArmId(p)
    BY <1>u, <1>2, <1>12, KernelTypes DEF ArmId
<1>13. CASE ArmRecord(p)
  <2>1. local[p].started \in Reported \cup {None}
      BY DEF Local
  <2> QED
      BY <2>1, <1>2, <1>13 DEF ArmRecord
<1>14. CASE CompensateCheck(p)
    BY <1>3, <1>14 DEF CompensateCheck
<1>15. CASE CompensateStop(p)
    BY <1>u, <1>3, <1>15, StopType DEF CompensateStop
<1>16. CASE CompensateRecord(p)
    BY <1>16 DEF CompensateRecord
<1>17. CASE ArmFailed(p)
  <2> DEFINE r == local[p]
             seen == IF task[p].op = "boot" THEN r.logged \cup {UnitOf(p)} ELSE r.logged
  <2>1. r \in Local /\ seen \in SUBSET Units
      BY <1>u, <1>17 DEF Local, ArmFailed
  <2>2. local' = [local EXCEPT ![p] =
                    [r EXCEPT !.started = None, !.safe = TRUE, !.logged = seen]]
      BY <1>17 DEF ArmFailed
  <2> HIDE DEF r, seen
  <2>3. [r EXCEPT !.started = None, !.safe = TRUE, !.logged = seen] \in Local
      BY <2>1 DEF Local
  <2>4. local' \in [Procs -> Local]
      BY <2>2, <2>3
  <2> QED
      BY <2>4, <1>17 DEF ArmFailed
<1> QED
    BY <1>4, <1>5, <1>6, <1>7, <1>8, <1>9, <1>10, <1>11, <1>12, <1>13, <1>14, <1>15,
       <1>16, <1>17
    DEF ArmStep

\* Types, over safeStop and the removal of one share.
LEMMA RemoveType ==
    ASSUME TypeOK, NEW p \in Procs, Control(p), RemoveStep(p)
    PROVE  TypeOK'
<1> USE StepKinds DEF TypeOK, disk, kernel, control, Go, UnitOf
<1> USE DEF LockedSteps, StopSteps, RemoveSteps, ReplySteps, PurgeSteps, StopDone, AfterRemoval
<1>u. pc[p] \in StopSteps => UnitOf(p) \in Units
    BY DEF Control, ShareSteps
<1>1. ASSUME NEW s \in Snapshot
      PROVE  [local EXCEPT ![p].snap = s] \in [Procs -> Local]
    BY LocalUpdate
<1>2. ASSUME NEW b \in BOOLEAN
      PROVE  [local EXCEPT ![p].stopOk = b] \in [Procs -> Local]
    BY LocalUpdate
<1>3. CASE UndefineCheck(p)
  <2>1. task' \in [Procs -> Task]
    <3>1. CASE UNCHANGED task
        BY <3>1
    <3>2. ASSUME inspectDefinition(mountUnit[UnitOf(p)], automountUnit[UnitOf(p)], task[p].user)
                    \in {"Pair", "Partial"}
          PROVE  definitionMarker(mountUnit[UnitOf(p)], automountUnit[UnitOf(p)]) \in Marker
        BY <1>3, <3>2, Inspected DEF UndefineCheck, Control
    <3> QED
        BY <3>1, <3>2, <1>3, MarkerTypes DEF UndefineCheck, Task
  <2> QED
      BY <2>1, <1>3 DEF UndefineCheck
<1>4. CASE StopInspect(p)
    BY <1>u, <1>1, <1>4, ViewTypes DEF StopInspect
<1>5. CASE StopTrust(p)
    BY <1>1, <1>5, BlankTypes DEF StopTrust
<1>6. CASE StopMount(p)
  <2>1. live' \in [Units -> LiveMount]
      BY <1>6, BlankTypes DEF StopMount
  <2>2. local' \in [Procs -> Local]
      BY <1>2, <1>6 DEF StopMount
  <2> QED
      BY <2>1, <2>2, <1>6 DEF StopMount
<1>7. CASE StopAutomount(p)
    BY <1>u, <1>2, <1>7, StopType DEF StopAutomount
<1>8. CASE RemoveCredential(p)
    BY <1>8 DEF RemoveCredential
<1>9. CASE RemoveMountUnit(p)
    BY <1>9, MarkerTypes DEF RemoveMountUnit
<1>10. CASE RemoveAutomountUnit(p)
    BY <1>10, MarkerTypes DEF RemoveAutomountUnit
<1>11. CASE RemoveRecord(p)
    BY <1>11 DEF RemoveRecord
<1>12. CASE RemoveReload(p)
    BY <1>12, ReloadType DEF RemoveReload
<1> QED
    BY <1>3, <1>4, <1>5, <1>6, <1>7, <1>8, <1>9, <1>10, <1>11, <1>12 DEF RemoveStep

\* Types, over purge's two loops and the trees it removes.
LEMMA PurgeType ==
    ASSUME TypeOK, NEW p \in Procs, PurgeStep(p)
    PROVE  TypeOK'
<1> USE StepKinds DEF TypeOK, disk, kernel, control, Go
<1> USE DEF LockedSteps, StopSteps, RemoveSteps, ReplySteps, PurgeSteps
<1> DEFINE r == local[p]
<1>r. /\ r \in Local
      /\ r.todo \in SUBSET Managed /\ r.plan \in SUBSET Managed
    BY DEF Local
<1>1. ASSUME NEW T \in SUBSET Managed
      PROVE  [local EXCEPT ![p].todo = T] \in [Procs -> Local]
  <2> HIDE DEF r
  <2>1. [r EXCEPT !.todo = T] \in Local
      BY <1>r DEF Local
  <2> QED
      BY <2>1 DEF r
<1>2. ASSUME NEW m \in r.todo, Take(p, m)
      PROVE  local' \in [Procs -> Local] /\ task' \in [Procs -> Task]
  <2>1. m.unit \in Units /\ m.marker.id \in Ids /\ r.todo \ {m} \in SUBSET Managed
      BY <1>2, <1>r, MarkerTypes DEF Managed
  <2>2. local' \in [Procs -> Local]
      BY <2>1, <1>1, <1>2 DEF Take
  <2> DEFINE t == task[p]
  <2>3. task' = [task EXCEPT ![p] = [t EXCEPT !.unit = m.unit, !.id = m.marker.id]]
      BY <1>2 DEF Take
  <2>4. t \in Task
      OBVIOUS
  <2> HIDE DEF t
  <2>5. [t EXCEPT !.unit = m.unit, !.id = m.marker.id] \in Task
      BY <2>1, <2>4 DEF Task
  <2>6. task' \in [Procs -> Task]
      BY <2>3, <2>5
  <2> QED
      BY <2>2, <2>6
<1>3. CASE PurgeCheck(p)
  <2> DEFINE plan == {[unit |-> m.unit, marker |-> m.marker] :
                         m \in enumerateManagedUnits(mountUnit, automountUnit)}
  <2>1. plan \in SUBSET Managed
      BY PlanTypes
  <2>2. \/ local' = [local EXCEPT ![p] = [r EXCEPT !.plan = plan, !.todo = plan]]
        \/ local' = local
      BY <1>3 DEF PurgeCheck
  <2> HIDE DEF r, plan
  <2>3. [r EXCEPT !.plan = plan, !.todo = plan] \in Local
      BY <1>r, <2>1 DEF Local
  <2>4. local' \in [Procs -> Local]
      BY <2>2, <2>3
  <2> QED
      BY <2>4, <1>3 DEF PurgeCheck
<1>4. CASE PurgeStopNext(p)
  <2>1. local' \in [Procs -> Local] /\ task' \in [Procs -> Task]
      BY <1>r, <1>1, <1>2, <1>4 DEF PurgeStopNext
  <2> QED
      BY <2>1, <1>4 DEF PurgeStopNext
<1>5. CASE PurgeRemoveNext(p)
  <2>1. local' \in [Procs -> Local] /\ task' \in [Procs -> Task]
      BY <1>r, <1>2, <1>5 DEF PurgeRemoveNext
  <2> QED
      BY <2>1, <1>5 DEF PurgeRemoveNext
<1>6. CASE PurgeCredentialTree(p)
    BY <1>6 DEF PurgeCredentialTree
<1>7. CASE PurgeRunTrees(p)
    BY <1>7 DEF PurgeRunTrees
<1> QED
    BY <1>3, <1>4, <1>5, <1>6, <1>7 DEF PurgeStep

\* Types, over the boot pass.
LEMMA BootType ==
    ASSUME TypeOK, NEW p \in Procs, BootStep(p)
    PROVE  TypeOK'
<1> USE StepKinds DEF TypeOK, disk, kernel, control, Go
<1> USE DEF LockedSteps, ArmSteps, ReplySteps
<1> DEFINE r == local[p]
<1>r. /\ r \in Local
      /\ r.todo \in SUBSET Managed /\ r.logged \in SUBSET Units
    BY DEF Local
<1>1. ASSUME NEW T \in SUBSET Managed, NEW L \in SUBSET Units
      PROVE  [local EXCEPT ![p].todo = T, ![p].logged = L] \in [Procs -> Local]
  <2> HIDE DEF r
  <2>1. [r EXCEPT !.todo = T, !.logged = L] \in Local
      BY <1>r DEF Local
  <2> QED
      BY <2>1 DEF r
<1>2. ASSUME NEW T \in SUBSET Managed
      PROVE  [local EXCEPT ![p].todo = T] \in [Procs -> Local]
  <2> HIDE DEF r
  <2>1. [r EXCEPT !.todo = T] \in Local
      BY <1>r DEF Local
  <2> QED
      BY <2>1 DEF r
<1>3. CASE BootEnumerate(p)
  <2> DEFINE found == enumerateManagedUnits(mountUnit, automountUnit)
             pairs == {[unit |-> m.unit, marker |-> m.marker] :
                          m \in {x \in found : x.state = "Pair"}}
             rest == {m.unit : m \in {x \in found : x.state # "Pair"}}
  <2>p. \A m \in found : m.unit \in Units /\ [unit |-> m.unit, marker |-> m.marker] \in Managed
      BY PlanTypes
  <2> HIDE DEF found
  <2>q. pairs \subseteq Managed
      BY <2>p
  <2>r. ASSUME NEW w \in rest PROVE w \in Units
    <3>1. PICK m \in {x \in found : x.state # "Pair"} : w = m.unit
        OBVIOUS
    <3> QED
        BY <3>1, <2>p
  <2>1. pairs \in SUBSET Managed /\ rest \in SUBSET Units
      BY <2>q, <2>r
  <2>2. local' = [local EXCEPT ![p].todo = pairs, ![p].logged = rest]
      BY <1>3 DEF BootEnumerate, found
  <2> HIDE DEF pairs, rest
  <2>3. local' \in [Procs -> Local]
      BY <2>1, <2>2, <1>1
  <2> QED
      BY <2>3, <1>3 DEF BootEnumerate
<1>4. CASE BootNext(p)
  <2>1. CASE r.todo = {} /\ Go(p, "replyOk") /\ UNCHANGED <<task, local>>
      BY <2>1, <1>4 DEF BootNext
  <2>2. ASSUME NEW m \in r.todo
        PROVE  m.unit \in Units /\ m.marker \in Marker /\ r.todo \ {m} \in SUBSET Managed
      BY <2>2, <1>r DEF Managed
  <2>3. ASSUME NEW m \in r.todo,
               local' = [local EXCEPT ![p].todo = @ \ {m}, ![p].logged = @ \cup {m.unit}],
               UNCHANGED <<task, pc>>
        PROVE  TypeOK'
    <3>1. r.todo \ {m} \in SUBSET Managed /\ r.logged \cup {m.unit} \in SUBSET Units
        BY <2>2, <1>r
    <3>2. local' = [local EXCEPT ![p].todo = r.todo \ {m}, ![p].logged = r.logged \cup {m.unit}]
        BY <2>3
    <3> HIDE DEF r
    <3>3. local' \in [Procs -> Local]
        BY <3>1, <3>2, <1>1
    <3> QED
        BY <3>3, <2>3, <1>4 DEF BootNext
  <2>4. ASSUME NEW m \in r.todo,
               task' = [task EXCEPT ![p] = [op |-> "boot", user |-> m.marker.owner,
                                             unit |-> m.unit, id |-> m.marker.id,
                                             auth |-> m.marker.auth]],
               local' = [local EXCEPT ![p].todo = @ \ {m}],
               Go(p, "armInspect")
        PROVE  TypeOK'
    <3>1. local' \in [Procs -> Local]
        BY <2>2, <2>4, <1>2
    <3>2. task' \in [Procs -> Task]
        BY <2>2, <2>4, MarkerTypes DEF Task, Ops
    <3> QED
        BY <3>1, <3>2, <2>4, <1>4 DEF BootNext
  <2> QED
      BY <2>1, <2>3, <2>4, <1>4 DEF BootNext
<1> QED
    BY <1>3, <1>4 DEF BootStep

\* Types, over crashes, reboots, users and administrators.
LEMMA EnvironmentType ==
    ASSUME TypeOK, Environment
    PROVE  TypeOK'
<1> USE StepKinds, BlankTypes DEF TypeOK, disk, kernel, control, Go
<1>1. CASE Reboot
    BY <1>1, KernelTypes DEF Reboot, WritesSecret
<1>2. ASSUME NEW p \in Procs, Crash(p) PROVE TypeOK'
    BY <1>2 DEF Crash, Forget, WritesSecret
<1>3. ASSUME NEW u \in Units, AccessPath(u) PROVE TypeOK'
    BY <1>3, KernelTypes DEF AccessPath, LiveMount
<1>4. ASSUME NEW u \in Units, IdleUnmount(u) PROVE TypeOK'
    BY <1>4 DEF IdleUnmount
<1>5. ASSUME NEW u \in Units, HandStart(u) PROVE TypeOK'
    BY <1>5, StartType DEF HandStart
<1>6. ASSUME NEW u \in Units, HandStop(u) PROVE TypeOK'
    BY <1>6, StopType DEF HandStop
<1>7. ASSUME NEW u \in Units, HandMount(u) PROVE TypeOK'
    BY <1>7, KernelTypes DEF HandMount, LiveMount
<1>8. ASSUME NEW u \in Units, HandUnmount(u) PROVE TypeOK'
    BY <1>8 DEF HandUnmount
<1>9. ASSUME NEW u \in Units, LateStart(u) PROVE TypeOK'
    BY <1>9, StartType DEF LateStart
<1> QED
    BY <1>1, <1>2, <1>3, <1>4, <1>5, <1>6, <1>7, <1>8, <1>9 DEF Environment

\* Every step keeps the types; the control invariant says which share a step
\* works on.
LEMMA TypeStep ==
    ASSUME TypeOK, ControlInv, [Next]_vars
    PROVE  TypeOK'
<1>1. CASE Call
    BY <1>1, CallType
<1>2. ASSUME NEW p \in Procs, AcquireLock(p) \/ LockUnavailable(p) \/ Work(p)
      PROVE  TypeOK'
    BY <1>2, LockType, DefineType, ArmType, RemoveType, PurgeType, BootType DEF Work, ControlInv
<1>3. CASE Environment
    BY <1>3, EnvironmentType
<1>4. CASE UNCHANGED vars
    BY <1>4 DEF TypeOK, vars, disk, kernel, control
<1> QED
    BY <1>1, <1>2, <1>3, <1>4 DEF Next

-----------------------------------------------------------------------------
(* The root lock: a step belongs to its holder and leaves the others alone. *)

OthersKept(p) ==
    \A q \in Procs \ {p} :
        pc'[q] = pc[q] /\ task'[q] = task[q] /\ local'[q] = local[q]

\* A step of define runs under the lock and moves only its own process.
LEMMA DefineFrame ==
    ASSUME TypeOK, NEW p \in Procs, DefineStep(p)
    PROVE  pc[p] \in LockedSteps /\ OthersKept(p) /\ UNCHANGED <<holder, purgeOpen>>
<1> USE DEF TypeOK, OthersKept, control, Go, LockedSteps, DefineSteps, CleanupSteps
<1>1. CASE DefineRefuse(p) \/ DefineCheck(p)
    BY <1>1 DEF DefineRefuse, DefineCheck
<1>2. CASE WriteMountUnit(p) \/ WriteAutomountUnit(p) \/ WriteCredential(p)
    BY <1>2 DEF WriteMountUnit, WriteAutomountUnit, WriteCredential
<1>3. CASE AssertNoCredential(p) \/ DefineReload(p)
    BY <1>3 DEF AssertNoCredential, DefineReload
<1>4. CASE CleanupCredential(p) \/ CleanupAutomount(p) \/ CleanupMount(p)
    BY <1>4 DEF CleanupCredential, CleanupAutomount, CleanupMount
<1>5. CASE CleanupRecord(p) \/ CleanupReload(p)
    BY <1>5 DEF CleanupRecord, CleanupReload
<1> QED
    BY <1>1, <1>2, <1>3, <1>4, <1>5 DEF DefineStep

\* So does a step of armShare, which keeps its request too.
LEMMA ArmFrame ==
    ASSUME TypeOK, NEW p \in Procs, ArmStep(p)
    PROVE  pc[p] \in ArmSteps /\ OthersKept(p) /\ UNCHANGED <<holder, task, purgeOpen>>
<1> USE DEF TypeOK, OthersKept, control, Go, ArmSteps, ArmSucceeds
<1>1. CASE ArmInspect(p) \/ ArmTrust(p) \/ ArmCredential(p) \/ ArmWalk(p)
    BY <1>1 DEF ArmInspect, ArmTrust, ArmCredential, ArmWalk
<1>2. CASE ArmStart(p) \/ ArmStartFails(p) \/ ArmRecheck(p) \/ ArmFailId(p)
    BY <1>2 DEF ArmStart, ArmStartFails, ArmRecheck, ArmFailId
<1>3. CASE ArmId(p) \/ ArmRecord(p) \/ CompensateCheck(p)
    BY <1>3 DEF ArmId, ArmRecord, CompensateCheck
<1>4. CASE CompensateStop(p) \/ CompensateRecord(p) \/ ArmFailed(p)
    BY <1>4 DEF CompensateStop, CompensateRecord, ArmFailed
<1> QED
    BY <1>1, <1>2, <1>3, <1>4 DEF ArmStep

\* So does a step of safeStop or of a removal.
LEMMA RemoveFrame ==
    ASSUME TypeOK, NEW p \in Procs, RemoveStep(p)
    PROVE  /\ pc[p] \in StopSteps \cup RemoveSteps \cup {"undefine"}
           /\ OthersKept(p) /\ UNCHANGED <<holder, purgeOpen>>
<1> USE DEF TypeOK, OthersKept, control, Go, StopSteps, RemoveSteps, StopDone
<1>1. CASE UndefineCheck(p) \/ StopInspect(p) \/ StopTrust(p)
    BY <1>1 DEF UndefineCheck, StopInspect, StopTrust
<1>2. CASE StopMount(p) \/ StopAutomount(p)
    BY <1>2 DEF StopMount, StopAutomount
<1>3. CASE RemoveCredential(p) \/ RemoveMountUnit(p) \/ RemoveAutomountUnit(p)
    BY <1>3 DEF RemoveCredential, RemoveMountUnit, RemoveAutomountUnit
<1>4. CASE RemoveRecord(p) \/ RemoveReload(p)
    BY <1>4 DEF RemoveRecord, RemoveReload
<1> QED
    BY <1>1, <1>2, <1>3, <1>4 DEF RemoveStep

\* So does a step of the loops of purge and boot.
LEMMA PurgeBootFrame ==
    ASSUME TypeOK, NEW p \in Procs, PurgeStep(p) \/ BootStep(p)
    PROVE  pc[p] \in PurgeSteps \cup {"boot", "bootNext"} /\ OthersKept(p) /\ UNCHANGED holder
<1> USE DEF TypeOK, OthersKept, control, Go, PurgeSteps
<1>1. CASE PurgeCheck(p) \/ PurgeStopNext(p) \/ PurgeRemoveNext(p)
    BY <1>1 DEF PurgeCheck, PurgeStopNext, PurgeRemoveNext, Take
<1>2. CASE PurgeCredentialTree(p) \/ PurgeRunTrees(p)
    BY <1>2 DEF PurgeCredentialTree, PurgeRunTrees
<1>3. CASE BootEnumerate(p) \/ BootNext(p)
    BY <1>3 DEF BootEnumerate, BootNext
<1> QED
    BY <1>1, <1>2, <1>3 DEF PurgeStep, BootStep

\* While a process works, it is the holder and nobody else is past the lock.
LEMMA WorkFrame ==
    ASSUME TypeOK, ControlInv, NEW p \in Procs, Work(p)
    PROVE  /\ pc[p] \in LockedSteps /\ holder = p
           /\ OthersKept(p)
           /\ \A q \in Procs \ {p} : pc[q] \notin LockedSteps
           /\ ~Reply(p) => UNCHANGED holder
<1>1. pc[p] \in LockedSteps /\ OthersKept(p) /\ (~Reply(p) => UNCHANGED holder)
  <2>1. CASE Reply(p)
      BY <2>1 DEF Reply, Forget, Go, OthersKept, TypeOK, LockedSteps
  <2>2. CASE DefineStep(p)
      BY <2>2, DefineFrame
  <2>3. CASE ArmStep(p)
      BY <2>3, ArmFrame DEF LockedSteps
  <2>4. CASE RemoveStep(p)
      BY <2>4, RemoveFrame DEF LockedSteps
  <2>5. CASE PurgeStep(p) \/ BootStep(p)
      BY <2>5, PurgeBootFrame DEF LockedSteps
  <2> QED
      BY <2>1, <2>2, <2>3, <2>4, <2>5 DEF Work
<1> QED
    BY <1>1 DEF ControlInv, Control

\* Control, over the steps of definesystem and its cleanup.
LEMMA DefineControl ==
    ASSUME TypeOK, NEW p \in Procs, Control(p), DefineStep(p)
    PROVE  Control(p)'
<1> USE DEF Control, control, Go, LockedSteps, ShareSteps, DefineSteps, ArmSteps, CleanupSteps,
            StopSteps, RemoveSteps, PurgeSteps, ReplySteps, TypeOK
<1>0. UNCHANGED holder
    BY DefineFrame
<1>1. CASE DefineRefuse(p)
    BY <1>1 DEF DefineRefuse
<1>2. CASE DefineCheck(p)
  <2>1. PICK i \in Ids : task' = [task EXCEPT ![p].id = i]
      BY <1>2 DEF DefineCheck
  <2>2. /\ task'[p].op = task[p].op /\ task'[p].user = task[p].user
        /\ task'[p].unit = task[p].unit /\ task'[p].id = i
      BY <2>1 DEF Task
  <2> QED
      BY <1>0, <1>2, <2>2 DEF DefineCheck
<1>3. CASE WriteMountUnit(p) \/ WriteAutomountUnit(p)
    BY <1>3 DEF WriteMountUnit, WriteAutomountUnit
<1>4. CASE WriteCredential(p) \/ AssertNoCredential(p)
    BY <1>4 DEF WriteCredential, AssertNoCredential
<1>5. CASE DefineReload(p)
    BY <1>5 DEF DefineReload
<1>6. CASE CleanupCredential(p)
    BY <1>6 DEF CleanupCredential
<1>7. CASE CleanupAutomount(p) \/ CleanupMount(p)
    BY <1>7 DEF CleanupAutomount, CleanupMount
<1>8. CASE CleanupRecord(p) \/ CleanupReload(p)
    BY <1>8 DEF CleanupRecord, CleanupReload
<1> QED
    BY <1>1, <1>2, <1>3, <1>4, <1>5, <1>6, <1>7, <1>8 DEF DefineStep

\* Control, over armShare and its compensation.
LEMMA ArmControl ==
    ASSUME TypeOK, NEW p \in Procs, Control(p), ArmStep(p)
    PROVE  Control(p)'
<1> USE DEF Control, control, Go, LockedSteps, ShareSteps, DefineSteps, ArmSteps, CleanupSteps,
            StopSteps, RemoveSteps, PurgeSteps, ReplySteps, TypeOK
<1>1. UNCHANGED <<holder, task>>
    BY ArmFrame
<1>2. /\ pc[p] \in ArmSteps
      /\ \/ pc'[p] \in ArmSteps \cup {"replyOk", "replyFail"}
         \/ pc'[p] = "bootNext" /\ task[p].op = "boot"
         \/ pc'[p] = "clCred" /\ task[p].op = "define"
  <2> USE DEF ArmSucceeds
  <2>1. CASE ArmInspect(p) \/ ArmTrust(p) \/ ArmCredential(p) \/ ArmWalk(p)
      BY <2>1 DEF ArmInspect, ArmTrust, ArmCredential, ArmWalk
  <2>2. CASE ArmStart(p) \/ ArmStartFails(p) \/ ArmRecheck(p) \/ ArmFailId(p)
      BY <2>2 DEF ArmStart, ArmStartFails, ArmRecheck, ArmFailId
  <2>3. CASE ArmId(p) \/ ArmRecord(p) \/ CompensateCheck(p)
      BY <2>3 DEF ArmId, ArmRecord, CompensateCheck
  <2>4. CASE CompensateStop(p) \/ CompensateRecord(p) \/ ArmFailed(p)
      BY <2>4 DEF CompensateStop, CompensateRecord, ArmFailed
  <2> QED
      BY <2>1, <2>2, <2>3, <2>4 DEF ArmStep
<1> QED
    BY <1>1, <1>2

\* Control, over safeStop and the removal of one share.
LEMMA RemoveControl ==
    ASSUME TypeOK, NEW p \in Procs, Control(p), RemoveStep(p)
    PROVE  Control(p)'
<1> USE DEF Control, control, Go, LockedSteps, ShareSteps, DefineSteps, ArmSteps, CleanupSteps,
            StopSteps, RemoveSteps, PurgeSteps, ReplySteps, TypeOK
<1>0. UNCHANGED holder
    BY RemoveFrame
<1>1. CASE UndefineCheck(p)
  <2> DEFINE u == UnitOf(p)
             i == definitionMarker(mountUnit[u], automountUnit[u]).id
  <2>1. CASE pc'[p] = "replyFail" /\ UNCHANGED task
      BY <2>1, <1>0, <1>1 DEF UndefineCheck
  <2>2. CASE /\ inspectDefinition(mountUnit[u], automountUnit[u], task[p].user) \in {"Pair", "Partial"}
             /\ task' = [task EXCEPT ![p].id = i]
             /\ Go(p, "stopInspect")
    <3>1. i \in Ids
        BY <2>2, <1>1, Inspected, MarkerTypes DEF UndefineCheck, UnitOf
    <3>2. /\ task'[p].op = task[p].op /\ task'[p].user = task[p].user
          /\ task'[p].unit = task[p].unit /\ task'[p].id = i
        BY <2>2 DEF Task
    <3> HIDE DEF i
    <3> QED
        BY <1>0, <1>1, <2>2, <3>1, <3>2 DEF UndefineCheck
  <2> QED
      BY <1>1, <2>1, <2>2 DEF UndefineCheck
<1>2. CASE StopInspect(p) \/ StopTrust(p) \/ StopMount(p) \/ StopAutomount(p)
  <2>1. /\ pc[p] \in StopSteps /\ UNCHANGED task
        /\ \/ pc'[p] \in StopSteps \cup {"replyFail"}
           \/ pc'[p] = "rmCred" /\ task[p].op = "undefine"
           \/ pc'[p] = "purStop" /\ task[p].op # "undefine"
      BY <1>2 DEF StopInspect, StopTrust, StopMount, StopAutomount, StopDone
  <2> QED
      BY <1>0, <2>1
<1>3. CASE \/ RemoveCredential(p) \/ RemoveMountUnit(p) \/ RemoveAutomountUnit(p)
           \/ RemoveRecord(p) \/ RemoveReload(p)
  <2>1. /\ pc[p] \in RemoveSteps /\ UNCHANGED task
        /\ \/ pc[p] # "rmReload" /\ pc'[p] \in RemoveSteps
           \/ pc'[p] \in {"replyFail", "replyOk"}
           \/ pc'[p] \in {"purRm", "purEtc"} /\ task[p].op # "undefine"
      BY <1>3 DEF RemoveCredential, RemoveMountUnit, RemoveAutomountUnit,
                  RemoveRecord, RemoveReload, AfterRemoval
  <2> QED
      BY <1>0, <2>1
<1> QED
    BY <1>1, <1>2, <1>3 DEF RemoveStep

\* Control, over the loops of purge and boot, which choose the next share.
LEMMA PurgeBootControl ==
    ASSUME TypeOK, NEW p \in Procs, Control(p), PurgeStep(p) \/ BootStep(p)
    PROVE  Control(p)'
<1> USE DEF Control, control, Go, LockedSteps, ShareSteps, DefineSteps, ArmSteps, CleanupSteps,
            StopSteps, RemoveSteps, PurgeSteps, ReplySteps, TypeOK
<1>0. UNCHANGED holder
    BY PurgeBootFrame
<1>t. local[p].todo \in SUBSET Managed
    BY DEF Local
<1>m. \A m \in local[p].todo : /\ m.unit \in Units /\ m.marker.id \in Ids
                               /\ m.marker.owner \in Users
    BY <1>t, MarkerTypes DEF Managed
<1>1. CASE PurgeCheck(p) \/ PurgeCredentialTree(p) \/ PurgeRunTrees(p)
  <2>1. /\ pc[p] \in PurgeSteps /\ UNCHANGED task
        /\ pc'[p] \in {"purStop", "purRun", "replyOk", "replyFail"}
      BY <1>1 DEF PurgeCheck, PurgeCredentialTree, PurgeRunTrees
  <2> QED
      BY <1>0, <2>1
<1>2. ASSUME NEW m \in local[p].todo, Take(p, m)
      PROVE  /\ task'[p].op = task[p].op /\ task'[p].user = task[p].user
             /\ task'[p].unit \in Units /\ task'[p].id \in Ids
    BY <1>2, <1>m DEF Take, Task
<1>3. CASE PurgeStopNext(p)
  <2>1. /\ pc[p] = "purStop"
        /\ \/ \E m \in local[p].todo : Take(p, m) /\ pc'[p] = "stopInspect"
           \/ pc'[p] = "purRm" /\ UNCHANGED task
      BY <1>3 DEF PurgeStopNext
  <2> QED
      BY <2>1, <1>0, <1>2
<1>4. CASE PurgeRemoveNext(p)
  <2>1. /\ pc[p] = "purRm"
        /\ \/ \E m \in local[p].todo : Take(p, m) /\ pc'[p] = "rmMount"
           \/ pc'[p] = "rmReload" /\ UNCHANGED task
      BY <1>4 DEF PurgeRemoveNext
  <2> QED
      BY <2>1, <1>0, <1>2
<1>5. CASE BootEnumerate(p)
    BY <1>0, <1>5 DEF BootEnumerate
<1>6. CASE BootNext(p)
  <2>1. CASE UNCHANGED task /\ pc'[p] \in {"bootNext", "replyOk"}
      BY <1>0, <1>6, <2>1 DEF BootNext
  <2>2. ASSUME NEW m \in local[p].todo, pc'[p] = "armInspect",
               task'[p] = [op |-> "boot", user |-> m.marker.owner, unit |-> m.unit,
                           id |-> m.marker.id, auth |-> m.marker.auth]
        PROVE  Control(p)'
      BY <1>0, <1>m, <1>6, <2>2 DEF BootNext
  <2> QED
      BY <1>6, <2>1, <2>2 DEF BootNext
<1> QED
    BY <1>1, <1>3, <1>4, <1>5, <1>6 DEF PurgeStep, BootStep

\* Every step keeps the control invariant of every process.
LEMMA ControlStep ==
    ASSUME TypeOK, ControlInv, [Next]_vars
    PROVE  ControlInv'
<1> USE DEF ControlInv
<1>a. None \notin Procs
    BY LifecycleAssumption
<1>1. CASE Call
  <2> DEFINE Called(t) == /\ t \in Task
                          /\ t.op # "none"
                          /\ t.op \in {"define", "undefine", "purge"} => t.user \in Users
                          /\ t.op \in {"define", "undefine"} => t.unit \in Units
  <2>1. ASSUME NEW p \in Procs, NEW t, Called(t), Go(p, "lock"),
               task' = [task EXCEPT ![p] = t], UNCHANGED holder
        PROVE  ControlInv'
    <3>1. Control(p)'
        BY <2>1 DEF Control, Go, TypeOK, LockedSteps, ShareSteps, DefineSteps, ArmSteps,
                    CleanupSteps, StopSteps, RemoveSteps, PurgeSteps, ReplySteps
    <3>2. ASSUME NEW q \in Procs, q # p PROVE Control(q)'
        BY <2>1, <3>2 DEF Control, Go, TypeOK
    <3> QED
        BY <3>1, <3>2
  <2>2. ASSUME NEW p \in Helpers, NEW usr \in Users, NEW u \in Units, NEW a \in Requested,
               CallDefine(p, usr, u, a)
        PROVE  ControlInv'
    <3>1. Called([op |-> "define", user |-> usr, unit |-> u, id |-> None, auth |-> a])
        BY LifecycleAssumption DEF Task, Ops
    <3> HIDE DEF Called
    <3> QED
        BY <2>1, <2>2, <3>1 DEF CallDefine, Procs
  <2>3. ASSUME NEW p \in Helpers, NEW usr \in Users, NEW u \in Units, CallUndefine(p, usr, u)
        PROVE  ControlInv'
    <3>1. Called([NoTask EXCEPT !.op = "undefine", !.user = usr, !.unit = u])
        BY DEF NoTask, Task, Ops, Auths
    <3> HIDE DEF Called
    <3> QED
        BY <2>1, <2>3, <3>1 DEF CallUndefine, Procs
  <2>4. ASSUME NEW p \in Helpers, NEW usr \in Users, CallPurge(p, usr)
        PROVE  ControlInv'
    <3>1. Called([NoTask EXCEPT !.op = "purge", !.user = usr])
        BY DEF NoTask, Task, Ops, Auths
    <3> HIDE DEF Called
    <3> QED
        BY <2>1, <2>4, <3>1 DEF CallPurge, Procs
  <2>5. CASE BootStart
    <3>1. Called([NoTask EXCEPT !.op = "boot"])
        BY DEF NoTask, Task, Ops, Auths
    <3> HIDE DEF Called
    <3> QED
        BY <2>1, <2>5, <3>1 DEF BootStart, Procs
  <2> QED
      BY <1>1, <2>2, <2>3, <2>4, <2>5 DEF Call
<1>2. ASSUME NEW p \in Procs, AcquireLock(p) PROVE ControlInv'
  <2>1. ASSUME NEW q \in Procs PROVE pc[q] \notin LockedSteps
      BY <1>a, <1>2 DEF AcquireLock, Control
  <2>2. Control(p)'
      BY <1>2 DEF AcquireLock, Go, Control, TypeOK, Task, Ops, LockedSteps, ShareSteps, DefineSteps,
                  ArmSteps, CleanupSteps, StopSteps, RemoveSteps, PurgeSteps, ReplySteps
  <2>3. ASSUME NEW q \in Procs, q # p PROVE Control(q)'
      BY <1>2, <2>1, <2>3 DEF AcquireLock, Go, Control, TypeOK
  <2> QED
      BY <2>2, <2>3
<1>3. ASSUME NEW p \in Procs, NEW q \in Procs, pc'[q] = "idle", task'[q] = NoTask
      PROVE  Control(q)'
    BY <1>3 DEF Control, NoTask, LockedSteps, ShareSteps, DefineSteps, ArmSteps, CleanupSteps,
                StopSteps, RemoveSteps, PurgeSteps, ReplySteps
<1>4. ASSUME NEW p \in Procs, LockUnavailable(p) PROVE ControlInv'
  <2>1. ASSUME NEW q \in Procs, q # p PROVE Control(q)'
      BY <1>4, <2>1 DEF LockUnavailable, Forget, Go, Control, TypeOK
  <2> QED
      BY <1>3, <1>4, <2>1 DEF LockUnavailable, Forget, Go, TypeOK
<1>5. ASSUME NEW p \in Procs, Work(p) PROVE ControlInv'
  <2>1. ASSUME NEW q \in Procs, q # p PROVE Control(q)'
    <3>1. pc'[q] = pc[q] /\ task'[q] = task[q] /\ pc[q] \notin LockedSteps
        BY <1>5, <2>1, WorkFrame DEF OthersKept
    <3> QED
        BY <3>1 DEF Control
  <2>2. CASE Reply(p)
      BY <1>3, <2>1, <2>2 DEF Reply, Forget, Go, TypeOK
  <2>3. CASE DefineStep(p) \/ ArmStep(p) \/ RemoveStep(p) \/ PurgeStep(p) \/ BootStep(p)
      BY <2>1, <2>3, DefineControl, ArmControl, RemoveControl, PurgeBootControl
  <2> QED
      BY <1>5, <2>2, <2>3 DEF Work
<1>6. CASE Environment
  <2>1. CASE Reboot
      BY <1>3, <2>1 DEF Reboot
  <2>2. ASSUME NEW p \in Procs, Crash(p) PROVE ControlInv'
    <3>1. ASSUME NEW q \in Procs, q # p PROVE Control(q)'
        BY <2>2, <3>1 DEF Crash, Forget, Go, Control, TypeOK
    <3> QED
        BY <1>3, <2>2, <3>1 DEF Crash, Forget, Go, TypeOK
  <2>3. CASE UNCHANGED <<pc, task, holder>>
      BY <2>3 DEF Control
  <2> QED
      BY <1>6, <2>1, <2>2, <2>3
      DEF Environment, AccessPath, IdleUnmount, HandStart, HandStop, HandMount, HandUnmount,
          LateStart, control
<1>7. CASE UNCHANGED vars
    BY <1>7 DEF Control, vars, control
<1> QED
    BY <1>1, <1>2, <1>4, <1>5, <1>6, <1>7 DEF Next

-----------------------------------------------------------------------------
(* A secret stays indexed by its definition.                               *)

\* Only what is about to be written or removed matters: the files of one unit,
\* while the credential it may index is gone or another half keeps it.
LEMMA DefineKeeps ==
    ASSUME TypeOK, NEW p \in Procs, Control(p), Knows(p), SecretIndexed, DefineStep(p)
    PROVE  Knows(p)' /\ SecretIndexed'
<1> USE DEF control, Go, DefineSteps, ArmSteps, CleanupSteps, StopSteps, RemoveSteps,
            ReplySteps, TypeOK, UnitOf
<1> DEFINE u == UnitOf(p)
<1>op. task[p].op = "define" /\ u \in Units
    BY DEF DefineStep, DefineRefuse, DefineCheck, WriteMountUnit, WriteAutomountUnit, WriteCredential,
           AssertNoCredential, DefineReload, CleanupCredential, CleanupAutomount, CleanupMount,
           CleanupRecord, CleanupReload, Control
<1>id. pc[p] # "define" => task[p].id \in Ids /\ MarkerOf(p) \in Marker
    BY DEF DefineStep, DefineRefuse, DefineCheck, WriteMountUnit, WriteAutomountUnit, WriteCredential,
           AssertNoCredential, DefineReload, CleanupCredential, CleanupAutomount, CleanupMount,
           CleanupRecord, CleanupReload, Control, ShareSteps, MarkerOf, Marker, Task
<1>1. CASE DefineRefuse(p)
  <2>1. Knows(p)'
      BY <1>1, <1>op DEF DefineRefuse, Knows, DefineKnows, RemovalKnows
  <2>2. SecretIndexed'
      BY <1>1 DEF DefineRefuse, SecretIndexed, HalfClaims
  <2> QED
      BY <2>1, <2>2
<1>2. CASE DefineCheck(p)
  <2>1. PICK i \in Ids \ IdsInUse : task' = [task EXCEPT ![p].id = i]
      BY <1>2 DEF DefineCheck
  <2>2. task'[p].op = "define" /\ task'[p].unit = u /\ task'[p].id = i
      BY <2>1, <1>op DEF Task
  <2>3. mountUnit[u] = None /\ automountUnit[u] = None /\ i \notin creds
      BY <1>2, <1>op, Inspected DEF DefineCheck, IdsInUse
  <2>4. Knows(p)'
      BY <1>2, <2>2, <2>3 DEF DefineCheck, Knows, DefineKnows, RemovalKnows
  <2>5. SecretIndexed'
      BY <1>2 DEF DefineCheck, SecretIndexed, HalfClaims
  <2> QED
      BY <2>4, <2>5
<1>m. None \notin Marker
    BY SentinelsDistinct
<1>3. CASE WriteMountUnit(p)
  <2>1. mountUnit[u] = None /\ automountUnit[u] = None
      BY <1>3, <1>op DEF WriteMountUnit, Knows, DefineKnows
  <2>2. /\ mountUnit' \in {mountUnit, [mountUnit EXCEPT ![u] = MarkerOf(p)]}
        /\ pc'[p] = "wrAutomount" => mountUnit'[u] = MarkerOf(p)
        /\ pc'[p] \in {"wrAutomount", "clCred"}
        /\ local'[p].made = local[p].made \cup {"mount"}
        /\ UNCHANGED <<automountUnit, creds, task, purgeOpen>>
      BY <1>3, <1>op DEF WriteMountUnit, Local
  <2>3. MarkerOf(p)' = MarkerOf(p)
      BY <2>2 DEF MarkerOf
  <2>4. Knows(p)'
      BY <1>3, <1>op, <2>1, <2>2, <2>3 DEF WriteMountUnit, Knows, DefineKnows, RemovalKnows
  <2>5. SecretIndexed'
      BY <1>op, <1>m, <2>1, <2>2 DEF SecretIndexed, HalfClaims
  <2> QED
      BY <2>4, <2>5
<1>4. CASE WriteAutomountUnit(p)
  <2>1. mountUnit[u] = MarkerOf(p) /\ automountUnit[u] = None
      BY <1>4, <1>op DEF WriteAutomountUnit, Knows, DefineKnows
  <2>2. /\ automountUnit' \in {automountUnit, [automountUnit EXCEPT ![u] = MarkerOf(p)]}
        /\ pc'[p] \in {"wrCred", "clCred"}
        /\ local'[p].made = local[p].made \cup {"automount"}
        /\ UNCHANGED <<mountUnit, creds, task, purgeOpen>>
      BY <1>4, <1>op DEF WriteAutomountUnit, Local
  <2>3. MarkerOf(p)' = MarkerOf(p)
      BY <2>2 DEF MarkerOf
  <2>4. Knows(p)'
      BY <1>4, <1>op, <2>1, <2>2, <2>3 DEF WriteAutomountUnit, Knows, DefineKnows, RemovalKnows
  <2>5. SecretIndexed'
      BY <1>op, <1>m, <2>1, <2>2 DEF SecretIndexed, HalfClaims
  <2> QED
      BY <2>4, <2>5
<1>5. CASE WriteCredential(p)
  <2>1. mountUnit[u] = MarkerOf(p)
      BY <1>5, <1>op DEF WriteCredential, Knows, DefineKnows
  <2>2. /\ creds' \subseteq creds \cup {task[p].id}
        /\ pc'[p] \in {"reload", "clCred"}
        /\ local'[p].made = local[p].made \cup {"cred"}
        /\ UNCHANGED <<mountUnit, automountUnit, task, purgeOpen>>
    <3>1. local'[p].made = local[p].made \cup {"cred"}
        BY <1>5 DEF WriteCredential, Local
    <3> QED
        BY <1>5, <3>1 DEF WriteCredential
  <2>3. MarkerOf(p)' = MarkerOf(p)
      BY <2>2 DEF MarkerOf
  <2>4. Knows(p)'
      BY <1>5, <1>op, <2>2, <2>3 DEF WriteCredential, Knows, DefineKnows, RemovalKnows
  <2>5. MarkerOf(p) \in Marker /\ MarkerOf(p).id = task[p].id
      BY <1>5, <1>id DEF WriteCredential, MarkerOf
  <2>6. SecretIndexed'
      BY <1>op, <2>1, <2>2, <2>5 DEF SecretIndexed, HalfClaims
  <2> QED
      BY <2>4, <2>6
<1>6. CASE AssertNoCredential(p) \/ DefineReload(p)
  <2>1. /\ pc[p] \in {"wrCred", "reload"} /\ pc'[p] \in {"reload", "armInspect", "clCred"}
        /\ UNCHANGED <<mountUnit, automountUnit, creds, task, local, purgeOpen>>
      BY <1>6 DEF AssertNoCredential, DefineReload, disk
  <2>2. MarkerOf(p)' = MarkerOf(p)
      BY <2>1 DEF MarkerOf
  <2>3. Knows(p)'
      BY <1>op, <2>1, <2>2 DEF Knows, DefineKnows, RemovalKnows
  <2>4. SecretIndexed'
      BY <2>1 DEF SecretIndexed, HalfClaims
  <2> QED
      BY <2>3, <2>4
<1>7. CASE CleanupCredential(p)
  <2>1. /\ creds' \subseteq creds
        /\ UNCHANGED <<mountUnit, automountUnit, task, purgeOpen>>
        /\ \/ /\ pc'[p] = "clAutomount" /\ UNCHANGED local
              /\ "cred" \in local[p].made => task[p].id \notin creds'
           \/ pc'[p] = "clRec"
      BY <1>7 DEF CleanupCredential
  <2>2. MarkerOf(p)' = MarkerOf(p)
      BY <2>1 DEF MarkerOf
  <2>3. Knows(p)'
      BY <1>7, <1>op, <2>1, <2>2 DEF CleanupCredential, Knows, DefineKnows, RemovalKnows
  <2>4. SecretIndexed'
      BY <2>1 DEF SecretIndexed, HalfClaims
  <2> QED
      BY <2>3, <2>4
<1>8. CASE CleanupAutomount(p)
  <2>1. /\ task[p].id \notin creds
        /\ "automount" \in local[p].made => automountUnit[u] \in {None, MarkerOf(p)}
      BY <1>8, <1>op DEF CleanupAutomount, Knows, DefineKnows
  <2>2. /\ \/ UNCHANGED automountUnit
           \/ "automount" \in local[p].made /\ automountUnit' = [automountUnit EXCEPT ![u] = None]
        /\ pc[p] = "clAutomount" /\ pc'[p] = "clMount"
        /\ UNCHANGED <<mountUnit, creds, task, local, purgeOpen>>
      BY <1>8 DEF CleanupAutomount
  <2>3. MarkerOf(p)' = MarkerOf(p) /\ MarkerOf(p).id = task[p].id
      BY <2>2 DEF MarkerOf
  <2>4. Knows(p)'
      BY <1>op, <2>2, <2>3 DEF Knows, DefineKnows, RemovalKnows
  <2>5. SecretIndexed'
      BY <1>op, <1>m, <2>1, <2>2, <2>3 DEF SecretIndexed, HalfClaims
  <2> QED
      BY <2>4, <2>5
<1>9. CASE CleanupMount(p)
  <2>1. /\ task[p].id \notin creds
        /\ "mount" \in local[p].made => mountUnit[u] \in {None, MarkerOf(p)}
      BY <1>9, <1>op DEF CleanupMount, Knows, DefineKnows
  <2>2. /\ \/ UNCHANGED mountUnit
           \/ "mount" \in local[p].made /\ mountUnit' = [mountUnit EXCEPT ![u] = None]
        /\ pc[p] = "clMount" /\ pc'[p] = "clRec"
        /\ UNCHANGED <<automountUnit, creds, task, local, purgeOpen>>
      BY <1>9 DEF CleanupMount
  <2>3. MarkerOf(p).id = task[p].id
      BY DEF MarkerOf
  <2>4. Knows(p)'
      BY <1>op, <2>2 DEF Knows, DefineKnows, RemovalKnows
  <2>5. SecretIndexed'
      BY <1>op, <1>m, <2>1, <2>2, <2>3 DEF SecretIndexed, HalfClaims
  <2> QED
      BY <2>4, <2>5
<1>10. CASE CleanupRecord(p) \/ CleanupReload(p)
  <2>1. /\ pc'[p] \in {"clReload", "replyFail"}
        /\ UNCHANGED <<mountUnit, automountUnit, creds, task, local, purgeOpen>>
      BY <1>10 DEF CleanupRecord, CleanupReload, disk
  <2>2. Knows(p)'
      BY <1>op, <2>1 DEF Knows, DefineKnows, RemovalKnows
  <2>3. SecretIndexed'
      BY <2>1 DEF SecretIndexed, HalfClaims
  <2> QED
      BY <2>2, <2>3
<1> QED
    BY <1>1, <1>2, <1>3, <1>4, <1>5, <1>6, <1>7, <1>8, <1>9, <1>10 DEF DefineStep

\* Arming touches neither unit files nor credentials, so define is as right
\* after it as before.
LEMMA ArmKeeps ==
    ASSUME TypeOK, NEW p \in Procs, Control(p), Knows(p), SecretIndexed, ArmStep(p)
    PROVE  Knows(p)' /\ SecretIndexed'
<1> USE DEF control, disk, Go, ArmSteps, CleanupSteps, DefineSteps, StopSteps, RemoveSteps,
            ReplySteps, TypeOK
<1>1. pc[p] \in ArmSteps /\ UNCHANGED <<task, purgeOpen>>
    BY ArmFrame
<1>2. /\ UNCHANGED <<mountUnit, automountUnit, creds>>
      /\ local'[p].made = local[p].made
      /\ pc'[p] \in ArmSteps \cup {"clCred", "replyOk", "replyFail", "bootNext"}
  <2> USE DEF ArmSucceeds, Local
  <2>1. CASE ArmInspect(p) \/ ArmTrust(p)
      BY <2>1 DEF ArmInspect, ArmTrust
  <2>2. CASE ArmCredential(p) \/ ArmWalk(p) \/ ArmStart(p) \/ ArmStartFails(p)
      BY <2>2 DEF ArmCredential, ArmWalk, ArmStart, ArmStartFails
  <2>3. CASE ArmRecheck(p) \/ ArmFailId(p) \/ ArmId(p)
      BY <2>3 DEF ArmRecheck, ArmFailId, ArmId
  <2>4. CASE ArmRecord(p) \/ CompensateCheck(p)
      BY <2>4 DEF ArmRecord, CompensateCheck
  <2>5. CASE CompensateStop(p) \/ CompensateRecord(p)
      BY <2>5 DEF CompensateStop, CompensateRecord
  <2>6. CASE ArmFailed(p)
      BY <2>6 DEF ArmFailed
  <2> QED
      BY <2>1, <2>2, <2>3, <2>4, <2>5, <2>6 DEF ArmStep
<1>3. MarkerOf(p)' = MarkerOf(p) /\ UnitOf(p)' = UnitOf(p)
    BY <1>1 DEF MarkerOf, UnitOf
<1>4. task[p].op \in {"define", "boot"}
    BY <1>1 DEF Control
<1>5. Knows(p)'
    BY <1>1, <1>2, <1>3, <1>4 DEF Knows, DefineKnows, RemovalKnows
<1>6. SecretIndexed'
    BY <1>1, <1>2 DEF SecretIndexed, HalfClaims
<1> QED
    BY <1>5, <1>6

\* A removal takes the credential before the halves that name it.
LEMMA RemoveKeeps ==
    ASSUME TypeOK, NEW p \in Procs, Control(p), Knows(p), SecretIndexed, RemoveStep(p)
    PROVE  Knows(p)' /\ SecretIndexed'
<1> USE DEF control, disk, Go, StopSteps, RemoveSteps, ReplySteps, TypeOK, UnitOf
<1> DEFINE u == UnitOf(p)
<1>0. UNCHANGED purgeOpen
    BY RemoveFrame
<1>1. CASE UndefineCheck(p)
  <2> DEFINE marker == definitionMarker(mountUnit[u], automountUnit[u])
  <2>1. CASE pc'[p] = "replyFail" /\ UNCHANGED task
    <3>1. Knows(p)'
        BY <1>1, <2>1 DEF UndefineCheck, Control, Knows, DefineKnows, RemovalKnows
    <3>2. SecretIndexed'
        BY <1>0, <1>1 DEF UndefineCheck, SecretIndexed, HalfClaims
    <3> QED
        BY <3>1, <3>2
  <2>2. CASE /\ inspectDefinition(mountUnit[u], automountUnit[u], task[p].user) \in {"Pair", "Partial"}
             /\ task' = [task EXCEPT ![p].id = marker.id]
             /\ Go(p, "stopInspect")
    <3>1. task[p].op = "undefine" /\ u \in Units
        BY <1>1 DEF UndefineCheck, Control
    <3>2. marker \in Marker /\ mountUnit[u] \in {None, marker} /\ automountUnit[u] \in {None, marker}
        BY <2>2, <3>1, Inspected
    <3>3. task'[p].op = "undefine" /\ task'[p].unit = u /\ task'[p].id = marker.id
        BY <2>2, <3>1 DEF Task
    <3> HIDE DEF marker
    <3>4. Knows(p)'
        BY <1>1, <2>2, <3>2, <3>3, SentinelsDistinct
        DEF UndefineCheck, Knows, DefineKnows, RemovalKnows
    <3>5. SecretIndexed'
        BY <1>0, <1>1 DEF UndefineCheck, SecretIndexed, HalfClaims
    <3> QED
        BY <3>4, <3>5
  <2> QED
      BY <1>1, <2>1, <2>2 DEF UndefineCheck
<1>2. CASE StopInspect(p) \/ StopTrust(p) \/ StopMount(p) \/ StopAutomount(p)
  <2>1. /\ pc[p] \in StopSteps
        /\ pc'[p] \in StopSteps \cup {"replyFail", "rmCred", "purStop"}
        /\ pc'[p] = "rmCred" => task[p].op = "undefine"
        /\ UNCHANGED <<mountUnit, automountUnit, creds, task>>
      BY <1>2 DEF StopInspect, StopTrust, StopMount, StopAutomount, StopDone
  <2>2. task[p].op \in {"undefine", "purge"}
      BY <2>1 DEF Control
  <2>3. Knows(p)'
      BY <1>0, <2>1, <2>2 DEF Knows, DefineKnows, RemovalKnows
  <2>4. SecretIndexed'
      BY <1>0, <2>1 DEF SecretIndexed, HalfClaims
  <2> QED
      BY <2>3, <2>4
<1>3. CASE \/ RemoveCredential(p) \/ RemoveMountUnit(p) \/ RemoveAutomountUnit(p)
           \/ RemoveRecord(p) \/ RemoveReload(p)
  <2>1. pc[p] \in RemoveSteps /\ UNCHANGED task /\ creds' \subseteq creds
      BY <1>3 DEF RemoveCredential, RemoveMountUnit, RemoveAutomountUnit, RemoveRecord, RemoveReload
  <2>2. CASE task[p].op = "purge"
    <3>1. purgeOpen /\ purgeOpen'
        BY <1>0, <2>1, <2>2 DEF Knows, RemovalKnows
    <3> QED
        BY <2>1, <2>2, <3>1 DEF Knows, DefineKnows, RemovalKnows, SecretIndexed
  <2>3. CASE task[p].op = "undefine"
    <3>u. pc[p] # "rmReload" => u \in Units
        BY <2>1 DEF Control, ShareSteps
    <3>1. CASE RemoveCredential(p)
      <4>1. /\ pc'[p] = "rmMount" => task[p].id \notin creds'
            /\ pc'[p] \in {"rmMount", "replyFail"}
            /\ UNCHANGED <<mountUnit, automountUnit>>
          BY <2>3, <3>1 DEF RemoveCredential, AfterRemoval
      <4>2. Knows(p)'
          BY <2>1, <2>3, <3>1, <4>1 DEF RemoveCredential, Knows, DefineKnows, RemovalKnows
      <4>3. SecretIndexed'
          BY <1>0, <2>1, <4>1 DEF SecretIndexed, HalfClaims
      <4> QED
          BY <4>2, <4>3
    <3>2. CASE RemoveMountUnit(p)
      <4>1. /\ task[p].id \notin creds
            /\ mountUnit[u] \in Marker => mountUnit[u].id = task[p].id
          BY <2>3, <3>2 DEF RemoveMountUnit, Knows, RemovalKnows
      <4>2. /\ mountUnit' \in {mountUnit, [mountUnit EXCEPT ![u] = None]}
            /\ pc'[p] \in {"rmAutomount", "replyFail"}
            /\ UNCHANGED <<automountUnit, creds>>
          BY <2>3, <3>2 DEF RemoveMountUnit, AfterRemoval
      <4>3. Knows(p)'
          BY <2>1, <2>3, <3>2, <3>u, <4>1, <4>2, SentinelsDistinct
          DEF RemoveMountUnit, Knows, DefineKnows, RemovalKnows
      <4>4. SecretIndexed'
          BY <1>0, <3>2, <3>u, <4>1, <4>2 DEF RemoveMountUnit, SecretIndexed, HalfClaims
      <4> QED
          BY <4>3, <4>4
    <3>3. CASE RemoveAutomountUnit(p)
      <4>1. /\ task[p].id \notin creds
            /\ automountUnit[u] \in Marker => automountUnit[u].id = task[p].id
          BY <2>3, <3>3 DEF RemoveAutomountUnit, Knows, RemovalKnows
      <4>2. /\ automountUnit' \in {automountUnit, [automountUnit EXCEPT ![u] = None]}
            /\ pc'[p] \in {"rmRec", "replyFail"}
            /\ UNCHANGED <<mountUnit, creds>>
          BY <2>3, <3>3 DEF RemoveAutomountUnit, AfterRemoval
      <4>3. Knows(p)'
          BY <2>1, <2>3, <4>2 DEF Knows, DefineKnows, RemovalKnows
      <4>4. SecretIndexed'
          BY <1>0, <3>3, <3>u, <4>1, <4>2 DEF RemoveAutomountUnit, SecretIndexed, HalfClaims
      <4> QED
          BY <4>3, <4>4
    <3>4. CASE RemoveRecord(p) \/ RemoveReload(p)
      <4>1. /\ pc'[p] \in {"rmReload", "replyOk", "replyFail"}
            /\ UNCHANGED <<mountUnit, automountUnit, creds>>
          BY <2>3, <3>4 DEF RemoveRecord, RemoveReload, AfterRemoval
      <4>2. Knows(p)'
          BY <2>1, <2>3, <4>1 DEF Knows, DefineKnows, RemovalKnows
      <4>3. SecretIndexed'
          BY <1>0, <4>1 DEF SecretIndexed, HalfClaims
      <4> QED
          BY <4>2, <4>3
    <3> QED
        BY <1>3, <3>1, <3>2, <3>3, <3>4
  <2> QED
      BY <2>1, <2>2, <2>3 DEF Control
<1> QED
    BY <1>1, <1>2, <1>3 DEF RemoveStep

\* Choosing the next share of a plan does not change what the call is.
LEMMA TakeKeepsOp ==
    ASSUME TypeOK, NEW p \in Procs, NEW m, Take(p, m)
    PROVE  task'[p].op = task[p].op
<1> DEFINE t == task[p]
<1>1. t \in Task /\ task'[p] = [t EXCEPT !.unit = m.unit, !.id = m.marker.id]
    BY DEF Take, TypeOK
<1> HIDE DEF t
<1>2. [t EXCEPT !.unit = m.unit, !.id = m.marker.id].op = t.op
    BY <1>1 DEF Task
<1> QED
    BY <1>1, <1>2 DEF t

\* Boot changes no file the invariant speaks of; purge deletes only after it
\* has declared so.
LEMMA PurgeBootKeeps ==
    ASSUME TypeOK, NEW p \in Procs, Control(p), Control(p)', Knows(p), SecretIndexed,
           PurgeStep(p) \/ BootStep(p)
    PROVE  Knows(p)' /\ SecretIndexed'
<1> USE DEF control, disk, Go, PurgeSteps, ReplySteps, StopSteps, RemoveSteps, TypeOK
<1>1. CASE BootStep(p)
  <2>1. /\ task'[p].op = "boot"
        /\ UNCHANGED <<mountUnit, automountUnit, creds, purgeOpen>>
    <3>1. CASE BootEnumerate(p)
        BY <3>1 DEF BootEnumerate, Control
    <3>2. CASE BootNext(p)
      <4>1. task[p].op = "boot" /\ UNCHANGED <<mountUnit, automountUnit, creds, purgeOpen>>
          BY <3>2 DEF BootNext, Control
      <4>2. \/ UNCHANGED task
            \/ \E m : task' = [task EXCEPT ![p] = [op |-> "boot", user |-> m.marker.owner,
                                                   unit |-> m.unit, id |-> m.marker.id,
                                                   auth |-> m.marker.auth]]
          BY <3>2 DEF BootNext
      <4> QED
          BY <4>1, <4>2
    <3> QED
        BY <1>1, <3>1, <3>2 DEF BootStep
  <2>2. Knows(p)'
      BY <2>1 DEF Knows, DefineKnows, RemovalKnows
  <2>3. SecretIndexed'
      BY <2>1 DEF SecretIndexed, HalfClaims
  <2> QED
      BY <2>2, <2>3
<1>2. CASE PurgeStep(p)
  <2>1. task'[p].op = "purge" /\ UNCHANGED <<mountUnit, automountUnit>> /\ creds' \subseteq creds
    <3>1. task[p].op = "purge"
        BY <1>2 DEF PurgeStep, PurgeCheck, PurgeStopNext, PurgeRemoveNext, PurgeCredentialTree,
                    PurgeRunTrees, Control
    <3>2. CASE PurgeCheck(p) \/ PurgeCredentialTree(p) \/ PurgeRunTrees(p)
        BY <3>1, <3>2 DEF PurgeCheck, PurgeCredentialTree, PurgeRunTrees
    <3>3. CASE PurgeStopNext(p) \/ PurgeRemoveNext(p)
      <4>1. UNCHANGED task \/ \E m \in local[p].todo : Take(p, m)
          BY <3>3 DEF PurgeStopNext, PurgeRemoveNext
      <4>2. task'[p].op = task[p].op
          BY <4>1, TakeKeepsOp
      <4> QED
          BY <3>1, <3>3, <4>2 DEF PurgeStopNext, PurgeRemoveNext
    <3> QED
        BY <1>2, <3>2, <3>3 DEF PurgeStep
  <2>2. /\ pc'[p] \in RemoveSteps \cup {"purRm", "purEtc"} => purgeOpen'
        /\ purgeOpen /\ ~purgeOpen' => creds' = {}
      BY <1>2, <2>1 DEF PurgeStep, PurgeCheck, PurgeStopNext, PurgeRemoveNext,
                        PurgeCredentialTree, PurgeRunTrees, Knows, RemovalKnows, Control
  <2>3. Knows(p)'
      BY <2>1, <2>2 DEF Knows, DefineKnows, RemovalKnows
  <2>4. SecretIndexed'
      BY <2>1, <2>2 DEF SecretIndexed, HalfClaims
  <2> QED
      BY <2>3, <2>4
<1> QED
    BY <1>1, <1>2

\* SecretInv is inductive: the process that moves holds the lock, so what the
\* others know is not disturbed.
LEMMA SecretStep == SecretInv /\ [Next]_vars => SecretInv'
<1> SUFFICES ASSUME SecretInv, [Next]_vars PROVE SecretInv'
    OBVIOUS
<1>inv. TypeOK /\ ControlInv /\ (\A p \in Procs : Knows(p)) /\ SecretIndexed
    BY DEF SecretInv
<1>next. TypeOK' /\ ControlInv'
    BY <1>inv, TypeStep, ControlStep
\* A process outside the lock claims to know nothing.
<1>out. ASSUME NEW q \in Procs, pc'[q] \notin LockedSteps PROVE Knows(q)'
    BY <1>out DEF Knows, DefineKnows, RemovalKnows, LockedSteps, DefineSteps, ArmSteps,
                  CleanupSteps, StopSteps, RemoveSteps, PurgeSteps, ReplySteps
<1>1. ASSUME NEW p \in Procs, Work(p)
      PROVE  (\A q \in Procs : Knows(q)') /\ SecretIndexed'
  <2>1. ASSUME NEW q \in Procs, q # p PROVE Knows(q)'
      BY <1>inv, <1>out, <1>1, <2>1, WorkFrame DEF OthersKept
  <2>2. CASE Reply(p)
    <3>1. /\ pc'[p] = "idle"
          /\ UNCHANGED <<mountUnit, automountUnit, creds, purgeOpen>>
        BY <1>inv, <2>2 DEF Reply, Go, TypeOK, disk
    <3>2. Knows(p)'
        BY <3>1, <1>out DEF LockedSteps, DefineSteps, ArmSteps, CleanupSteps, StopSteps,
                            RemoveSteps, PurgeSteps, ReplySteps
    <3> QED
        BY <1>inv, <2>1, <3>1, <3>2 DEF SecretIndexed, HalfClaims
  <2>3. CASE DefineStep(p) \/ ArmStep(p) \/ RemoveStep(p) \/ PurgeStep(p) \/ BootStep(p)
    <3>1. Knows(p)' /\ SecretIndexed'
        BY <1>inv, <1>next, <2>3, DefineKeeps, ArmKeeps, RemoveKeeps, PurgeBootKeeps DEF ControlInv
    <3> QED
        BY <2>1, <3>1
  <2> QED
      BY <1>1, <2>2, <2>3 DEF Work
<1>2. CASE Call \/ (\E p \in Procs : AcquireLock(p) \/ LockUnavailable(p)) \/ Environment \/ UNCHANGED vars
  <2>1. UNCHANGED <<mountUnit, automountUnit, creds, purgeOpen>>
      BY <1>2 DEF Call, CallDefine, CallUndefine, CallPurge, BootStart, AcquireLock, LockUnavailable,
                  Environment, Reboot, Crash, AccessPath, IdleUnmount, HandStart, HandStop,
                  HandMount, HandUnmount, LateStart, disk, control, vars
  <2>2. SecretIndexed'
      BY <1>inv, <2>1 DEF SecretIndexed, HalfClaims
  <2>3. ASSUME NEW q \in Procs PROVE Knows(q)'
    <3> DEFINE Starts == pc'[q] \in {"idle", "lock", "define", "undefine", "purge", "boot"}
               Stays == pc'[q] = pc[q] /\ task'[q] = task[q] /\ local'[q] = local[q]
    <3>1. Starts \/ Stays
      <4> USE <1>inv DEF TypeOK, Go
      <4>1. CASE Call
          BY <4>1 DEF Call, CallDefine, CallUndefine, CallPurge, BootStart, Procs
      <4>2. ASSUME NEW p \in Procs, AcquireLock(p) \/ LockUnavailable(p) \/ Crash(p)
            PROVE  Starts \/ Stays
          BY <4>2 DEF AcquireLock, LockUnavailable, Crash, Forget, Task, Ops, ControlInv, Control
      <4>3. CASE Reboot
          BY <4>3 DEF Reboot
      <4>4. CASE UNCHANGED <<pc, task, local>>
          BY <4>4
      <4> QED
          BY <1>2, <4>1, <4>2, <4>3, <4>4
          DEF Environment, AccessPath, IdleUnmount, HandStart, HandStop, HandMount, HandUnmount,
              LateStart, vars, control
    <3>2. CASE Starts
        BY <3>2 DEF Knows, DefineKnows, RemovalKnows, DefineSteps, ArmSteps, StopSteps, RemoveSteps
    <3>3. CASE Stays
      <4>1. MarkerOf(q)' = MarkerOf(q) /\ UnitOf(q)' = UnitOf(q)
          BY <3>3 DEF MarkerOf, UnitOf
      <4> QED
          BY <1>inv, <2>1, <3>3, <4>1 DEF Knows, DefineKnows, RemovalKnows
    <3> QED
        BY <3>1, <3>2, <3>3
  <2> QED
      BY <1>next, <2>2, <2>3 DEF SecretInv
<1> QED
    BY <1>next, <1>1, <1>2 DEF Next, SecretInv

\* SecretInv holds before anything was defined.
LEMMA SecretInit == Init => SecretInv
<1> SUFFICES ASSUME Init PROVE SecretInv
    OBVIOUS
<1>1. TypeOK
    BY InitType
<1>2. ControlInv
    BY DEF Init, ControlInv, Control, NoTask, LockedSteps, ShareSteps, DefineSteps, ArmSteps,
           CleanupSteps, StopSteps, RemoveSteps, PurgeSteps, ReplySteps
<1>3. \A p \in Procs : Knows(p)
    BY DEF Init, Knows, DefineKnows, RemovalKnows, NoTask
<1>4. SecretIndexed
    BY DEF Init, SecretIndexed
<1> QED
    BY <1>1, <1>2, <1>3, <1>4 DEF SecretInv

\* The invariant of helper, boot and their environment: types, the root lock's
\* discipline and what each call knows about the files it is about to touch.
THEOREM SecretInvariant == Spec => []SecretInv
    BY SecretInit, SecretStep, PTL DEF Spec

\* Every variable keeps its type in every behaviour of the system.
THEOREM TypeCorrect == Spec => []TypeOK
<1>1. SecretInv => TypeOK
    BY DEF SecretInv
<1> QED
    BY <1>1, SecretInvariant, PTL

\* A credential file is named by a unit half on disk at every moment, whatever
\* fails, crashes or restarts, unless a purge was cut short (operations.cpp).
THEOREM SecretsIndexed == Spec => []SecretIndexed
<1>1. SecretInv => SecretIndexed
    BY DEF SecretInv
<1> QED
    BY <1>1, SecretInvariant, PTL
=============================================================================
