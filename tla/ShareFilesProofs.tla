---------------------------- MODULE ShareFilesProofs ----------------------------
(***************************************************************************)
(* What the privileged operations keep of the unit files: ids are unique,  *)
(* definitions are written once and removed only by their owner.           *)
(***************************************************************************)
EXTENDS ShareLifecycleProofs

-----------------------------------------------------------------------------
(* Steps outside the locked part of the calls.                             *)

AtStart == {"idle", "lock", "define", "undefine", "purge", "boot"}

Outside == Call \/ (\E p \in Procs : AcquireLock(p) \/ LockUnavailable(p)) \/ Environment \/ UNCHANGED vars

\* Calls, crashes, reboots, users and administrators touch no file; they leave
\* a call alone or put it back to its start.
LEMMA OutsideFrame ==
    ASSUME TypeOK, ControlInv, Outside
    PROVE  /\ UNCHANGED <<mountUnit, automountUnit, creds, purgeOpen>>
           /\ \A q \in Procs :
                 \/ pc'[q] \in AtStart
                 \/ /\ pc'[q] = pc[q] /\ task'[q] = task[q] /\ local'[q] = local[q]
                    /\ UNCHANGED idRec
                    /\ pc[q] \in LockedSteps => UNCHANGED tempSecret
<1>1. UNCHANGED <<mountUnit, automountUnit, creds, purgeOpen>>
    BY DEF Outside, Call, CallDefine, CallUndefine, CallPurge, BootStart, AcquireLock, LockUnavailable,
           Environment, Reboot, Crash, AccessPath, IdleUnmount, HandStart, HandStop,
           HandMount, HandUnmount, LateStart, disk, control, vars
<1>2. ASSUME NEW q \in Procs
      PROVE  \/ pc'[q] \in AtStart
             \/ /\ pc'[q] = pc[q] /\ task'[q] = task[q] /\ local'[q] = local[q]
                /\ UNCHANGED idRec
                /\ pc[q] \in LockedSteps => UNCHANGED tempSecret
  <2> USE DEF TypeOK, Go, AtStart
  <2>1. CASE Call
      BY <2>1 DEF Call, CallDefine, CallUndefine, CallPurge, BootStart, Procs, disk
  <2>2. ASSUME NEW p \in Procs, AcquireLock(p) \/ LockUnavailable(p)
        PROVE  \/ pc'[q] \in AtStart
               \/ /\ pc'[q] = pc[q] /\ task'[q] = task[q] /\ local'[q] = local[q]
                  /\ UNCHANGED <<idRec, tempSecret>>
      BY <2>2 DEF AcquireLock, LockUnavailable, Forget, Task, Ops, ControlInv, Control, disk
  <2>3. CASE Reboot
      BY <2>3 DEF Reboot
  <2>4. ASSUME NEW p \in Procs, Crash(p)
        PROVE  \/ pc'[q] \in AtStart
               \/ /\ pc'[q] = pc[q] /\ task'[q] = task[q] /\ local'[q] = local[q]
                  /\ UNCHANGED idRec
                  /\ pc[q] \in LockedSteps => UNCHANGED tempSecret
    <3>1. CASE q = p
        BY <2>4, <3>1 DEF Crash
    <3>2. CASE q # p
      <4>1. pc'[q] = pc[q] /\ task'[q] = task[q] /\ local'[q] = local[q] /\ UNCHANGED idRec
          BY <2>4, <3>2 DEF Crash, Forget
      <4>2. pc[q] \in LockedSteps => pc[p] # "wrCred"
          BY <3>2 DEF ControlInv, Control, LockedSteps, DefineSteps
      <4>3. pc[q] \in LockedSteps => UNCHANGED tempSecret
          BY <2>4, <4>2 DEF Crash, WritesSecret
      <4> QED
          BY <4>1, <4>3
    <3> QED
        BY <3>1, <3>2
  <2>5. CASE UNCHANGED <<pc, task, local, idRec, tempSecret>>
      BY <2>5
  <2> QED
      BY <2>1, <2>2, <2>3, <2>4, <2>5
      DEF Outside, Environment, AccessPath, IdleUnmount, HandStart, HandStop, HandMount, HandUnmount,
          LateStart, vars, control, disk
<1> QED
    BY <1>1, <1>2

\* A call that is not past the start of its locked part claims to know nothing.
LEMMA FilesUnknown ==
    ASSUME NEW q \in Procs, pc'[q] \notin LockedSteps \/ pc'[q] \in AtStart
    PROVE  FilesKnown(q)'
BY DEF FilesKnown, DefineFiles, BootFiles, UndefineFiles, PurgeFiles, AtStart, LockedSteps,
       DefineSteps, ArmSteps, CleanupSteps, StopSteps, RemoveSteps, PurgeSteps, ReplySteps, ShareSteps

\* What is known depends on the files and on the call's own variables.
LEMMA FilesStay ==
    ASSUME NEW q \in Procs, FilesKnown(q), pc[q] \in LockedSteps,
           UNCHANGED <<mountUnit, automountUnit, creds, idRec, tempSecret>>,
           pc'[q] = pc[q], task'[q] = task[q], local'[q] = local[q]
    PROVE  FilesKnown(q)'
BY DEF FilesKnown, DefineFiles, BootFiles, UndefineFiles, PurgeFiles, Halves, Claimed, HalfClaims,
       Complete, MarkerOf, UnitOf

-----------------------------------------------------------------------------
(* The steps of the calls.                                                 *)

\* definesystem writes over nothing, under an id nobody has, and its cleanup
\* takes only its own.
LEMMA DefineFilesStep ==
    ASSUME FilesInv, NEW p \in Procs, DefineStep(p)
    PROVE  FilesKnown(p)' /\ IdsUnique'
<1>inv. TypeOK /\ Control(p) /\ Knows(p) /\ IdsUnique /\ FilesKnown(p)
    BY DEF FilesInv, SecretInv, ControlInv
<1> USE <1>inv DEF control, disk, Go, DefineSteps, ArmSteps, CleanupSteps, ReplySteps, TypeOK, UnitOf
<1> DEFINE u == UnitOf(p)
<1>op. task[p].op = "define" /\ u \in Units
    BY DEF DefineStep, DefineRefuse, DefineCheck, WriteMountUnit, WriteAutomountUnit, WriteCredential,
           AssertNoCredential, DefineReload, CleanupCredential, CleanupAutomount, CleanupMount,
           CleanupRecord, CleanupReload, Control
<1>id. pc[p] # "define" => task[p].id \in Ids /\ MarkerOf(p) \in Marker /\ MarkerOf(p).id = task[p].id
    BY DEF DefineStep, DefineRefuse, DefineCheck, WriteMountUnit, WriteAutomountUnit, WriteCredential,
           AssertNoCredential, DefineReload, CleanupCredential, CleanupAutomount, CleanupMount,
           CleanupRecord, CleanupReload, Control, ShareSteps, MarkerOf, Marker, Task
<1>n. None \notin Marker
    BY SentinelsDistinct
<1>same. UNCHANGED <<mountUnit, automountUnit>> => IdsUnique'
    BY DEF IdsUnique, HalfClaims
<1>1. CASE DefineRefuse(p)
  <2>1. pc'[p] = "replyFail" /\ task'[p].op = "define" /\ UNCHANGED <<mountUnit, automountUnit>>
      BY <1>1, <1>op DEF DefineRefuse
  <2>2. DefineFiles(p)'
      BY <2>1 DEF DefineFiles
  <2> QED
      BY <2>1, <2>2, <1>same DEF FilesKnown, BootFiles, UndefineFiles, PurgeFiles
<1>2. CASE DefineCheck(p)
  <2>1. PICK i \in Ids \ IdsInUse : task' = [task EXCEPT ![p].id = i]
      BY <1>2 DEF DefineCheck
  <2>2. task'[p].op = "define" /\ task'[p].unit = u /\ task'[p].id = i
      BY <2>1, <1>op DEF Task
  <2>3. mountUnit[u] = None /\ automountUnit[u] = None
      BY <1>2, <1>op, Inspected DEF DefineCheck
  <2>4. \A v \in Units : ~Claimed(v, i)
      BY DEF IdsInUse, Claimed, HalfClaims
  <2>5. pc'[p] = "wrMount" /\ UNCHANGED <<mountUnit, automountUnit>>
      BY <1>2 DEF DefineCheck
  <2>6. DefineFiles(p)'
      BY <2>2, <2>3, <2>4, <2>5 DEF DefineFiles, Halves, Claimed, HalfClaims
  <2> QED
      BY <2>2, <2>5, <2>6, <1>same DEF FilesKnown, BootFiles, UndefineFiles, PurgeFiles
\* From here on the id is the call's own.
<1>own. pc[p] # "define" =>
            /\ Halves(u) \subseteq {None, MarkerOf(p)}
            /\ \A v \in Units \ {u} : ~Claimed(v, task[p].id)
    BY <1>op DEF DefineStep, DefineRefuse, DefineCheck, WriteMountUnit, WriteAutomountUnit, WriteCredential,
           AssertNoCredential, DefineReload, CleanupCredential, CleanupAutomount, CleanupMount,
           CleanupRecord, CleanupReload, FilesKnown, DefineFiles
<1>halves. ASSUME pc[p] # "define", UNCHANGED task,
                  mountUnit' \in {mountUnit, [mountUnit EXCEPT ![u] = MarkerOf(p)],
                                  [mountUnit EXCEPT ![u] = None]},
                  automountUnit' \in {automountUnit, [automountUnit EXCEPT ![u] = MarkerOf(p)],
                                      [automountUnit EXCEPT ![u] = None]}
           PROVE  /\ Halves(u)' \subseteq {None, MarkerOf(p)'}
                  /\ \A v \in Units \ {u} : ~Claimed(v, task[p].id)'
                  /\ IdsUnique'
  <2>1. MarkerOf(p)' = MarkerOf(p)
      BY <1>halves DEF MarkerOf
  <2>2. \A v \in Units \ {u} : mountUnit'[v] = mountUnit[v] /\ automountUnit'[v] = automountUnit[v]
      BY <1>halves
  <2>3. mountUnit'[u] \in {None, MarkerOf(p)} /\ automountUnit'[u] \in {None, MarkerOf(p)}
      BY <1>halves, <1>own, <1>op DEF Halves
  <2>4. \A v \in Units \ {u} : ~Claimed(v, task[p].id)'
      BY <1>halves, <1>own, <2>2 DEF Claimed, HalfClaims
  <2>5. IdsUnique'
    <3>1. SUFFICES ASSUME NEW v \in Units, NEW w \in Units, NEW i \in Ids,
                          Claimed(v, i)', Claimed(w, i)', v # w
                   PROVE  FALSE
        BY DEF IdsUnique, Claimed
    <3>2. \A x \in Units \ {u} : Claimed(x, i)' => Claimed(x, i)
        BY <2>2 DEF Claimed, HalfClaims
    <3>3. CASE v # u /\ w # u
        BY <3>1, <3>2, <3>3 DEF IdsUnique, Claimed
    <3>4. CASE v = u \/ w = u
      <4>1. i = task[p].id
          BY <3>1, <3>4, <2>3, <1>id, <1>n, <1>halves DEF Claimed, HalfClaims
      <4> QED
          BY <3>1, <3>4, <4>1, <2>4, <1>halves
    <3> QED
        BY <3>3, <3>4
  <2> QED
      BY <1>halves, <2>1, <2>3, <2>4, <2>5 DEF Halves
<1>3. CASE WriteMountUnit(p)
  <2>1. /\ pc[p] = "wrMount" /\ pc'[p] \in {"wrAutomount", "clCred"} /\ UNCHANGED task
        /\ mountUnit' \in {mountUnit, [mountUnit EXCEPT ![u] = MarkerOf(p)]}
        /\ UNCHANGED automountUnit
      BY <1>3 DEF WriteMountUnit
  <2>2. /\ Halves(u)' \subseteq {None, MarkerOf(p)'}
        /\ \A v \in Units \ {u} : ~Claimed(v, task[p].id)'
        /\ IdsUnique'
      BY <1>halves, <2>1
  <2>3. DefineFiles(p)'
      BY <2>1, <2>2 DEF DefineFiles
  <2> QED
      BY <1>op, <2>1, <2>2, <2>3 DEF FilesKnown, BootFiles, UndefineFiles, PurgeFiles
<1>4. CASE WriteAutomountUnit(p)
  <2>1. /\ pc[p] = "wrAutomount" /\ pc'[p] \in {"wrCred", "clCred"} /\ UNCHANGED task
        /\ automountUnit' \in {automountUnit, [automountUnit EXCEPT ![u] = MarkerOf(p)]}
        /\ pc'[p] = "wrCred" => automountUnit'[u] = MarkerOf(p)
        /\ UNCHANGED mountUnit
      BY <1>4, <1>op DEF WriteAutomountUnit
  <2>2. /\ Halves(u)' \subseteq {None, MarkerOf(p)'}
        /\ \A v \in Units \ {u} : ~Claimed(v, task[p].id)'
        /\ IdsUnique'
      BY <1>halves, <2>1
  <2>3. MarkerOf(p)' = MarkerOf(p)
      BY <2>1 DEF MarkerOf
  <2>4. DefineFiles(p)'
      BY <2>1, <2>2, <2>3 DEF DefineFiles
  <2> QED
      BY <1>op, <2>1, <2>2, <2>4 DEF FilesKnown, BootFiles, UndefineFiles, PurgeFiles
<1>5. CASE WriteCredential(p) \/ AssertNoCredential(p)
  <2>1. /\ pc[p] = "wrCred" /\ pc'[p] \in {"reload", "clCred"}
        /\ UNCHANGED <<mountUnit, automountUnit, task>>
        /\ pc'[p] = "reload" /\ task[p].auth = "Credentials" => task[p].id \in creds'
      BY <1>5 DEF WriteCredential, AssertNoCredential
  <2>2. /\ Halves(u)' \subseteq {None, MarkerOf(p)'}
        /\ \A v \in Units \ {u} : ~Claimed(v, task[p].id)'
        /\ IdsUnique'
      BY <1>halves, <2>1
  <2>3. MarkerOf(p)' = MarkerOf(p) /\ MarkerOf(p).auth = task[p].auth
      BY <2>1 DEF MarkerOf
  <2>4. mountUnit[u] = MarkerOf(p) /\ automountUnit[u] = MarkerOf(p)
      BY <2>1, <1>op DEF Knows, DefineKnows, FilesKnown, DefineFiles
  <2>5. pc'[p] = "reload" => Complete(u)' /\ mountUnit'[u] = MarkerOf(p)'
      BY <2>1, <2>3, <2>4, <1>id DEF Complete
  <2>6. DefineFiles(p)'
      BY <2>1, <2>2, <2>5 DEF DefineFiles
  <2> QED
      BY <1>op, <2>1, <2>2, <2>6 DEF FilesKnown, BootFiles, UndefineFiles, PurgeFiles
<1>6. CASE DefineReload(p)
  <2>1. /\ pc[p] = "reload" /\ pc'[p] \in {"armInspect", "clCred"}
        /\ UNCHANGED <<mountUnit, automountUnit, creds, task>>
      BY <1>6 DEF DefineReload
  <2>2. /\ Halves(u)' \subseteq {None, MarkerOf(p)'}
        /\ \A v \in Units \ {u} : ~Claimed(v, task[p].id)'
        /\ IdsUnique'
      BY <1>halves, <2>1
  <2>3. Complete(u)' /\ mountUnit'[u] = MarkerOf(p)'
      BY <2>1, <1>op DEF FilesKnown, DefineFiles, Complete, MarkerOf
  <2>4. DefineFiles(p)'
      BY <2>1, <2>2, <2>3 DEF DefineFiles
  <2> QED
      BY <1>op, <2>1, <2>2, <2>4 DEF FilesKnown, BootFiles, UndefineFiles, PurgeFiles
<1>7. CASE CleanupCredential(p) \/ CleanupAutomount(p) \/ CleanupMount(p) \/ CleanupRecord(p) \/ CleanupReload(p)
  <2>1. /\ pc[p] \in CleanupSteps /\ pc'[p] \in CleanupSteps \cup {"replyFail"} /\ UNCHANGED task
        /\ mountUnit' \in {mountUnit, [mountUnit EXCEPT ![u] = None]}
        /\ automountUnit' \in {automountUnit, [automountUnit EXCEPT ![u] = None]}
      BY <1>7 DEF CleanupCredential, CleanupAutomount, CleanupMount, CleanupRecord, CleanupReload
  <2>2. /\ Halves(u)' \subseteq {None, MarkerOf(p)'}
        /\ \A v \in Units \ {u} : ~Claimed(v, task[p].id)'
        /\ IdsUnique'
      BY <1>halves, <2>1
  <2>3. DefineFiles(p)'
      BY <2>1, <2>2 DEF DefineFiles
  <2> QED
      BY <1>op, <2>1, <2>2, <2>3 DEF FilesKnown, BootFiles, UndefineFiles, PurgeFiles
<1> QED
    BY <1>1, <1>2, <1>3, <1>4, <1>5, <1>6, <1>7 DEF DefineStep

\* armShare touches no unit file and no credential; it reports an armed share
\* only once it has recorded, or found recorded, the instance.
LEMMA ArmFilesStep ==
    ASSUME FilesInv, NEW p \in Procs, ArmStep(p)
    PROVE  FilesKnown(p)' /\ IdsUnique'
<1>inv. TypeOK /\ Control(p) /\ IdsUnique /\ FilesKnown(p)
    BY DEF FilesInv, SecretInv, ControlInv
<1> USE <1>inv DEF control, disk, Go, ArmSteps, TypeOK
<1>1. pc[p] \in ArmSteps /\ UNCHANGED task
    BY ArmFrame
<1>u. task[p].unit \in Units /\ task[p].op \in {"define", "boot"} /\ MarkerOf(p) \in Marker
    BY <1>1 DEF Control, ShareSteps, MarkerOf, Marker, Task
<1>2. /\ UNCHANGED <<mountUnit, automountUnit, creds>>
      /\ local'[p].todo = local[p].todo
      /\ pc'[p] \in ArmSteps \cup {"replyFail"} \cup
                     (IF task[p].op = "define" THEN {"clCred", "replyOk"} ELSE {"bootNext"})
      /\ pc'[p] = "armWalk" => CredentialHealthy(p)
      /\ pc'[p] = "armStart" => pc[p] = "armWalk"
  <2> USE DEF ArmSucceeds, Local
  <2>1. CASE ArmInspect(p) \/ ArmTrust(p)
      BY <1>u, <2>1 DEF ArmInspect, ArmTrust
  <2>2. CASE ArmCredential(p) \/ ArmWalk(p) \/ ArmStart(p) \/ ArmStartFails(p)
      BY <2>2 DEF ArmCredential, ArmWalk, ArmStart, ArmStartFails
  <2>3. CASE ArmRecheck(p) \/ ArmFailId(p) \/ ArmId(p)
      BY <2>3 DEF ArmRecheck, ArmFailId, ArmId
  <2>4. CASE ArmRecord(p) \/ CompensateCheck(p)
      BY <1>u, <2>4 DEF ArmRecord, CompensateCheck
  <2>5. CASE CompensateStop(p) \/ CompensateRecord(p)
      BY <2>5 DEF CompensateStop, CompensateRecord
  <2>6. CASE ArmFailed(p)
      BY <1>u, <2>6 DEF ArmFailed
  <2> QED
      BY <2>1, <2>2, <2>3, <2>4, <2>5, <2>6 DEF ArmStep
<1>3. MarkerOf(p)' = MarkerOf(p) /\ UnitOf(p)' = UnitOf(p)
    BY <1>1 DEF MarkerOf, UnitOf
<1>4. IdsUnique'
    BY <1>2 DEF IdsUnique, HalfClaims
<1>5. CASE task[p].op = "define"
  <2>1. pc'[p] = "armRecord" => local'[p].started # None
    <3>1. pc'[p] = "armRecord" => ArmId(p)
        BY DEF ArmStep, ArmInspect, ArmTrust, ArmCredential, ArmWalk, ArmStart, ArmStartFails, ArmRecheck,
               ArmFailId, ArmRecord, CompensateCheck, CompensateStop, CompensateRecord, ArmFailed, ArmSucceeds
    <3> QED
        BY <3>1 DEF ArmId, Local
  <2>2. pc'[p] = "replyOk" => idRec'[UnitOf(p)] # None
    <3>1. pc'[p] = "replyOk" => ArmTrust(p) \/ ArmRecord(p)
        BY DEF ArmStep, ArmInspect, ArmTrust, ArmCredential, ArmWalk, ArmStart, ArmStartFails, ArmRecheck,
               ArmFailId, ArmId, CompensateCheck, CompensateStop, CompensateRecord, ArmFailed
    <3>2. CASE ArmRecord(p)
        BY <1>5, <1>u, <3>2 DEF ArmRecord, UnitOf, FilesKnown, DefineFiles
    <3>3. CASE ArmTrust(p) /\ pc'[p] = "replyOk"
      <4>1. evaluateArmPrecheck(WithTrust(local[p].snap, UnitOf(p))) = "AlreadyArmed"
          BY <3>3 DEF ArmTrust
      <4>2. WithTrust(local[p].snap, UnitOf(p)).trust = "Trusted"
          BY <4>1 DEF evaluateArmPrecheck
      <4>3. idRec[UnitOf(p)] # None
          BY <4>2 DEF WithTrust, Local, Snapshot
      <4> QED
          BY <3>3, <4>3 DEF ArmTrust
    <3> QED
        BY <3>1, <3>2, <3>3
  <2>3. DefineFiles(p)'
      BY <1>1, <1>2, <1>3, <1>5, <2>1, <2>2
      DEF FilesKnown, DefineFiles, Halves, Claimed, HalfClaims, Complete, UnitOf, CleanupSteps
  <2> QED
      BY <1>1, <1>4, <1>5, <2>3 DEF FilesKnown, BootFiles, UndefineFiles, PurgeFiles
<1>6. CASE task[p].op = "boot"
  <2>1. Halves(UnitOf(p)) = {MarkerOf(p)}
      BY <1>1, <1>6 DEF FilesKnown, BootFiles
  <2>2. pc'[p] = "armWalk" => Complete(UnitOf(p))
      BY <1>2, <1>u, <2>1 DEF CredentialHealthy, Complete, Halves, MarkerOf, UnitOf
  <2>3. pc'[p] \in {"armWalk", "armStart"} => Complete(UnitOf(p))
      BY <1>2, <1>6, <2>2 DEF FilesKnown, BootFiles
  <2>4. BootFiles(p)'
      BY <1>1, <1>2, <1>3, <1>6, <2>1, <2>3 DEF FilesKnown, BootFiles, Halves, Complete
  <2> QED
      BY <1>1, <1>4, <1>6, <2>4 DEF FilesKnown, DefineFiles, UndefineFiles, PurgeFiles
<1> QED
    BY <1>u, <1>5, <1>6

\* safeStop leaves the files, undefinesystem removes one share of its caller's
\* and purge one of its plan.
LEMMA RemoveFilesStep ==
    ASSUME FilesInv, NEW p \in Procs, RemoveStep(p)
    PROVE  FilesKnown(p)' /\ IdsUnique'
<1>inv. TypeOK /\ Control(p) /\ IdsUnique /\ FilesKnown(p)
    BY DEF FilesInv, SecretInv, ControlInv
<1> USE <1>inv DEF control, disk, Go, StopSteps, RemoveSteps, TypeOK, UnitOf
<1> DEFINE u == UnitOf(p)
<1>n. None \notin Marker
    BY SentinelsDistinct
<1>1. CASE UndefineCheck(p)
  <2> DEFINE marker == definitionMarker(mountUnit[u], automountUnit[u])
  <2>0. /\ IdsUnique' /\ task[p].op = "undefine" /\ u \in Units /\ pc[p] = "undefine"
        /\ UNCHANGED <<mountUnit, automountUnit>>
      BY <1>1 DEF UndefineCheck, IdsUnique, HalfClaims, Control
  <2>1. CASE pc'[p] = "replyFail" /\ UNCHANGED task
      BY <2>0, <2>1 DEF FilesKnown, DefineFiles, BootFiles, UndefineFiles, PurgeFiles
  <2>2. CASE /\ inspectDefinition(mountUnit[u], automountUnit[u], task[p].user) \in {"Pair", "Partial"}
             /\ task' = [task EXCEPT ![p].id = marker.id]
             /\ Go(p, "stopInspect")
    <3>2. /\ marker \in Marker /\ mountUnit[u] \in {None, marker} /\ automountUnit[u] \in {None, marker}
          /\ marker.owner = task[p].user
        BY <2>0, <2>2, Inspected
    <3>3. marker \in Halves(u)
        BY <2>0 DEF definitionMarker, Halves
    <3>4. /\ task'[p].op = "undefine" /\ task'[p].unit = u /\ task'[p].id = marker.id
          /\ task'[p].user = task[p].user /\ pc'[p] = "stopInspect"
        BY <2>0, <2>2 DEF Task
    <3> HIDE DEF marker
    <3>5. \A f \in Halves(u)' \ {None} : f \in Marker /\ f.owner = task'[p].user /\ f.id = task'[p].id
        BY <2>0, <3>2, <3>4 DEF Halves
    <3>6. Claimed(u, task[p].id)'
        BY <2>0, <3>2, <3>3, <3>4 DEF Halves, Claimed, HalfClaims
    <3>7. UndefineFiles(p)'
        BY <3>4, <3>5, <3>6 DEF UndefineFiles
    <3> QED
        BY <2>0, <3>4, <3>7 DEF FilesKnown, DefineFiles, BootFiles, PurgeFiles
  <2> QED
      BY <1>1, <2>1, <2>2 DEF UndefineCheck
<1>2. CASE StopInspect(p) \/ StopTrust(p) \/ StopMount(p) \/ StopAutomount(p)
  <2>1. /\ pc[p] \in StopSteps
        /\ pc'[p] \in StopSteps \cup {"replyFail"} \cup
                          (IF task[p].op = "undefine" THEN {"rmCred"} ELSE {"purStop"})
        /\ local'[p].plan = local[p].plan /\ local'[p].todo = local[p].todo
        /\ UNCHANGED <<mountUnit, automountUnit, creds, task>>
      BY <1>2 DEF StopInspect, StopTrust, StopMount, StopAutomount, StopDone, Local
  <2>2. task[p].op \in {"undefine", "purge"}
      BY <2>1 DEF Control
  <2>3. IdsUnique'
      BY <2>1 DEF IdsUnique, HalfClaims
  <2>4. UndefineFiles(p)'
      BY <2>1, <2>2 DEF FilesKnown, UndefineFiles, Halves, Claimed, HalfClaims
  <2>5. PurgeFiles(p)'
      BY <2>1, <2>2 DEF FilesKnown, PurgeFiles, Halves, PurgeSteps, ShareSteps, DefineSteps, ArmSteps, CleanupSteps
  <2> QED
      BY <2>1, <2>2, <2>3, <2>4, <2>5 DEF FilesKnown, DefineFiles, BootFiles
<1>3. CASE \/ RemoveCredential(p) \/ RemoveMountUnit(p) \/ RemoveAutomountUnit(p)
           \/ RemoveRecord(p) \/ RemoveReload(p)
  <2>1. /\ pc[p] \in RemoveSteps /\ UNCHANGED <<task, local, tempSecret>> /\ creds' \subseteq creds
        /\ mountUnit' \in {mountUnit, [mountUnit EXCEPT ![u] = None]}
        /\ automountUnit' \in {automountUnit, [automountUnit EXCEPT ![u] = None]}
        /\ pc'[p] \in {"replyFail", AfterRemoval(p, pc[p])}
      BY <1>3 DEF RemoveCredential, RemoveMountUnit, RemoveAutomountUnit, RemoveRecord, RemoveReload
  <2>2. task[p].op \in {"undefine", "purge"}
      BY <2>1 DEF Control
  <2>u. pc[p] # "rmReload" => u \in Units
      BY <2>1 DEF Control, ShareSteps
  <2>3. IdsUnique'
      BY <2>1, <1>n DEF IdsUnique, HalfClaims
  <2>4. /\ pc[p] = "rmCred" /\ pc'[p] # "replyFail" => task[p].id \notin creds'
        /\ pc[p] = "rmMount" /\ pc'[p] # "replyFail" => mountUnit'[u] = None
        /\ pc[p] = "rmAutomount" /\ pc'[p] # "replyFail" => automountUnit'[u] = None
        /\ pc[p] = "rmRec" /\ pc'[p] # "replyFail" => idRec'[u] = None
        /\ pc[p] # "rmRec" => UNCHANGED idRec
        /\ pc[p] # "rmMount" => UNCHANGED mountUnit
        /\ pc[p] # "rmAutomount" => UNCHANGED automountUnit
      BY <1>3, <2>2, <2>u
      DEF RemoveCredential, RemoveMountUnit, RemoveAutomountUnit, RemoveRecord, RemoveReload, AfterRemoval
  <2>5. CASE task[p].op = "undefine"
    <3>1. pc'[p] \in {"replyFail",
                      CASE pc[p] = "rmCred" -> "rmMount" [] pc[p] = "rmMount" -> "rmAutomount"
                        [] pc[p] = "rmAutomount" -> "rmRec" [] pc[p] = "rmRec" -> "rmReload"
                        [] pc[p] = "rmReload" -> "replyOk"}
        BY <2>1, <2>5 DEF AfterRemoval
    <3>2. UndefineFiles(p)'
        BY <2>1, <2>4, <2>5, <2>u, <3>1 DEF FilesKnown, UndefineFiles, Halves
    <3> QED
        BY <2>1, <2>3, <2>5, <3>2 DEF FilesKnown, DefineFiles, BootFiles, PurgeFiles
  <2>6. CASE task[p].op = "purge"
    <3>1. pc'[p] \in {"replyFail",
                      CASE pc[p] = "rmMount" -> "rmAutomount" [] pc[p] = "rmAutomount" -> "rmRec"
                        [] pc[p] = "rmRec" -> "rmCred" [] pc[p] = "rmCred" -> "purRm"
                        [] pc[p] = "rmReload" -> "purEtc"}
        BY <2>1, <2>6 DEF AfterRemoval
    <3> DEFINE plan == local[p].plan
               todo == local[p].todo
    <3>m. ASSUME NEW m \in plan PROVE m.unit \in Units
        BY DEF Local, Managed
    <3>2. /\ \A v \in Units : \A f \in Halves(v) \cap Marker :
                   f.owner = task[p].user /\ (\E m \in plan : m.unit = v)
          /\ \A m \in plan : Halves(m.unit) \subseteq {None, m.marker}
          /\ todo \subseteq plan
        BY <2>1, <2>6 DEF FilesKnown, PurgeFiles
    <3>3. \A v \in Units : Halves(v)' \subseteq Halves(v) \cup {None}
        BY <2>1 DEF Halves
    <3>4. /\ \A v \in Units : \A f \in Halves(v)' \cap Marker :
                   f.owner = task'[p].user /\ (\E m \in local'[p].plan : m.unit = v)
          /\ \A m \in local'[p].plan : Halves(m.unit)' \subseteq {None, m.marker}
          /\ local'[p].todo \subseteq local'[p].plan
      <4>1. task'[p].user = task[p].user /\ local'[p].plan = plan /\ local'[p].todo = todo
          BY <2>1
      <4> HIDE DEF plan, todo
      <4>2. \A v \in Units : \A f \in Halves(v)' \cap Marker :
                f.owner = task[p].user /\ (\E m \in plan : m.unit = v)
        <5>1. \A v \in Units : Halves(v)' \cap Marker \subseteq Halves(v) \cap Marker
            BY <3>3, <1>n
        <5> QED
            BY <3>2, <5>1
      <4>3. \A m \in plan : Halves(m.unit)' \subseteq {None, m.marker}
          BY <3>2, <3>3, <3>m
      <4> QED
          BY <3>2, <4>1, <4>2, <4>3
    <3>5. pc'[p] \in RemoveSteps \ {"rmReload"} => \E m \in plan : m.unit = u
        BY <2>1, <2>6, <3>1 DEF FilesKnown, PurgeFiles, ShareSteps
    <3>6. pc'[p] = "rmAutomount" => mountUnit'[u] = None
        BY <2>4, <3>1, <2>1
    <3>7. pc'[p] \in {"purRm"} \cup (RemoveSteps \ {"rmReload"}) =>
              \A m \in plan \ todo :
                  \/ Halves(m.unit)' = {None}
                  \/ m.unit = u /\ pc'[p] \in {"rmMount", "rmAutomount"}
      <4>1. SUFFICES ASSUME pc'[p] \in {"purRm"} \cup (RemoveSteps \ {"rmReload"}), NEW m \in plan \ todo
                     PROVE  \/ Halves(m.unit)' = {None}
                            \/ m.unit = u /\ pc'[p] \in {"rmMount", "rmAutomount"}
          OBVIOUS
      <4>2. pc[p] \in RemoveSteps \ {"rmReload"}
          BY <2>1, <3>1, <4>1
      <4>3. \/ Halves(m.unit) = {None}
            \/ m.unit = u /\ pc[p] \in {"rmMount", "rmAutomount"}
          BY <2>6, <4>1, <4>2 DEF FilesKnown, PurgeFiles
      <4>4. CASE Halves(m.unit) = {None}
          BY <4>4, <3>3, <3>m, <4>1 DEF Halves
      <4>5. CASE m.unit = u /\ pc[p] = "rmMount"
          BY <4>1, <4>5, <3>1
      <4>6. CASE m.unit = u /\ pc[p] = "rmAutomount"
        <5>1. mountUnit[u] = None
            BY <2>6, <4>6 DEF FilesKnown, PurgeFiles
        <5>2. mountUnit'[u] = None /\ automountUnit'[u] = None
            BY <4>1, <4>6, <5>1, <2>4
        <5> QED
            BY <4>6, <5>2 DEF Halves
      <4> QED
          BY <4>3, <4>4, <4>5, <4>6
    <3>8. pc'[p] \in {"rmReload", "purEtc"} => \A v \in Units : Halves(v)' \cap Marker = {}
      <4>1. pc'[p] \in {"rmReload", "purEtc"} => pc[p] = "rmReload"
          BY <3>1, <2>1
      <4>2. pc[p] = "rmReload" => \A v \in Units : Halves(v) \cap Marker = {}
          BY <2>6 DEF FilesKnown, PurgeFiles
      <4> QED
          BY <4>1, <4>2, <3>3, <1>n
    <3>9. pc'[p] \in {"replyFail", "rmAutomount", "rmRec", "rmCred", "purRm", "purEtc"}
        BY <2>1, <3>1
    <3>10. u' = u /\ local'[p].plan = plan /\ local'[p].todo = todo
        BY <2>1
    <3> HIDE DEF plan, todo, u
    <3>11. PurgeFiles(p)'
        BY <3>4, <3>5, <3>6, <3>7, <3>8, <3>9, <3>10
        DEF PurgeFiles, ShareSteps, DefineSteps, ArmSteps, CleanupSteps, u
    <3> QED
        BY <2>1, <2>3, <2>6, <3>11 DEF FilesKnown, DefineFiles, BootFiles, UndefineFiles
  <2> QED
      BY <2>2, <2>5, <2>6
<1> QED
    BY <1>1, <1>2, <1>3 DEF RemoveStep

\* The scan for managed units finds every file with a marker.
LEMMA Scanned ==
    ASSUME TypeOK, NEW v \in Units
    PROVE  /\ Halves(v) \cap Marker # {} =>
                 \E m \in enumerateManagedUnits(mountUnit, automountUnit) : m.unit = v
           /\ \A m \in enumerateManagedUnits(mountUnit, automountUnit) : m.unit = v =>
                 /\ m.marker = definitionMarker(scannedHalf(mountUnit[v]), scannedHalf(automountUnit[v]))
                 /\ m.state = "Pair" => Halves(v) = {m.marker}
<1> DEFINE found == enumerateManagedUnits(mountUnit, automountUnit)
           State == pairState(mountUnit[v], automountUnit[v])
           Mark == definitionMarker(scannedHalf(mountUnit[v]), scannedHalf(automountUnit[v]))
<1>n. None \notin Marker
    BY SentinelsDistinct
<1>1. Halves(v) \cap Marker # {} => State # "None"
    BY <1>n DEF Halves, pairState, scannedHalf
<1>2. ASSUME State # "None" PROVE \E m \in found : m.unit = v
  <2> DEFINE S(w) == pairState(mountUnit[w], automountUnit[w])
             M(w) == definitionMarker(scannedHalf(mountUnit[w]), scannedHalf(automountUnit[w]))
             Listed == {w \in DOMAIN mountUnit : S(w) # "None"}
             Paired == {w \in DOMAIN mountUnit : S(w) \in {"Pair", "Partial"}}
             Entry(w) == [unit |-> w, marker |-> M(w),
                          state |-> IF w \in Paired /\ (\E x \in Paired \ {w} : M(x).id = M(w).id)
                                    THEN "Tampered" ELSE S(w)]
  <2>1. found = {Entry(w) : w \in Listed}
      BY DEF enumerateManagedUnits
  <2>2. v \in Listed
      BY <1>2 DEF TypeOK
  <2>3. Entry(v).unit = v
      OBVIOUS
  <2> HIDE DEF Entry, Listed
  <2> QED
      BY <2>1, <2>2, <2>3
<1>3. \A m \in found : m.unit = v => m.marker = Mark /\ m.state \in {"Tampered", State}
    BY DEF enumerateManagedUnits, TypeOK
<1>4. State = "Pair" => Halves(v) = {Mark}
    BY <1>n DEF pairState, scannedHalf, definitionMarker, Halves
<1> QED
    BY <1>1, <1>2, <1>3, <1>4

\* What the loops of purge and boot leave of the call's variables when they
\* take the next share.
LEMMA Taken ==
    ASSUME TypeOK, NEW p \in Procs, NEW m, Take(p, m)
    PROVE  /\ task'[p].op = task[p].op /\ task'[p].user = task[p].user /\ task'[p].unit = m.unit
           /\ local'[p].plan = local[p].plan /\ local'[p].todo = local[p].todo \ {m}
<1> DEFINE t == task[p]
<1>1. t \in Task /\ task'[p] = [t EXCEPT !.unit = m.unit, !.id = m.marker.id]
    BY DEF Take, TypeOK
<1>2. local'[p].plan = local[p].plan /\ local'[p].todo = local[p].todo \ {m}
    BY DEF Take, TypeOK, Local
<1> HIDE DEF t
<1>3. LET n == [t EXCEPT !.unit = m.unit, !.id = m.marker.id] IN
      n.op = t.op /\ n.user = t.user /\ n.unit = m.unit
    BY <1>1 DEF Task
<1> QED
    BY <1>1, <1>2, <1>3 DEF t

\* purge plans every managed unit, all of them its caller's, takes each in turn
\* and removes the trees only once no unit carries a marker.
LEMMA PurgeFilesStep ==
    ASSUME FilesInv, NEW p \in Procs, PurgeStep(p)
    PROVE  FilesKnown(p)' /\ IdsUnique'
<1>inv. TypeOK /\ Control(p) /\ IdsUnique /\ FilesKnown(p)
    BY DEF FilesInv, SecretInv, ControlInv
<1> USE <1>inv DEF control, disk, Go, TypeOK
<1> DEFINE plan == local[p].plan
           todo == local[p].todo
<1>n. None \notin Marker
    BY SentinelsDistinct
<1>op. task[p].op = "purge"
    BY DEF PurgeStep, PurgeCheck, PurgeStopNext, PurgeRemoveNext, PurgeCredentialTree, PurgeRunTrees,
           Control, PurgeSteps
<1>0. UNCHANGED <<mountUnit, automountUnit>>
    BY DEF PurgeStep, PurgeCheck, PurgeStopNext, PurgeRemoveNext, PurgeCredentialTree, PurgeRunTrees
<1>ids. IdsUnique'
    BY <1>0 DEF IdsUnique, HalfClaims
<1>h. \A v : Halves(v)' = Halves(v)
    BY <1>0 DEF Halves
<1> SUFFICES task'[p].op = "purge" /\ PurgeFiles(p)'
    BY <1>ids DEF FilesKnown, DefineFiles, BootFiles, UndefineFiles
<1> USE DEF PurgeSteps, StopSteps, RemoveSteps, UnitOf
<1>1. CASE PurgeCheck(p)
  <2>1. CASE PurgeAllowed(task[p].user)
    <3> DEFINE found == enumerateManagedUnits(mountUnit, automountUnit)
               usr == task[p].user
               new == {[unit |-> m.unit, marker |-> m.marker] : m \in found}
    <3>1. /\ pc'[p] = "purStop" /\ UNCHANGED task
          /\ local'[p].plan = new /\ local'[p].todo = new
        BY <1>1, <2>1 DEF PurgeCheck, Local
    <3>2. ASSUME NEW m \in found
          PROVE  /\ Halves(m.unit) \subseteq {None, m.marker}
                 /\ m.marker.owner = usr
      <4>1. m.unit \in Units /\ m.marker \in Marker
          BY PlanTypes
      <4>2. /\ inspectDefinition(mountUnit[m.unit], automountUnit[m.unit], usr) \in {"Pair", "Partial"}
            /\ m.marker.owner = usr
          BY <2>1 DEF PurgeAllowed
      <4>3. LET d == definitionMarker(mountUnit[m.unit], automountUnit[m.unit]) IN
            d \in Marker /\ mountUnit[m.unit] \in {None, d} /\ automountUnit[m.unit] \in {None, d}
          BY <4>1, <4>2, Inspected
      <4>4. m.marker = definitionMarker(scannedHalf(mountUnit[m.unit]), scannedHalf(automountUnit[m.unit]))
          BY <4>1, Scanned
      <4>5. m.marker = definitionMarker(mountUnit[m.unit], automountUnit[m.unit])
          BY <4>3, <4>4, <1>n DEF definitionMarker, scannedHalf
      <4> QED
          BY <4>2, <4>3, <4>5 DEF Halves
    <3> HIDE DEF found
    <3>3. ASSUME NEW v \in Units, NEW f \in Halves(v) \cap Marker
          PROVE  f.owner = usr /\ \E m \in new : m.unit = v
      <4>1. PICK m \in found : m.unit = v
          BY Scanned DEF found
      <4>2. f = m.marker
          BY <3>2, <4>1, <1>n
      <4>3. [unit |-> m.unit, marker |-> m.marker] \in new
          BY <4>1
      <4> QED
          BY <3>2, <4>1, <4>2, <4>3
    <3>4. ASSUME NEW m \in new PROVE Halves(m.unit) \subseteq {None, m.marker}
      <4>1. PICK k \in found : m = [unit |-> k.unit, marker |-> k.marker]
          BY <3>4
      <4> QED
          BY <3>2, <4>1
    <3> HIDE DEF new
    <3> QED
        BY <1>op, <1>h, <3>1, <3>3, <3>4 DEF PurgeFiles, ShareSteps, DefineSteps, ArmSteps, CleanupSteps
  <2>2. CASE ~PurgeAllowed(task[p].user)
      BY <1>1, <1>op, <2>2 DEF PurgeCheck, PurgeFiles, ShareSteps, DefineSteps, ArmSteps, CleanupSteps
  <2> QED
      BY <2>1, <2>2
<1>2. CASE pc[p] \in {"purStop", "purRm", "purEtc", "purRun"}
  <2>1. /\ \A v \in Units : \A f \in Halves(v) \cap Marker :
                 f.owner = task[p].user /\ (\E m \in plan : m.unit = v)
        /\ \A m \in plan : Halves(m.unit) \subseteq {None, m.marker}
        /\ todo \subseteq plan
      BY <1>2, <1>op DEF PurgeFiles, FilesKnown
  <2>m. ASSUME NEW m \in plan PROVE m.unit \in Units
      BY DEF Local, Managed
  <2>2. ASSUME NEW m \in todo, Take(p, m),
               \/ PurgeStopNext(p) /\ pc'[p] = "stopInspect"
               \/ PurgeRemoveNext(p) /\ pc'[p] = "rmMount"
        PROVE  task'[p].op = "purge" /\ PurgeFiles(p)'
    <3>1. /\ task'[p].op = "purge" /\ task'[p].user = task[p].user /\ task'[p].unit = m.unit
          /\ local'[p].plan = plan /\ local'[p].todo = todo \ {m}
        BY <1>op, <2>2, Taken
    <3>2. pc'[p] = "rmMount" => \A k \in plan \ todo : Halves(k.unit) = {None}
      <4>1. pc'[p] = "rmMount" => pc[p] = "purRm"
          BY <2>2 DEF PurgeRemoveNext
      <4> QED
          BY <1>op, <4>1 DEF FilesKnown, PurgeFiles
    <3> HIDE DEF plan, todo
    <3> QED
        BY <1>h, <2>1, <2>2, <3>1, <3>2 DEF PurgeFiles
  <2>3. CASE PurgeStopNext(p) /\ pc'[p] = "purRm"
    <3>1. UNCHANGED task /\ local'[p].plan = plan /\ local'[p].todo = plan
        BY <2>3 DEF PurgeStopNext, Local
    <3> HIDE DEF plan, todo
    <3> QED
        BY <1>h, <1>op, <2>1, <2>3, <3>1 DEF PurgeFiles, ShareSteps, DefineSteps, ArmSteps, CleanupSteps
  <2>4. CASE PurgeRemoveNext(p) /\ pc'[p] = "rmReload"
    <3>1. pc[p] = "purRm" /\ UNCHANGED <<task, local>> /\ todo = {}
        BY <2>4 DEF PurgeRemoveNext
    <3>2. \A m \in plan : Halves(m.unit) = {None}
        BY <1>op, <3>1 DEF FilesKnown, PurgeFiles
    <3>3. ASSUME NEW v \in Units, NEW f \in Halves(v) \cap Marker PROVE FALSE
      <4>1. PICK m \in plan : m.unit = v
          BY <2>1
      <4>2. Halves(v) = {None}
          BY <3>2, <4>1
      <4> QED
          BY <4>2, <1>n
    <3>4. local'[p].plan = plan /\ local'[p].todo = todo
        BY <3>1
    <3> HIDE DEF plan, todo
    <3> QED
        BY <1>h, <1>op, <2>1, <2>4, <3>1, <3>2, <3>3, <3>4
        DEF PurgeFiles, ShareSteps, DefineSteps, ArmSteps, CleanupSteps
  <2>5. CASE PurgeCredentialTree(p) \/ PurgeRunTrees(p)
    <3>1. /\ UNCHANGED <<task, local>> /\ pc[p] \in {"purEtc", "purRun"}
          /\ pc'[p] \in {"purRun", "replyOk", "replyFail"}
          /\ pc[p] = "purEtc" => pc'[p] # "replyOk"
          /\ pc'[p] = "purRun" => creds' = {} /\ ~tempSecret'
          /\ pc'[p] = "replyOk" => /\ UNCHANGED <<creds, tempSecret>>
                                  /\ \A v \in Units : idRec'[v] = None
        BY <2>5 DEF PurgeCredentialTree, PurgeRunTrees
    <3>2. \A v \in Units : Halves(v) \cap Marker = {}
        BY <1>op, <3>1 DEF FilesKnown, PurgeFiles
    <3>3. pc[p] = "purRun" => creds = {} /\ ~tempSecret
        BY <1>op DEF FilesKnown, PurgeFiles
    <3>4. pc'[p] \in {"purRun", "replyOk"} => creds' = {} /\ ~tempSecret'
        BY <3>1, <3>3
    <3>5. local'[p].plan = plan /\ local'[p].todo = todo
        BY <3>1
    <3> HIDE DEF plan, todo
    <3> QED
        BY <1>h, <1>op, <2>1, <3>1, <3>2, <3>4, <3>5
        DEF PurgeFiles, ShareSteps, DefineSteps, ArmSteps, CleanupSteps
  <2>6. CASE PurgeStopNext(p)
    <3>1. pc'[p] = "purRm" \/ \E m \in todo : Take(p, m) /\ pc'[p] = "stopInspect"
        BY <2>6 DEF PurgeStopNext
    <3> QED
        BY <2>2, <2>3, <2>6, <3>1
  <2>7. CASE PurgeRemoveNext(p)
    <3>1. pc'[p] = "rmReload" \/ \E m \in todo : Take(p, m) /\ pc'[p] = "rmMount"
        BY <2>7 DEF PurgeRemoveNext
    <3> QED
        BY <2>2, <2>4, <2>7, <3>1
  <2>8. ~PurgeCheck(p)
      BY <1>2 DEF PurgeCheck
  <2> QED
      BY <2>5, <2>6, <2>7, <2>8 DEF PurgeStep
<1> QED
    BY <1>1, <1>2 DEF PurgeStep, PurgeStopNext, PurgeRemoveNext, PurgeCredentialTree, PurgeRunTrees

\* The boot pass reads the files; what it plans are complete pairs.
LEMMA BootFilesStep ==
    ASSUME FilesInv, NEW p \in Procs, BootStep(p)
    PROVE  FilesKnown(p)' /\ IdsUnique'
<1>inv. TypeOK /\ Control(p) /\ IdsUnique /\ FilesKnown(p)
    BY DEF FilesInv, SecretInv, ControlInv
<1> USE <1>inv DEF control, disk, Go, TypeOK
<1>op. task[p].op = "boot"
    BY DEF BootStep, BootEnumerate, BootNext, Control
<1>0. UNCHANGED <<mountUnit, automountUnit, creds>>
    BY DEF BootStep, BootEnumerate, BootNext
<1>ids. IdsUnique'
    BY <1>0 DEF IdsUnique, HalfClaims
<1>h. \A v : Halves(v)' = Halves(v)
    BY <1>0 DEF Halves
<1> SUFFICES task'[p].op = "boot" /\ BootFiles(p)'
    BY <1>ids DEF FilesKnown, DefineFiles, PurgeFiles, UndefineFiles
<1>1. CASE BootEnumerate(p)
  <2> DEFINE found == enumerateManagedUnits(mountUnit, automountUnit)
             pairs == {[unit |-> m.unit, marker |-> m.marker] : m \in {x \in found : x.state = "Pair"}}
  <2>1. pc'[p] = "bootNext" /\ UNCHANGED task
      BY <1>1 DEF BootEnumerate
  <2>2. local'[p].todo = pairs
      BY <1>1 DEF BootEnumerate, Local
  <2>3. \A m \in found : m.unit \in Units /\ (m.state = "Pair" => Halves(m.unit) = {m.marker})
      BY PlanTypes, Scanned
  <2> HIDE DEF found
  <2>4. ASSUME NEW m \in pairs PROVE Halves(m.unit) = {m.marker}
    <3>1. PICK k \in found : k.state = "Pair" /\ m = [unit |-> k.unit, marker |-> k.marker]
        BY <2>4
    <3> QED
        BY <2>3, <3>1
  <2> HIDE DEF pairs
  <2> QED
      BY <1>h, <1>op, <2>1, <2>2, <2>4 DEF BootFiles, ArmSteps
<1>2. CASE BootNext(p)
  <2>1. \A m \in local[p].todo : Halves(m.unit) = {m.marker} /\ m.marker \in Marker
    <3>1. local[p].todo \subseteq Managed
        BY DEF Local
    <3>2. pc[p] = "bootNext"
        BY <1>2 DEF BootNext
    <3>3. \A m \in local[p].todo : Halves(m.unit) = {m.marker}
        BY <1>op, <3>2 DEF FilesKnown, BootFiles
    <3> QED
        BY <3>1, <3>3 DEF Managed
  <2>2. CASE pc'[p] = "bootNext" /\ UNCHANGED task /\ local'[p].todo \subseteq local[p].todo
      BY <1>h, <1>op, <2>1, <2>2 DEF BootFiles, ArmSteps
  <2>3. CASE pc'[p] = "replyOk" /\ UNCHANGED task
      BY <1>op, <2>3 DEF BootFiles, ArmSteps
  <2>4. ASSUME NEW m \in local[p].todo,
               task' = [task EXCEPT ![p] = [op |-> "boot", user |-> m.marker.owner,
                                            unit |-> m.unit, id |-> m.marker.id,
                                            auth |-> m.marker.auth]],
               local'[p].todo \subseteq local[p].todo, pc'[p] = "armInspect"
        PROVE  task'[p].op = "boot" /\ BootFiles(p)'
    <3>1. task'[p].op = "boot" /\ UnitOf(p)' = m.unit
        BY <2>4 DEF UnitOf
    <3>2. MarkerOf(p)' = m.marker
        BY <2>1, <2>4 DEF MarkerOf, Marker
    <3> QED
        BY <1>h, <2>1, <2>4, <3>1, <3>2 DEF BootFiles, ArmSteps
  <2>5. \/ pc'[p] = "replyOk" /\ UNCHANGED task
        \/ pc'[p] = "bootNext" /\ UNCHANGED task /\ local'[p].todo \subseteq local[p].todo
        \/ \E m \in local[p].todo :
               /\ task' = [task EXCEPT ![p] = [op |-> "boot", user |-> m.marker.owner,
                                               unit |-> m.unit, id |-> m.marker.id,
                                               auth |-> m.marker.auth]]
               /\ local'[p].todo \subseteq local[p].todo /\ pc'[p] = "armInspect"
    <3>1. CASE local[p].todo = {} /\ Go(p, "replyOk") /\ UNCHANGED <<task, local>>
        BY <3>1
    <3>2. ASSUME NEW m \in local[p].todo,
                 local' = [local EXCEPT ![p].todo = @ \ {m}, ![p].logged = @ \cup {m.unit}],
                 UNCHANGED <<task, pc>>
          PROVE  pc'[p] = "bootNext" /\ UNCHANGED task /\ local'[p].todo \subseteq local[p].todo
      <4> DEFINE r == local[p]
                 seen == r.logged \cup {m.unit}
      <4>1. local'[p] = [r EXCEPT !.todo = @ \ {m}, !.logged = seen] /\ r \in Local
          BY <3>2
      <4> HIDE DEF r, seen
      <4>2. local'[p].todo = r.todo \ {m}
          BY <4>1 DEF Local
      <4> QED
          BY <1>2, <3>2, <4>2 DEF BootNext, r
    <3>3. ASSUME NEW m \in local[p].todo, local' = [local EXCEPT ![p].todo = @ \ {m}]
          PROVE  local'[p].todo \subseteq local[p].todo
        BY <3>3 DEF Local
    <3> QED
        BY <1>2, <3>1, <3>2, <3>3 DEF BootNext
  <2> QED
      BY <2>2, <2>3, <2>4, <2>5
<1> QED
    BY <1>1, <1>2 DEF BootStep

-----------------------------------------------------------------------------
(* The invariant.                                                          *)

\* FilesInv is inductive: the process that moves holds the lock, everybody else
\* leaves the files and the call alone.
LEMMA FilesStep == FilesInv /\ [Next]_vars => FilesInv'
<1> SUFFICES ASSUME FilesInv, [Next]_vars PROVE FilesInv'
    OBVIOUS
<1>inv. SecretInv /\ TypeOK /\ ControlInv /\ IdsUnique /\ \A p \in Procs : FilesKnown(p)
    BY DEF FilesInv, SecretInv
<1>0. SecretInv'
    BY <1>inv, SecretStep
<1>1. ASSUME NEW p \in Procs, Work(p)
      PROVE  (\A q \in Procs : FilesKnown(q)') /\ IdsUnique'
  <2>1. ASSUME NEW q \in Procs, q # p PROVE FilesKnown(q)'
    <3>1. pc'[q] \notin LockedSteps
        BY <1>inv, <1>1, <2>1, WorkFrame DEF OthersKept
    <3> QED
        BY <3>1, FilesUnknown
  <2>2. CASE Reply(p)
    <3>1. pc'[p] \in AtStart /\ UNCHANGED <<mountUnit, automountUnit>>
        BY <1>inv, <2>2 DEF Reply, Go, TypeOK, disk, AtStart
    <3>2. FilesKnown(p)'
        BY <3>1, FilesUnknown
    <3>3. IdsUnique'
        BY <1>inv, <3>1 DEF IdsUnique, HalfClaims
    <3> QED
        BY <2>1, <3>2, <3>3
  <2>3. CASE DefineStep(p) \/ ArmStep(p) \/ RemoveStep(p) \/ PurgeStep(p) \/ BootStep(p)
    <3>1. FilesKnown(p)' /\ IdsUnique'
        BY <2>3, DefineFilesStep, ArmFilesStep, RemoveFilesStep, PurgeFilesStep, BootFilesStep
    <3> QED
        BY <2>1, <3>1
  <2> QED
      BY <1>1, <2>2, <2>3 DEF Work
<1>2. CASE Outside
  <2>1. IdsUnique'
      BY <1>inv, <1>2, OutsideFrame DEF IdsUnique, HalfClaims
  <2>2. ASSUME NEW q \in Procs PROVE FilesKnown(q)'
    <3>1. CASE pc'[q] \in AtStart
        BY <3>1, FilesUnknown
    <3>2. CASE pc'[q] \notin LockedSteps
        BY <3>2, FilesUnknown
    <3>3. CASE pc'[q] \in LockedSteps \ AtStart
        BY <1>inv, <1>2, <3>3, OutsideFrame, FilesStay
    <3> QED
        BY <3>1, <3>2, <3>3
  <2> QED
      BY <1>0, <2>1, <2>2 DEF FilesInv
<1>3. Outside \/ \E p \in Procs : Work(p)
    BY DEF Next, Outside
<1> QED
    BY <1>0, <1>1, <1>2, <1>3 DEF FilesInv

\* FilesInv holds before anything was defined.
LEMMA FilesInit == Init => FilesInv
<1> SUFFICES ASSUME Init PROVE FilesInv
    OBVIOUS
<1>1. SecretInv
    BY SecretInit
<1>2. IdsUnique
    BY LifecycleAssumption, SentinelsDistinct DEF Init, IdsUnique, HalfClaims
<1>3. \A p \in Procs : FilesKnown(p)
    BY DEF Init, NoTask, FilesKnown, DefineFiles, BootFiles, UndefineFiles, PurgeFiles
<1> QED
    BY <1>1, <1>2, <1>3 DEF FilesInv

\* What every call knows of the unit files, from its inspection to its reply,
\* whatever fails and whoever else is at work.
THEOREM FilesInvariant == Spec => []FilesInv
    BY FilesInit, FilesStep, PTL DEF Spec

\* No two units ever carry the same share id: the id drawn under the lock is new
\* to every file on disk, whoever owns it (operations.cpp).
THEOREM ShareIdsUnique == Spec => []IdsUnique
<1>1. FilesInv => IdsUnique
    BY DEF FilesInv
<1> QED
    BY <1>1, FilesInvariant, PTL

-----------------------------------------------------------------------------
(* Who may change a file.                                                  *)

\* Some call made by usr is under way.
CallOf(usr) == \E p \in Procs : pc[p] \in LockedSteps /\ task[p].user = usr

\* A half appears where there was none and disappears in a call of its owner's;
\* a credential goes in a call of the owner of the share that names it.
LEMMA FileChanges ==
    ASSUME FilesInv, [Next]_vars, NEW v \in Units
    PROVE  /\ \/ mountUnit'[v] = mountUnit[v]
              \/ mountUnit[v] = None
              \/ mountUnit'[v] = None /\ mountUnit[v] \in Marker /\ CallOf(mountUnit[v].owner)
           /\ \/ automountUnit'[v] = automountUnit[v]
              \/ automountUnit[v] = None
              \/ automountUnit'[v] = None /\ automountUnit[v] \in Marker
           /\ mountUnit[v] \in Marker /\ mountUnit[v].id \in creds \ creds' => CallOf(mountUnit[v].owner)
<1>inv. SecretInv /\ TypeOK /\ ControlInv /\ IdsUnique /\ \A p \in Procs : FilesKnown(p) /\ Knows(p)
    BY DEF FilesInv, SecretInv
<1>n. None \notin Marker
    BY SentinelsDistinct
<1>1. CASE UNCHANGED <<mountUnit, automountUnit, creds>>
    BY <1>1
<1>2. ASSUME NEW p \in Procs, DefineStep(p)
      PROVE  /\ \/ mountUnit'[v] = mountUnit[v]
                \/ mountUnit[v] = None
                \/ mountUnit'[v] = None /\ mountUnit[v] \in Marker /\ CallOf(mountUnit[v].owner)
             /\ \/ automountUnit'[v] = automountUnit[v]
                \/ automountUnit[v] = None
                \/ automountUnit'[v] = None /\ automountUnit[v] \in Marker
             /\ mountUnit[v] \in Marker /\ mountUnit[v].id \in creds \ creds' => CallOf(mountUnit[v].owner)
  <2> USE <1>inv DEF TypeOK, UnitOf, disk
  <2> DEFINE u == UnitOf(p)
  <2>0. pc[p] \in LockedSteps
      BY <1>2, DefineFrame
  <2>1. CASE WriteMountUnit(p) \/ WriteAutomountUnit(p)
    <3>1. task[p].op = "define" /\ UNCHANGED creds
        BY <2>1 DEF WriteMountUnit, WriteAutomountUnit, ControlInv, Control, DefineSteps
    <3>2. /\ WriteMountUnit(p) => mountUnit[u] = None
          /\ WriteAutomountUnit(p) => automountUnit[u] = None
        BY <3>1 DEF WriteMountUnit, WriteAutomountUnit, Knows, DefineKnows
    <3>3. v # u => mountUnit'[v] = mountUnit[v] /\ automountUnit'[v] = automountUnit[v]
        BY <2>1 DEF WriteMountUnit, WriteAutomountUnit
    <3> QED
        BY <2>1, <3>1, <3>2, <3>3 DEF WriteMountUnit, WriteAutomountUnit
  <2>2. CASE CleanupCredential(p) \/ CleanupAutomount(p) \/ CleanupMount(p)
    <3>1. /\ pc[p] \in CleanupSteps /\ task[p].op = "define" /\ MarkerOf(p) \in Marker
          /\ MarkerOf(p).owner = task[p].user /\ task[p].id \in Ids
        BY <2>2 DEF CleanupCredential, CleanupAutomount, CleanupMount, CleanupSteps, ControlInv, Control,
                    ShareSteps, MarkerOf, Marker, Task
    <3>2. /\ Halves(u) \subseteq {None, MarkerOf(p)}
          /\ \A w \in Units \ {u} : ~Claimed(w, task[p].id)
        BY <3>1 DEF FilesKnown, DefineFiles
    <3>3. /\ mountUnit' \in {mountUnit, [mountUnit EXCEPT ![u] = None]}
          /\ automountUnit' \in {automountUnit, [automountUnit EXCEPT ![u] = None]}
          /\ creds \ creds' \subseteq {task[p].id}
        BY <2>2 DEF CleanupCredential, CleanupAutomount, CleanupMount
    <3>4. CASE v = u
      <4>1. /\ mountUnit[v] \in {None, MarkerOf(p)} /\ automountUnit[v] \in {None, MarkerOf(p)}
            /\ mountUnit'[v] \in {mountUnit[v], None} /\ automountUnit'[v] \in {automountUnit[v], None}
          BY <3>2, <3>3, <3>4 DEF Halves
      <4>2. CallOf(MarkerOf(p).owner)
          BY <2>0, <3>1 DEF CallOf
      <4> QED
          BY <1>n, <3>1, <4>1, <4>2
    <3>5. CASE v # u
        BY <3>2, <3>3, <3>5 DEF Claimed, HalfClaims
    <3> QED
        BY <3>4, <3>5
  <2>3. CASE UNCHANGED <<mountUnit, automountUnit>> /\ creds \subseteq creds'
      BY <2>3
  <2>4. \/ WriteMountUnit(p) \/ WriteAutomountUnit(p)
        \/ CleanupCredential(p) \/ CleanupAutomount(p) \/ CleanupMount(p)
        \/ UNCHANGED <<mountUnit, automountUnit>> /\ creds \subseteq creds'
      BY <1>2 DEF DefineStep, DefineRefuse, DefineCheck, WriteCredential, AssertNoCredential, DefineReload,
                  CleanupRecord, CleanupReload
  <2> QED
      BY <2>1, <2>2, <2>3, <2>4
<1>3. ASSUME NEW p \in Procs, ArmStep(p)
      PROVE  UNCHANGED <<mountUnit, automountUnit, creds>>
    BY <1>3 DEF disk, ArmStep, ArmInspect, ArmTrust, ArmCredential, ArmWalk, ArmStart, ArmStartFails,
                ArmRecheck, ArmFailId, ArmId, ArmRecord, CompensateCheck, CompensateStop,
                CompensateRecord, ArmFailed
<1>4. ASSUME NEW p \in Procs, RemoveStep(p)
      PROVE  /\ \/ mountUnit'[v] = mountUnit[v]
                \/ mountUnit[v] = None
                \/ mountUnit'[v] = None /\ mountUnit[v] \in Marker /\ CallOf(mountUnit[v].owner)
             /\ \/ automountUnit'[v] = automountUnit[v]
                \/ automountUnit[v] = None
                \/ automountUnit'[v] = None /\ automountUnit[v] \in Marker
             /\ mountUnit[v] \in Marker /\ mountUnit[v].id \in creds \ creds' => CallOf(mountUnit[v].owner)
  <2> USE <1>inv DEF TypeOK, UnitOf, disk
  <2> DEFINE u == UnitOf(p)
  <2>0. pc[p] \in LockedSteps
      BY <1>4, RemoveFrame DEF LockedSteps
  <2>1. CASE RemoveCredential(p) \/ RemoveMountUnit(p) \/ RemoveAutomountUnit(p)
    <3>1. /\ pc[p] \in {"rmCred", "rmMount", "rmAutomount"} /\ u \in Units /\ task[p].id \in Ids
          /\ task[p].op \in {"undefine", "purge"}
        BY <2>1 DEF RemoveCredential, RemoveMountUnit, RemoveAutomountUnit, ControlInv, Control, RemoveSteps, ShareSteps
    <3>2. /\ mountUnit' \in {mountUnit, [mountUnit EXCEPT ![u] = None]}
          /\ automountUnit' \in {automountUnit, [automountUnit EXCEPT ![u] = None]}
          /\ creds \ creds' \subseteq {task[p].id}
          /\ pc[p] # "rmCred" => UNCHANGED creds
        BY <2>1 DEF RemoveCredential, RemoveMountUnit, RemoveAutomountUnit
    <3>3. CASE task[p].op = "undefine"
      <4>1. /\ \A f \in Halves(u) \ {None} : f \in Marker /\ f.owner = task[p].user
            /\ pc[p] = "rmCred" => Claimed(u, task[p].id)
          BY <3>1, <3>3 DEF FilesKnown, UndefineFiles
      <4>2. CASE v = u
          BY <2>0, <3>1, <3>2, <4>1, <4>2, <1>n DEF Halves, CallOf
      <4>3. CASE v # u
        <5>1. pc[p] = "rmCred" => ~HalfClaims(mountUnit[v], task[p].id)
            BY <3>1, <4>1, <4>3 DEF IdsUnique, Claimed
        <5> QED
            BY <3>2, <4>3, <5>1 DEF HalfClaims
      <4> QED
          BY <4>2, <4>3
    <3>4. CASE task[p].op = "purge"
      <4>0. pc[p] \in RemoveSteps /\ pc[p] \in ShareSteps
          BY <3>1 DEF RemoveSteps, ShareSteps
      <4>p. PurgeFiles(p)
          BY DEF FilesKnown
      <4>1. /\ \A w \in Units : \A f \in Halves(w) \cap Marker : f.owner = task[p].user
            /\ \A m \in local[p].plan : Halves(m.unit) \subseteq {None, m.marker}
            /\ \E m \in local[p].plan : m.unit = u
          BY <3>4, <4>0, <4>p DEF PurgeFiles
      <4>2. \A m \in local[p].plan : m.marker \in Marker
          BY DEF Local, Managed
      <4>3. Halves(u) \subseteq Marker \cup {None}
          BY <4>1, <4>2
      <4>4. mountUnit[v] \in Marker => CallOf(mountUnit[v].owner)
          BY <2>0, <4>1 DEF Halves, CallOf
      <4> QED
          BY <3>1, <3>2, <4>3, <4>4 DEF Halves
    <3> QED
        BY <3>1, <3>3, <3>4
  <2>2. CASE UNCHANGED <<mountUnit, automountUnit, creds>>
      BY <2>2
  <2> QED
      BY <1>4, <2>1, <2>2
      DEF RemoveStep, UndefineCheck, StopInspect, StopTrust, StopMount, StopAutomount, RemoveRecord, RemoveReload
<1>5. ASSUME NEW p \in Procs, PurgeStep(p) \/ BootStep(p)
      PROVE  /\ UNCHANGED <<mountUnit, automountUnit>>
             /\ mountUnit[v] \in Marker => mountUnit[v].id \notin creds \ creds'
  <2>1. CASE PurgeCredentialTree(p)
    <3>1. task[p].op = "purge" /\ pc[p] = "purEtc"
        BY <1>inv, <2>1 DEF PurgeCredentialTree, ControlInv, Control, PurgeSteps
    <3>2. Halves(v) \cap Marker = {}
        BY <1>inv, <3>1 DEF FilesKnown, PurgeFiles
    <3> QED
        BY <2>1, <3>2 DEF PurgeCredentialTree, Halves
  <2> QED
      BY <1>5, <2>1 DEF PurgeStep, BootStep, PurgeCheck, PurgeStopNext, PurgeRemoveNext, PurgeRunTrees,
                        BootEnumerate, BootNext, disk
<1>6. CASE Outside
    BY <1>inv, <1>1, <1>6, OutsideFrame
<1>7. ASSUME NEW p \in Procs, Reply(p) PROVE UNCHANGED <<mountUnit, automountUnit, creds>>
    BY <1>7 DEF Reply, disk
<1>8. Outside \/ \E p \in Procs : Work(p)
    BY DEF Next, Outside
<1> QED
    BY <1>1, <1>2, <1>3, <1>4, <1>5, <1>6, <1>7, <1>8 DEF Work

\* No interleaving of calls overwrites a definition or touches a unit that this
\* tool did not write.
THEOREM FilesRespected == Spec => UnitFilesRespected
<1>1. FilesInv /\ [Next]_vars =>
        [\A u \in Units :
            /\ mountUnit[u] \in Marker => mountUnit'[u] \in {mountUnit[u], None}
            /\ automountUnit[u] \in Marker => automountUnit'[u] \in {automountUnit[u], None}
            /\ mountUnit[u] \in {Unmarked, Altered} => mountUnit'[u] = mountUnit[u]
            /\ automountUnit[u] \in {Unmarked, Altered} => automountUnit'[u] = automountUnit[u]]_vars
    BY FileChanges, SentinelsDistinct
<1> QED
    BY <1>1, FilesInvariant, PTL DEF Spec, UnitFilesRespected

\* A share's definition and its credential disappear only in a call made by the
\* share's owner.
THEOREM OwnersRemove == Spec => OwnerRemoves
<1>1. FilesInv /\ [Next]_vars =>
        [\A u \in Units :
            /\ mountUnit[u] \in Marker /\ mountUnit'[u] # mountUnit[u]
                  => \E p \in Procs : pc[p] \in LockedSteps /\ task[p].user = mountUnit[u].owner
            /\ mountUnit[u] \in Marker /\ mountUnit[u].id \in creds \ creds'
                  => \E p \in Procs : pc[p] \in LockedSteps /\ task[p].user = mountUnit[u].owner]_vars
    BY FileChanges, SentinelsDistinct DEF CallOf
<1> QED
    BY <1>1, FilesInvariant, PTL DEF Spec, OwnerRemoves
=============================================================================
