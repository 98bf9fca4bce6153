-------------------------- MODULE ShareTriggersProofs --------------------------
(***************************************************************************)
(* What the privileged operations keep of the triggers they start: armed   *)
(* over complete definitions only, and as a success reply says.            *)
(***************************************************************************)
EXTENDS ShareFilesProofs

-----------------------------------------------------------------------------
(* PID 1 and the kernel.                                                   *)

\* systemctl start leaves the unit's trigger active, as its own if there was
\* none; no other trigger changes.
LEMMA Started ==
    ASSUME TypeOK, KernelInv, NEW u \in Units, NEW who \in {"own", "foreign"}, StartTrigger(u, who)
    PROVE  /\ autofs'[u] # None
           /\ \A v \in Units \ {u} : autofs'[v] = autofs[v] /\ origin'[v] = origin[v]
           /\ origin'[u] = IF autofs[u] # None THEN origin[u] ELSE who
<1>1. CASE autofs[u] # None
    BY <1>1 DEF StartTrigger
<1>2. CASE autofs[u] = None
  <2>1. PICK i \in FreshMountIds : autofs' = [autofs EXCEPT ![u] = i]
      BY <1>2 DEF StartTrigger
  <2>2. i # None
      BY LifecycleAssumption DEF FreshMountIds
  <2> QED
      BY <1>2, <2>1, <2>2 DEF StartTrigger, TypeOK
<1> QED
    BY <1>1, <1>2

\* systemctl stop leaves it inactive.
LEMMA Stopped ==
    ASSUME TypeOK, NEW u \in Units, StopTrigger(u)
    PROVE  /\ autofs'[u] = None /\ origin'[u] = "none" /\ lateStart' \subseteq lateStart
           /\ \A v \in Units \ {u} : autofs'[v] = autofs[v] /\ origin'[v] = origin[v]
BY DEF StopTrigger, TypeOK

\* A conclusive look at a unit says what its trigger is.
LEMMA Viewed ==
    ASSUME NEW u \in Units, NEW what, NEW s \in runtimeViews(u, what)
    PROVE  /\ s.automount = "Active" => autofs[u] # None
           /\ s.automount = "Inactive" => autofs[u] = None
BY DEF runtimeViews

\* What a step does to the triggers.
KernelMove ==
    \/ UNCHANGED <<autofs, origin>>
    \/ \E u \in Units : StartTrigger(u, "own")
    \/ \E u \in Units : ByHand /\ StartTrigger(u, "foreign")
    \/ \E u \in Units : StopTrigger(u)
    \/ Reboot

\* Every step of a call and every step outside the calls is such a move.
LEMMA KernelMoves ==
    ASSUME TypeOK, ControlInv, [Next]_vars
    PROVE  KernelMove
<1>1. ASSUME NEW p \in Procs, Work(p) PROVE KernelMove
  <2>u. pc[p] \in ArmSteps \cup StopSteps => UnitOf(p) \in Units
      BY DEF ControlInv, Control, ShareSteps, UnitOf
  <2>1. CASE Reply(p) \/ DefineStep(p) \/ PurgeStep(p) \/ BootStep(p)
      BY <2>1 DEF KernelMove, kernel, Reply, DefineStep, DefineRefuse, DefineCheck, WriteMountUnit,
         WriteAutomountUnit, WriteCredential, AssertNoCredential, DefineReload, CleanupCredential,
         CleanupAutomount, CleanupMount, CleanupRecord, CleanupReload, PurgeStep, PurgeCheck,
         PurgeStopNext, PurgeRemoveNext, PurgeCredentialTree, PurgeRunTrees, BootStep, BootEnumerate, BootNext
  <2>2. CASE ArmStep(p)
    <3>1. pc[p] \in ArmSteps
        BY <2>2, ArmFrame
    <3> QED
        BY <2>2, <2>u, <3>1 DEF KernelMove, kernel, ArmStep, ArmInspect, ArmTrust, ArmCredential, ArmWalk, ArmStart,
           ArmStartFails, ArmRecheck, ArmFailId, ArmId, ArmRecord, CompensateCheck, CompensateStop,
           CompensateRecord, ArmFailed
  <2>3. CASE RemoveStep(p)
      BY <2>3, <2>u DEF KernelMove, kernel, StopSteps, RemoveStep, UndefineCheck, StopInspect, StopTrust,
         StopMount, StopAutomount, RemoveCredential, RemoveMountUnit, RemoveAutomountUnit, RemoveRecord,
         RemoveReload
  <2> QED
      BY <1>1, <2>1, <2>2, <2>3 DEF Work
<1>2. CASE Outside
    BY <1>2 DEF KernelMove, Outside, Call, CallDefine, CallUndefine, CallPurge, BootStart, AcquireLock,
       LockUnavailable, Environment, Crash, AccessPath, IdleUnmount, HandStart, HandStop, HandMount,
       HandUnmount, LateStart, ByHand, kernel, vars
<1>3. Outside \/ \E p \in Procs : Work(p)
    BY DEF Next, Outside
<1> QED
    BY <1>1, <1>2, <1>3

\* A trigger is somebody's, and only an administrator's is foreign.
LEMMA KernelStep ==
    ASSUME TypeOK, ControlInv, KernelInv, [Next]_vars
    PROVE  KernelInv'
<1>1. CASE UNCHANGED <<autofs, origin>>
    BY <1>1 DEF KernelInv, ByHand
<1>2. ASSUME NEW u \in Units, NEW who \in {"own", "foreign"}, StartTrigger(u, who), who = "foreign" => ByHand
      PROVE  KernelInv'
    BY <1>2, Started DEF KernelInv, ByHand
<1>3. ASSUME NEW u \in Units, StopTrigger(u) PROVE KernelInv'
    BY <1>3, Stopped DEF KernelInv, ByHand
<1>4. CASE Reboot
    BY <1>4 DEF Reboot, KernelInv
<1> QED
    BY KernelMoves, <1>1, <1>2, <1>3, <1>4 DEF KernelMove

\* What calls, crashes, users and administrators do to triggers: without an
\* administrator none is stopped, and without a late start job none of the
\* tool's own appears.
LEMMA OutsideTriggers ==
    ASSUME TypeOK, KernelInv, Outside
    PROVE  /\ ~ByHand /\ ~Reboot => \A v \in Units : autofs[v] # None => autofs'[v] # None
           /\ lateStart = {} => /\ lateStart' = {}
                                /\ \A v \in Units : origin'[v] = "own" => origin[v] = "own"
           /\ lateStart = {} /\ ~ByHand /\ ~Reboot => UNCHANGED <<origin, loaded>>
<1>1. CASE UNCHANGED kernel
    BY <1>1 DEF kernel
<1>2. CASE Reboot
    BY <1>2 DEF Reboot
<1>3. ASSUME NEW u \in Units, AccessPath(u) \/ IdleUnmount(u) \/ HandMount(u) \/ HandUnmount(u)
      PROVE  UNCHANGED <<loaded, autofs, origin, lateStart>>
    BY <1>3 DEF AccessPath, IdleUnmount, HandMount, HandUnmount
<1>4. ASSUME NEW u \in Units, HandStart(u)
      PROVE  ByHand /\ UNCHANGED lateStart /\ \A v \in Units : origin'[v] = "own" => origin[v] = "own"
    BY <1>4, Started DEF HandStart, ByHand
<1>5. ASSUME NEW u \in Units, HandStop(u)
      PROVE  /\ ByHand /\ lateStart' \subseteq lateStart
             /\ \A v \in Units : origin'[v] = "own" => origin[v] = "own"
    BY <1>5, Stopped DEF HandStop, ByHand
<1>6. ASSUME NEW u \in Units, LateStart(u)
      PROVE  lateStart # {} /\ \A v \in Units : autofs[v] # None => autofs'[v] # None
    BY <1>6, Started DEF LateStart
<1>7. \/ UNCHANGED kernel
      \/ Reboot
      \/ \E u \in Units : \/ AccessPath(u) \/ IdleUnmount(u) \/ HandMount(u) \/ HandUnmount(u)
                          \/ HandStart(u) \/ HandStop(u) \/ LateStart(u)
    BY DEF Outside, Call, CallDefine, CallUndefine, CallPurge, BootStart, AcquireLock,
           LockUnavailable, Environment, Crash, vars
<1> QED
    BY <1>1, <1>2, <1>3, <1>4, <1>5, <1>6, <1>7

-----------------------------------------------------------------------------
(* What armShare has seen, and what boot still owes, under any faults.     *)

\* A call outside the lock, or just past it, claims nothing of the triggers.
LEMMA TriggersUnknown ==
    ASSUME NEW q \in Procs, pc'[q] \notin LockedSteps \/ pc'[q] \in AtStart
    PROVE  ArmKnows(q)' /\ DefineTriggers(q)' /\ RemovalTriggers(q)'
BY DEF ArmKnows, DefineTriggers, RemovalTriggers, AtStart, LockedSteps, DefineSteps, ArmSteps,
       CleanupSteps, StopSteps, RemoveSteps, PurgeSteps, ReplySteps

\* definesystem, undefinesystem and purge arm nothing themselves.
LEMMA OthersArmNothing ==
    ASSUME FilesInv, NEW p \in Procs, DefineStep(p) \/ RemoveStep(p) \/ PurgeStep(p)
    PROVE  ArmKnows(p)'
<1>inv. TypeOK /\ Control(p)
    BY DEF FilesInv, SecretInv, ControlInv
<1> USE <1>inv DEF TypeOK, Go, control
<1> SUFFICES pc'[p] \notin {"armTrust", "armId", "armRecord"} /\ task'[p].op # "boot"
    BY DEF ArmKnows
<1>1. CASE DefineStep(p)
  <2>1. task[p].op = "define"
      BY <1>1 DEF DefineStep, DefineRefuse, DefineCheck, WriteMountUnit, WriteAutomountUnit, WriteCredential,
             AssertNoCredential, DefineReload, CleanupCredential, CleanupAutomount, CleanupMount,
             CleanupRecord, CleanupReload, Control, DefineSteps, CleanupSteps
  <2>2. CASE DefineCheck(p)
    <3>1. PICK i : task' = [task EXCEPT ![p].id = i]
        BY <2>2 DEF DefineCheck
    <3>2. task'[p].op = task[p].op
        BY <3>1 DEF Task
    <3> QED
        BY <2>1, <2>2, <3>2 DEF DefineCheck
  <2>3. CASE ~DefineCheck(p)
      BY <1>1, <2>1, <2>3 DEF DefineStep, DefineRefuse, WriteMountUnit, WriteAutomountUnit,
             WriteCredential, AssertNoCredential, DefineReload, CleanupCredential, CleanupAutomount, CleanupMount,
             CleanupRecord, CleanupReload
  <2> QED
      BY <2>2, <2>3
<1>2. CASE RemoveStep(p)
  <2>1. task[p].op # "boot"
      BY <1>2, RemoveFrame DEF Control
  <2>2. CASE UndefineCheck(p)
    <3>1. task' = task \/ \E i : task' = [task EXCEPT ![p].id = i]
        BY <2>2 DEF UndefineCheck
    <3>2. task'[p].op = task[p].op
        BY <3>1 DEF Task
    <3> QED
        BY <2>1, <2>2, <3>2 DEF UndefineCheck
  <2>3. CASE ~UndefineCheck(p)
      BY <1>2, <2>1, <2>3 DEF RemoveStep, StopInspect, StopTrust, StopMount, StopAutomount, RemoveCredential,
             RemoveMountUnit, RemoveAutomountUnit, RemoveRecord, RemoveReload, StopDone, AfterRemoval
  <2> QED
      BY <2>2, <2>3
<1>3. CASE PurgeStep(p)
  <2>1. task[p].op = "purge"
      BY <1>3 DEF PurgeStep, PurgeCheck, PurgeStopNext, PurgeRemoveNext, PurgeCredentialTree, PurgeRunTrees,
                  Control, PurgeSteps
  <2>2. UNCHANGED task \/ \E m : Take(p, m)
      BY <1>3 DEF PurgeStep, PurgeCheck, PurgeStopNext, PurgeRemoveNext, PurgeCredentialTree, PurgeRunTrees
  <2>3. task'[p].op = "purge"
      BY <2>1, <2>2, Taken
  <2> QED
      BY <1>3, <2>3 DEF PurgeStep, PurgeCheck, PurgeStopNext, PurgeRemoveNext, PurgeCredentialTree, PurgeRunTrees
<1> QED
    BY <1>1, <1>2, <1>3

\* What armShare has seen active is active, and what it leaves is armed or on
\* boot's report.
LEMMA ArmKnowsStep ==
    ASSUME FilesInv, KernelInv, NEW p \in Procs, ArmKnows(p), ArmStep(p)
    PROVE  ArmKnows(p)'
<1>inv. TypeOK /\ Control(p)
    BY DEF FilesInv, SecretInv, ControlInv
<1> USE <1>inv DEF TypeOK, Go, control, disk, kernel, ArmSteps, UnitOf
<1> DEFINE u == UnitOf(p)
<1>1. pc[p] \in ArmSteps /\ UNCHANGED task
    BY ArmFrame
<1>u. u \in Units /\ task[p].op \in {"define", "boot"}
    BY <1>1 DEF Control, ShareSteps
<1>2. /\ pc'[p] \in ArmSteps \cup {"replyFail"} \cup
                      (IF task[p].op = "define" THEN {"clCred", "replyOk"} ELSE {"bootNext"})
      /\ local'[p].todo = local[p].todo /\ local[p].logged \subseteq local'[p].logged
      /\ UNCHANGED <<mountUnit, automountUnit, creds>>
      /\ \A v \in Units \ {u} : autofs'[v] = autofs[v]
      /\ pc'[p] \in ArmSteps \/ UNCHANGED autofs
  <2> USE DEF ArmSucceeds, Local
  <2>1. CASE ArmInspect(p) \/ ArmTrust(p)
      BY <1>u, <2>1 DEF ArmInspect, ArmTrust
  <2>2. CASE ArmCredential(p) \/ ArmWalk(p)
      BY <2>2 DEF ArmCredential, ArmWalk
  <2>3. CASE ArmStart(p) \/ ArmStartFails(p)
      BY <1>u, <2>3, Started DEF ArmStart, ArmStartFails
  <2>4. CASE ArmRecheck(p) \/ ArmFailId(p) \/ ArmId(p)
      BY <2>4 DEF ArmRecheck, ArmFailId, ArmId
  <2>5. CASE ArmRecord(p) \/ CompensateCheck(p)
      BY <1>u, <2>5 DEF ArmRecord, CompensateCheck
  <2>6. CASE CompensateStop(p) \/ CompensateRecord(p)
    <3>1. /\ pc'[p] \in {"compRec", "armFailed"}
          /\ UNCHANGED <<mountUnit, automountUnit, creds>>
        BY <2>6 DEF CompensateStop, CompensateRecord
    <3>2. \A v \in Units \ {u} : autofs'[v] = autofs[v]
      <4>1. StopTrigger(u) \/ UNCHANGED autofs
          BY <2>6 DEF CompensateStop, CompensateRecord
      <4> QED
          BY <1>u, <4>1, Stopped
    <3>3. local'[p].todo = local[p].todo /\ local'[p].logged = local[p].logged
      <4>1. UNCHANGED local \/ local' = [local EXCEPT ![p].safe = FALSE]
          BY <2>6 DEF CompensateStop, CompensateRecord
      <4> QED
          BY <4>1
    <3> QED
        BY <3>1, <3>2, <3>3
  <2>7. CASE ArmFailed(p)
    <3>1. UNCHANGED <<mountUnit, automountUnit, creds, autofs>>
        BY <2>7 DEF ArmFailed
    <3>2. /\ pc'[p] \in {"replyFail"} \cup (IF task[p].op = "define" THEN {"clCred"} ELSE {"bootNext"})
        BY <1>u, <2>7 DEF ArmFailed
    <3> DEFINE r == local[p]
               seen == IF task[p].op = "boot" THEN r.logged \cup {UnitOf(p)} ELSE r.logged
    <3>3. r \in Local /\ local'[p] = [r EXCEPT !.started = None, !.safe = TRUE, !.logged = seen]
        BY <2>7 DEF ArmFailed
    <3>4. r.logged \subseteq seen
        OBVIOUS
    <3> HIDE DEF r, seen
    <3>5. local'[p].todo = r.todo /\ r.logged \subseteq local'[p].logged
        BY <3>3, <3>4 DEF Local
    <3> QED
        BY <3>1, <3>2, <3>5 DEF r
  <2> QED
      BY <2>1, <2>2, <2>3, <2>4, <2>5, <2>6, <2>7 DEF ArmStep
\* What was seen.
<1>3. pc'[p] = "armTrust" /\ local'[p].snap.automount = "Active" => autofs'[u] # None
  <2>1. pc'[p] = "armTrust" => ArmInspect(p)
      BY DEF ArmStep, ArmTrust, ArmCredential, ArmWalk, ArmStart, ArmStartFails, ArmRecheck, ArmFailId, ArmId,
             ArmRecord, CompensateCheck, CompensateStop, CompensateRecord, ArmFailed, ArmSucceeds
  <2>2. CASE ArmInspect(p)
    <3>1. PICK s \in runtimeViews(u, "ours") : local' = [local EXCEPT ![p].snap = s]
        BY <2>2 DEF ArmInspect
    <3>2. local'[p].snap = s /\ UNCHANGED autofs
        BY <2>2, <3>1 DEF Local, ArmInspect
    <3> QED
        BY <1>u, <3>2, Viewed
  <2> QED
      BY <2>1, <2>2
<1>4. pc'[p] \in {"armId", "armRecord"} => autofs'[u] # None \/ ByHand
  <2>1. pc'[p] \in {"armId", "armRecord"} => ArmStart(p) \/ ArmId(p)
      BY DEF ArmStep, ArmInspect, ArmTrust, ArmCredential, ArmWalk, ArmStartFails, ArmRecheck, ArmFailId,
             ArmRecord, CompensateCheck, CompensateStop, CompensateRecord, ArmFailed, ArmSucceeds
  <2>2. CASE ArmStart(p)
      BY <1>u, <2>2, Started DEF ArmStart
  <2>3. CASE ArmId(p)
      BY <2>3 DEF ArmId, ArmKnows
  <2> QED
      BY <2>1, <2>2, <2>3
\* What boot may tick off.
<1>5. task[p].op = "boot" /\ pc'[p] = "bootNext" => autofs'[u] # None \/ ByHand \/ u \in local'[p].logged
  <2>1. pc'[p] = "bootNext" => ArmTrust(p) \/ ArmRecord(p) \/ ArmFailed(p)
      BY DEF ArmStep, ArmInspect, ArmCredential, ArmWalk, ArmStart, ArmStartFails, ArmRecheck, ArmFailId, ArmId,
             CompensateCheck, CompensateStop, CompensateRecord
  <2>2. CASE ArmTrust(p) /\ pc'[p] = "bootNext"
    <3>1. evaluateArmPrecheck(WithTrust(local[p].snap, u)) = "AlreadyArmed"
        BY <2>2 DEF ArmTrust
    <3>2. local[p].snap.automount = "Active"
        BY <3>1 DEF evaluateArmPrecheck, WithTrust, Local, Snapshot
    <3> QED
        BY <2>2, <3>2 DEF ArmTrust, ArmKnows
  <2>3. CASE ArmRecord(p)
      BY <2>3 DEF ArmRecord, ArmKnows
  <2>4. ASSUME ArmFailed(p), task[p].op = "boot" PROVE u \in local'[p].logged
    <3> DEFINE r == local[p]
    <3>1. r \in Local /\ local'[p] = [r EXCEPT !.started = None, !.safe = TRUE, !.logged = r.logged \cup {u}]
        BY <2>4 DEF ArmFailed
    <3> HIDE DEF r
    <3> QED
        BY <3>1 DEF Local
  <2> QED
      BY <2>1, <2>2, <2>3, <2>4
<1>6. \A v \in Units : Complete(v)' = Complete(v)
    BY <1>2 DEF Complete
<1>7. task[p].op = "boot" /\ pc'[p] \in {"bootNext", "replyOk"} \cup ArmSteps =>
         \A v \in Units : Complete(v) =>
              \/ autofs'[v] # None \/ ByHand
              \/ v \in local'[p].logged
              \/ pc'[p] # "replyOk" /\ \E m \in local'[p].todo : m.unit = v
              \/ pc'[p] \in ArmSteps /\ v = u
  <2>1. SUFFICES ASSUME task[p].op = "boot", pc'[p] \in {"bootNext"} \cup ArmSteps,
                        NEW v \in Units, Complete(v)
                 PROVE  \/ autofs'[v] # None \/ ByHand
                        \/ v \in local'[p].logged
                        \/ \E m \in local'[p].todo : m.unit = v
                        \/ pc'[p] \in ArmSteps /\ v = u
      BY <1>2
  <2>2. \/ autofs[v] # None \/ ByHand
        \/ v \in local[p].logged
        \/ \E m \in local[p].todo : m.unit = v
        \/ v = u
      BY <1>1, <2>1 DEF ArmKnows
  <2>3. CASE v # u
      BY <1>2, <2>2, <2>3
  <2>4. CASE v = u
      BY <1>5, <2>1, <2>4
  <2> QED
      BY <2>3, <2>4
<1>8. UNCHANGED task
    BY <1>1
<1> HIDE DEF ArmSteps
<1> QED
    BY <1>2, <1>3, <1>4, <1>6, <1>7, <1>8 DEF ArmKnows, ByHand

\* The boot pass plans every complete pair it finds, and logs what it skips.
LEMMA BootKnowsStep ==
    ASSUME FilesInv, NEW p \in Procs, ArmKnows(p), BootStep(p)
    PROVE  ArmKnows(p)'
<1>inv. TypeOK /\ Control(p)
    BY DEF FilesInv, SecretInv, ControlInv
<1> USE <1>inv DEF TypeOK, Go, control, disk, kernel
<1>0. UNCHANGED <<mountUnit, automountUnit, creds, autofs>>
    BY DEF BootStep, BootEnumerate, BootNext
<1>1. pc'[p] \in {"bootNext", "replyOk", "armInspect"}
    BY DEF BootStep, BootEnumerate, BootNext
<1>2. \A v \in Units : Complete(v)' = Complete(v)
    BY <1>0 DEF Complete
<1> SUFFICES ASSUME NEW v \in Units, Complete(v)
             PROVE  \/ autofs[v] # None \/ ByHand
                    \/ v \in local'[p].logged
                    \/ pc'[p] # "replyOk" /\ \E m \in local'[p].todo : m.unit = v
                    \/ pc'[p] = "armInspect" /\ v = UnitOf(p)'
    BY <1>0, <1>1, <1>2 DEF ArmKnows, ByHand, ArmSteps, UnitOf
<1>3. CASE BootEnumerate(p)
  <2> DEFINE found == enumerateManagedUnits(mountUnit, automountUnit)
             pairs == {[unit |-> m.unit, marker |-> m.marker] : m \in {x \in found : x.state = "Pair"}}
             rest == {m.unit : m \in {x \in found : x.state # "Pair"}}
             r == local[p]
  <2>1. PICK m \in found : m.unit = v
      BY Scanned DEF Complete, Halves
  <2> HIDE DEF found
  <2>2. v \in rest \/ \E k \in pairs : k.unit = v
    <3>1. CASE m.state = "Pair"
      <4>1. [unit |-> m.unit, marker |-> m.marker] \in pairs
          BY <3>1
      <4> QED
          BY <2>1, <4>1
    <3>2. CASE m.state # "Pair"
        BY <2>1, <3>2
    <3> QED
        BY <3>1, <3>2
  <2>3. local'[p] = [r EXCEPT !.todo = pairs, !.logged = rest] /\ r \in Local
      BY <1>3 DEF BootEnumerate, found
  <2> HIDE DEF pairs, rest, r
  <2>4. local'[p].todo = pairs /\ local'[p].logged = rest
      BY <2>3 DEF Local
  <2>5. pc'[p] = "bootNext"
      BY <1>3 DEF BootEnumerate
  <2> QED
      BY <2>2, <2>4, <2>5
<1>4. CASE BootNext(p)
  <2>1. \/ autofs[v] # None \/ ByHand
        \/ v \in local[p].logged
        \/ \E m \in local[p].todo : m.unit = v
      BY <1>4 DEF BootNext, ArmKnows, ArmSteps, Control
  <2> DEFINE r == local[p]
  <2>r. r \in Local
      OBVIOUS
  <2>2. CASE local[p].todo = {} /\ Go(p, "replyOk") /\ UNCHANGED <<task, local>>
      BY <2>1, <2>2
  <2>3. ASSUME NEW m \in local[p].todo,
               local' = [local EXCEPT ![p].todo = @ \ {m}, ![p].logged = @ \cup {m.unit}],
               UNCHANGED <<task, pc>>
        PROVE  \/ autofs[v] # None \/ ByHand
               \/ v \in local'[p].logged
               \/ pc'[p] # "replyOk" /\ \E k \in local'[p].todo : k.unit = v
    <3>1. local'[p] = [r EXCEPT !.todo = @ \ {m}, !.logged = @ \cup {m.unit}]
        BY <2>3
    <3> HIDE DEF r
    <3>2. local'[p].todo = r.todo \ {m} /\ local'[p].logged = r.logged \cup {m.unit}
        BY <2>r, <3>1 DEF Local
    <3>3. pc'[p] = "bootNext"
        BY <1>4, <2>3 DEF BootNext
    <3> QED
        BY <2>1, <3>2, <3>3 DEF r
  <2>4. ASSUME NEW m \in local[p].todo,
               task' = [task EXCEPT ![p] = [op |-> "boot", user |-> m.marker.owner,
                                            unit |-> m.unit, id |-> m.marker.id,
                                            auth |-> m.marker.auth]],
               local' = [local EXCEPT ![p].todo = @ \ {m}], Go(p, "armInspect")
        PROVE  \/ autofs[v] # None \/ ByHand
               \/ v \in local'[p].logged
               \/ pc'[p] # "replyOk" /\ \E k \in local'[p].todo : k.unit = v
               \/ pc'[p] = "armInspect" /\ v = UnitOf(p)'
    <3>1. local'[p] = [r EXCEPT !.todo = @ \ {m}] /\ UnitOf(p)' = m.unit /\ pc'[p] = "armInspect"
        BY <2>4 DEF UnitOf
    <3> HIDE DEF r
    <3>2. local'[p].todo = r.todo \ {m} /\ local'[p].logged = r.logged
        BY <2>r, <3>1 DEF Local
    <3> QED
        BY <2>1, <3>1, <3>2 DEF r
  <2> QED
      BY <1>4, <2>2, <2>3, <2>4 DEF BootNext
<1> QED
    BY <1>3, <1>4 DEF BootStep

-----------------------------------------------------------------------------
(* The tool's own triggers, when no start job outlives its systemctl.      *)

\* A trigger of its own runs over a complete definition unless the step takes
\* something of that definition.
LEMMA StayBacked ==
    ASSUME TriggerBacked,
           \A v \in Units : origin'[v] = "own" => origin[v] = "own" /\ (Complete(v) => Complete(v)')
    PROVE  TriggerBacked'
BY DEF TriggerBacked

\* define starts from a mount point without a definition, so without a trigger
\* of the tool's; what it removes is of that mount point and of its own id.
LEMMA DefineTriggersStep ==
    ASSUME FilesInv, NoLateStart, NEW p \in Procs, DefineStep(p)
    PROVE  /\ lateStart' = {} /\ TriggerBacked'
           /\ DefineTriggers(p)' /\ RemovalTriggers(p)'
<1>inv. TypeOK /\ Control(p) /\ FilesKnown(p) /\ TriggerBacked /\ DefineTriggers(p) /\ lateStart = {}
    BY DEF FilesInv, SecretInv, ControlInv, NoLateStart
<1> USE <1>inv DEF TypeOK, Go, control, disk, kernel
<1> DEFINE u == UnitOf(p)
<1>op. task[p].op = "define" /\ u \in Units /\ pc[p] \in DefineSteps \cup CleanupSteps
    BY DEF DefineStep, DefineRefuse, DefineCheck, WriteMountUnit, WriteAutomountUnit, WriteCredential,
           AssertNoCredential, DefineReload, CleanupCredential, CleanupAutomount, CleanupMount,
           CleanupRecord, CleanupReload, Control, UnitOf, DefineSteps, CleanupSteps
<1>1. /\ UNCHANGED <<autofs, origin>> /\ lateStart' = {}
      /\ pc'[p] \in (DefineSteps \ {"define"}) \cup CleanupSteps \cup {"armInspect", "replyFail"}
    BY DEF DefineStep, DefineRefuse, DefineCheck, WriteMountUnit, WriteAutomountUnit, WriteCredential,
           AssertNoCredential, DefineReload, CleanupCredential, CleanupAutomount, CleanupMount,
           CleanupRecord, CleanupReload, DaemonReload, DefineSteps, CleanupSteps
<1>2. task'[p].op = "define" /\ UnitOf(p)' = u
  <2>1. CASE DefineCheck(p)
    <3>1. PICK i : task' = [task EXCEPT ![p].id = i]
        BY <2>1 DEF DefineCheck
    <3> QED
        BY <1>op, <3>1 DEF Task, UnitOf
  <2>2. CASE UNCHANGED task
      BY <1>op, <2>2 DEF UnitOf
  <2> QED
      BY <2>1, <2>2 DEF DefineStep, DefineRefuse, WriteMountUnit, WriteAutomountUnit, WriteCredential,
         AssertNoCredential, DefineReload, CleanupCredential, CleanupAutomount, CleanupMount,
         CleanupRecord, CleanupReload
\* No trigger of the tool's runs where the definition is being made.
<1>3. origin[u] # "own" \/ pc'[p] = "replyFail"
  <2>1. CASE pc[p] = "define"
    <3>1. CASE DefineCheck(p)
      <4>1. mountUnit[u] = None
          BY <1>op, <3>1, Inspected DEF DefineCheck, UnitOf
      <4> QED
          BY <1>op, <4>1, SentinelsDistinct DEF TriggerBacked, Complete
    <3>2. CASE ~DefineCheck(p)
        BY <2>1, <3>2 DEF DefineStep, DefineRefuse, WriteMountUnit, WriteAutomountUnit, WriteCredential,
           AssertNoCredential, DefineReload, CleanupCredential, CleanupAutomount, CleanupMount,
           CleanupRecord, CleanupReload
    <3> QED
        BY <3>1, <3>2
  <2>2. CASE pc[p] # "define"
      BY <1>op, <2>2 DEF DefineTriggers
  <2> QED
      BY <2>1, <2>2
<1>4. DefineTriggers(p)'
    BY <1>1, <1>2, <1>3 DEF DefineTriggers, DefineSteps, CleanupSteps
<1>5. RemovalTriggers(p)'
    BY <1>1, <1>2 DEF RemovalTriggers, DefineSteps, CleanupSteps
<1>6. TriggerBacked'
  <2>1. CASE UNCHANGED <<mountUnit, automountUnit, creds>>
      BY <1>1, <2>1 DEF TriggerBacked, Complete
  <2>2. CASE ~UNCHANGED <<mountUnit, automountUnit, creds>>
    <3>1. pc[p] # "define" /\ (pc'[p] # "replyFail" \/ UNCHANGED <<mountUnit, automountUnit, creds>>)
        BY <2>2 DEF DefineStep, DefineRefuse, DefineCheck, WriteMountUnit, WriteAutomountUnit, WriteCredential,
           AssertNoCredential, DefineReload, CleanupCredential, CleanupAutomount, CleanupMount,
           CleanupRecord, CleanupReload
    <3>2. origin[u] # "own"
        BY <1>3, <2>2, <3>1
    <3>3. \A v \in Units \ {u} : ~Claimed(v, task[p].id)
        BY <1>op, <3>1 DEF FilesKnown, DefineFiles
    <3>4. /\ \A v \in Units \ {u} : mountUnit'[v] = mountUnit[v] /\ automountUnit'[v] = automountUnit[v]
          /\ creds \ creds' \subseteq {task[p].id}
        BY <3>1 DEF UnitOf, DefineStep, DefineRefuse, DefineCheck, WriteMountUnit, WriteAutomountUnit,
           WriteCredential, AssertNoCredential, DefineReload, CleanupCredential, CleanupAutomount,
           CleanupMount, CleanupRecord, CleanupReload
    <3>5. ASSUME NEW v \in Units \ {u}, Complete(v) PROVE Complete(v)'
        BY <3>3, <3>4, <3>5 DEF Complete, Claimed, HalfClaims
    <3> QED
        BY <1>1, <3>2, <3>5, StayBacked
  <2> QED
      BY <2>1, <2>2
<1> QED
    BY <1>1, <1>4, <1>5, <1>6

\* armShare starts a trigger only over the complete definition, lets define
\* clean up only when no trigger of the tool's is left, and succeeds only with
\* one.
LEMMA ArmTriggersStep ==
    ASSUME FilesInv, KernelInv, NoLateStart, "late" \notin Faults,
           NEW p \in Procs, ArmKnows(p), ArmStep(p)
    PROVE  /\ lateStart' = {} /\ TriggerBacked'
           /\ DefineTriggers(p)' /\ RemovalTriggers(p)'
<1>inv. TypeOK /\ Control(p) /\ FilesKnown(p) /\ TriggerBacked /\ DefineTriggers(p) /\ lateStart = {}
    BY DEF FilesInv, SecretInv, ControlInv, NoLateStart
<1> USE <1>inv DEF TypeOK, Go, control, disk, kernel, UnitOf
<1> DEFINE u == UnitOf(p)
<1>1. pc[p] \in ArmSteps /\ UNCHANGED task
    BY ArmFrame
<1>u. u \in Units /\ task[p].op \in {"define", "boot"}
    BY <1>1 DEF Control, ShareSteps
<1>b. Complete(u) \/ pc[p] # "armStart"
    BY <1>1, <1>u DEF FilesKnown, DefineFiles, BootFiles
<1>f. UNCHANGED <<mountUnit, automountUnit, creds>>
    BY DEF ArmStep, ArmInspect, ArmTrust, ArmCredential, ArmWalk, ArmStart, ArmStartFails, ArmRecheck,
           ArmFailId, ArmId, ArmRecord, CompensateCheck, CompensateStop, CompensateRecord, ArmFailed
<1>k. \/ StartTrigger(u, "own") /\ pc[p] = "armStart" /\ UNCHANGED lateStart
      \/ StopTrigger(u) /\ pc[p] = "compStop"
      \/ UNCHANGED <<autofs, origin, lateStart>>
    BY DEF ArmStep, ArmInspect, ArmTrust, ArmCredential, ArmWalk, ArmStart, ArmStartFails, ArmRecheck,
           ArmFailId, ArmId, ArmRecord, CompensateCheck, CompensateStop, CompensateRecord, ArmFailed
<1>2. lateStart' = {} /\ TriggerBacked'
  <2>1. CASE StartTrigger(u, "own") /\ pc[p] = "armStart" /\ UNCHANGED lateStart
      BY <1>u, <1>b, <1>f, <2>1, Started DEF TriggerBacked, Complete
  <2>2. CASE StopTrigger(u)
      BY <1>u, <1>f, <2>2, Stopped DEF TriggerBacked, Complete
  <2>3. CASE UNCHANGED <<autofs, origin, lateStart>>
      BY <1>f, <2>3 DEF TriggerBacked, Complete
  <2> QED
      BY <1>k, <2>1, <2>2, <2>3
<1>3. pc'[p] \in ArmSteps \cup {"replyFail", "replyOk", "clCred", "bootNext"}
    BY DEF ArmSteps, ArmSucceeds, ArmStep, ArmInspect, ArmTrust, ArmCredential, ArmWalk, ArmStart, ArmStartFails,
           ArmRecheck, ArmFailId, ArmId, ArmRecord, CompensateCheck, CompensateStop, CompensateRecord, ArmFailed
<1>4. RemovalTriggers(p)'
    BY <1>1, <1>u, <1>3 DEF RemovalTriggers, ArmSteps
<1>5. CASE task[p].op = "define"
  <2> DEFINE Quiet == {"armInspect", "armTrust", "armCred", "armWalk", "armStart", "compRec"}
  <2>q. pc[p] \in Quiet => origin[u] # "own"
      BY <1>5 DEF DefineTriggers
  <2>k. autofs[u] # None => origin[u] = "own" \/ ByHand
      BY <1>u DEF KernelInv
  <2>1. pc'[p] \in Quiet \cup {"clCred"} => origin'[u] # "own"
    <3>1. CASE ArmInspect(p) \/ ArmTrust(p) \/ ArmCredential(p) \/ ArmWalk(p) \/ CompensateRecord(p)
        BY <2>q, <3>1 DEF ArmInspect, ArmTrust, ArmCredential, ArmWalk, CompensateRecord, ArmSucceeds
    <3>2. CASE CompensateStop(p) /\ pc'[p] = "compRec"
        BY <1>u, <3>2, Stopped DEF CompensateStop
    <3>3. CASE ArmFailed(p)
        BY <1>5, <3>3 DEF ArmFailed, DefineTriggers
    <3>4. pc'[p] \in Quiet \cup {"clCred"} =>
              \/ ArmInspect(p) \/ ArmTrust(p) \/ ArmCredential(p) \/ ArmWalk(p) \/ CompensateRecord(p)
              \/ CompensateStop(p) /\ pc'[p] = "compRec"
              \/ ArmFailed(p)
        BY <1>5 DEF ArmStep, ArmStart, ArmStartFails, ArmRecheck, ArmFailId, ArmId, ArmRecord, CompensateCheck,
                    CompensateStop, ArmSucceeds
    <3> QED
        BY <3>1, <3>2, <3>3, <3>4
  <2>2. pc'[p] = "armFailed" /\ local'[p].safe => origin'[u] # "own"
    <3>1. CASE ArmTrust(p) \/ ArmCredential(p) \/ ArmWalk(p) \/ CompensateRecord(p)
        BY <2>q, <3>1 DEF ArmTrust, ArmCredential, ArmWalk, CompensateRecord
    <3>2. CASE ArmRecheck(p) /\ pc'[p] = "armFailed"
      <4>1. PICK s \in runtimeViews(u, "ours") :
               local' = [local EXCEPT ![p].safe = s.automount = "Inactive" /\ s.mount = "Absent"]
          BY <3>2 DEF ArmRecheck
      <4>2. local'[p].safe = (s.automount = "Inactive" /\ s.mount = "Absent")
          BY <4>1 DEF Local
      <4>3. local'[p].safe => autofs[u] = None
          BY <1>u, <4>2, Viewed
      <4>4. local'[p].safe => origin[u] # "own"
          BY <1>u, <4>3 DEF KernelInv
      <4> QED
          BY <3>2, <4>4 DEF ArmRecheck
    <3>3. CASE (CompensateCheck(p) \/ CompensateStop(p)) /\ pc'[p] = "armFailed"
      <4>1. local' = [local EXCEPT ![p].safe = FALSE]
          BY <3>3 DEF CompensateCheck, CompensateStop
      <4>2. local'[p].safe = FALSE
          BY <4>1 DEF Local
      <4> QED
          BY <4>2
    <3>4. pc'[p] = "armFailed" =>
              \/ ArmTrust(p) \/ ArmCredential(p) \/ ArmWalk(p) \/ CompensateRecord(p)
              \/ ArmRecheck(p) \/ CompensateCheck(p) \/ CompensateStop(p)
        BY <1>5 DEF ArmStep, ArmInspect, ArmStart, ArmStartFails, ArmFailId, ArmId, ArmRecord, ArmFailed,
                    ArmSucceeds
    <3> QED
        BY <3>1, <3>2, <3>3, <3>4
  <2>3. pc'[p] = "replyOk" => origin'[u] = "own" \/ ByHand
    <3>1. CASE ArmRecord(p)
        BY <2>k, <3>1 DEF ArmRecord, ArmKnows
    <3>2. CASE ArmTrust(p) /\ pc'[p] = "replyOk"
      <4>1. evaluateArmPrecheck(WithTrust(local[p].snap, u)) = "AlreadyArmed"
          BY <3>2 DEF ArmTrust
      <4>2. local[p].snap.automount = "Active"
          BY <4>1 DEF evaluateArmPrecheck, WithTrust, Local, Snapshot
      <4> QED
          BY <2>k, <3>2, <4>2 DEF ArmTrust, ArmKnows
    <3>3. pc'[p] = "replyOk" => ArmRecord(p) \/ ArmTrust(p)
        BY <1>5 DEF ArmStep, ArmInspect, ArmCredential, ArmWalk, ArmStart, ArmStartFails, ArmRecheck, ArmFailId,
                    ArmId, CompensateCheck, CompensateStop, CompensateRecord, ArmFailed
    <3> QED
        BY <3>1, <3>2, <3>3
  <2>4. UNCHANGED task
      BY <1>1
  <2> QED
      BY <1>2, <1>3, <1>4, <2>1, <2>2, <2>3, <2>4
      DEF DefineTriggers, DefineSteps, CleanupSteps, ArmSteps, ByHand
<1>6. CASE task[p].op = "boot"
    BY <1>1, <1>2, <1>4, <1>6 DEF DefineTriggers
<1> QED
    BY <1>u, <1>5, <1>6

\* safeStop ends with the trigger inactive, and only then are files removed:
\* the share's own by undefine, everything by a purge that has stopped every
\* share of its plan.
LEMMA RemoveTriggersStep ==
    ASSUME FilesInv, KernelInv, NoLateStart, NEW p \in Procs, RemoveStep(p)
    PROVE  /\ lateStart' = {} /\ TriggerBacked'
           /\ DefineTriggers(p)' /\ RemovalTriggers(p)'
<1>inv. /\ TypeOK /\ Control(p) /\ FilesKnown(p) /\ IdsUnique
        /\ TriggerBacked /\ RemovalTriggers(p) /\ lateStart = {}
    BY DEF FilesInv, SecretInv, ControlInv, NoLateStart
<1> USE <1>inv DEF TypeOK, Go, control, disk, kernel, UnitOf
<1> DEFINE u == UnitOf(p)
           plan == local[p].plan
           todo == local[p].todo
<1>1. CASE UndefineCheck(p)
  <2>1. UNCHANGED <<kernel, disk>> /\ pc'[p] \in {"stopInspect", "replyFail"}
      BY <1>1 DEF UndefineCheck
  <2>2. task'[p].op = "undefine"
    <3>1. task[p].op = "undefine"
        BY <1>1 DEF UndefineCheck, Control
    <3>2. task' = task \/ \E i : task' = [task EXCEPT ![p].id = i]
        BY <1>1 DEF UndefineCheck
    <3> QED
        BY <3>1, <3>2 DEF Task
  <2> QED
      BY <2>1, <2>2 DEF TriggerBacked, Complete, DefineTriggers, RemovalTriggers, RemoveSteps
\* From here on the request stays, and it is a removal.
<1>2. ASSUME pc[p] \in StopSteps \cup RemoveSteps, UNCHANGED task, pc'[p] \notin {"define", "stopTrust"},
             local'[p].plan = plan, local'[p].todo = todo, lateStart' = {},
             \A v \in Units : origin'[v] = "own" => origin[v] = "own",
             task[p].op = "undefine" /\ pc'[p] \in RemoveSteps \cup {"replyOk"} => origin'[u] # "own",
             task[p].op = "undefine" /\ pc'[p] = "replyOk" => loaded'[u] = None \/ ByHand,
             task[p].op = "purge" /\ pc'[p] \in StopSteps => pc[p] \in StopSteps,
             task[p].op = "purge" /\ pc'[p] = "purStop" => pc[p] \in StopSteps /\ origin'[u] # "own",
             task[p].op = "purge" /\ pc'[p] \in RemoveSteps \cup {"purRm", "purEtc", "purRun", "replyOk"}
                => pc[p] \in RemoveSteps
      PROVE  DefineTriggers(p)' /\ RemovalTriggers(p)'
  <2>1. task[p].op \in {"undefine", "purge"}
      BY <1>2 DEF Control
  <2>2. DefineTriggers(p)'
      BY <1>2, <2>1 DEF DefineTriggers
  <2>3. CASE task[p].op = "undefine"
      BY <1>2, <2>2, <2>3 DEF RemovalTriggers, ByHand
  <2>4. CASE task[p].op = "purge"
    <3>m. \A m \in plan : m.unit \in Units
        BY DEF Local, Managed
    <3>1. pc'[p] \in StopSteps \cup {"purStop"} =>
              \A m \in plan \ todo : origin'[m.unit] # "own" \/ (pc'[p] \in StopSteps /\ m.unit = u)
      <4>1. pc[p] \in StopSteps =>
                \A m \in plan \ todo : origin[m.unit] # "own" \/ m.unit = u
          BY <2>4 DEF RemovalTriggers
      <4> QED
          BY <1>2, <2>4, <3>m, <4>1
    <3>2. pc'[p] \in RemoveSteps \cup {"purRm", "purEtc", "purRun", "replyOk"} =>
              \A v \in Units : origin'[v] # "own"
      <4>1. pc[p] \in RemoveSteps => \A v \in Units : origin[v] # "own"
          BY <2>4 DEF RemovalTriggers
      <4> QED
          BY <1>2, <2>4, <4>1
    <3>3. UNCHANGED task /\ local'[p].plan = plan /\ local'[p].todo = todo /\ pc'[p] # "stopTrust"
        BY <1>2
    <3> HIDE DEF plan, todo
    <3> QED
        BY <2>2, <2>4, <3>1, <3>2, <3>3 DEF RemovalTriggers
  <2> QED
      BY <2>1, <2>3, <2>4
<1>3. CASE StopInspect(p)
  <2>1. PICK s \in runtimeViews(u, ExpectedWhat(u)) : local' = [local EXCEPT ![p].snap = s]
      BY <1>3 DEF StopInspect
  <2>2. /\ local'[p].snap = s /\ local'[p].plan = plan /\ local'[p].todo = todo
        /\ pc[p] = "stopInspect" /\ pc'[p] = "stopTrust" /\ UNCHANGED <<disk, kernel, task>>
      BY <1>3, <2>1 DEF StopInspect, Local
  <2>3. u \in Units /\ task[p].op \in {"undefine", "purge"}
      BY <2>2 DEF Control, ShareSteps, StopSteps
  <2>4. s.automount = "Inactive" => origin[u] # "own"
      BY <2>3, Viewed DEF KernelInv
  <2>5. RemovalTriggers(p)'
    <3>1. task[p].op = "purge" => \A m \in plan \ todo : origin[m.unit] # "own" \/ m.unit = u
        BY <2>2 DEF RemovalTriggers, StopSteps
    <3> HIDE DEF plan, todo
    <3> QED
        BY <2>2, <2>3, <2>4, <3>1 DEF RemovalTriggers, StopSteps, RemoveSteps
  <2> QED
      BY <2>2, <2>3, <2>5 DEF TriggerBacked, Complete, DefineTriggers
<1>4. CASE StopTrust(p) \/ StopMount(p) \/ StopAutomount(p)
  <2>0. /\ pc[p] \in StopSteps /\ UNCHANGED <<task, mountUnit, automountUnit, creds>>
        /\ pc'[p] \in {"stopMount", "stopAutomount", "replyFail"} \cup
                        (IF task[p].op = "undefine" THEN {"rmCred"} ELSE {"purStop"})
        /\ local'[p].plan = plan /\ local'[p].todo = todo
        /\ StopTrigger(u) \/ UNCHANGED <<origin, lateStart>>
        /\ pc'[p] \in {"rmCred", "purStop"} => StopTrigger(u) \/ StopTrust(p)
      BY <1>4 DEF StopTrust, StopMount, StopAutomount, StopDone, StopSteps, Local
  <2>u. u \in Units /\ task[p].op \in {"undefine", "purge"}
      BY <2>0 DEF Control, ShareSteps
  <2>1. /\ lateStart' = {}
        /\ \A v \in Units : origin'[v] = "own" => origin[v] = "own"
      BY <2>0, <2>u, Stopped
  <2>2. pc'[p] \in {"rmCred", "purStop"} => origin'[u] # "own"
    <3>1. CASE StopTrigger(u)
        BY <2>u, <3>1, Stopped
    <3>2. CASE StopTrust(p) /\ pc'[p] \in {"rmCred", "purStop"}
      <4>1. evaluateStopPrecheck(WithTrust(local[p].snap, u)) = "AlreadyInactive"
          BY <3>2 DEF StopTrust
      <4>2. local[p].snap.automount = "Inactive"
          BY <4>1 DEF evaluateStopPrecheck, WithTrust, Local, Snapshot
      <4> QED
          BY <3>2, <4>2 DEF StopTrust, RemovalTriggers
    <3> QED
        BY <2>0, <3>1, <3>2
  <2>3. DefineTriggers(p)' /\ RemovalTriggers(p)'
      BY <1>2, <2>0, <2>1, <2>2, <2>u DEF StopSteps, RemoveSteps
  <2>4. TriggerBacked'
      BY <2>0, <2>1, StayBacked DEF Complete
  <2> QED
      BY <2>1, <2>3, <2>4
<1>5. CASE \/ RemoveCredential(p) \/ RemoveMountUnit(p) \/ RemoveAutomountUnit(p)
           \/ RemoveRecord(p) \/ RemoveReload(p)
  <2>0. /\ pc[p] \in RemoveSteps /\ UNCHANGED <<task, local, autofs, origin>> /\ lateStart' = {}
        /\ mountUnit' \in {mountUnit, [mountUnit EXCEPT ![u] = None]}
        /\ automountUnit' \in {automountUnit, [automountUnit EXCEPT ![u] = None]}
        /\ creds \ creds' \subseteq {task[p].id}
        /\ pc[p] # "rmCred" => UNCHANGED creds
        /\ pc'[p] \in {"replyFail", AfterRemoval(p, pc[p])}
      BY <1>5 DEF RemoveCredential, RemoveMountUnit, RemoveAutomountUnit, RemoveRecord, RemoveReload,
                  RemoveSteps, DaemonReload
  <2>op. task[p].op \in {"undefine", "purge"}
      BY <2>0 DEF Control
  <2>1. pc'[p] \in RemoveSteps \cup {"replyFail"} \cup
                    (IF task[p].op = "undefine" THEN {"replyOk"} ELSE {"purRm", "purEtc"})
      BY <2>0, <2>op DEF AfterRemoval, RemoveSteps
  <2>2. CASE task[p].op = "undefine"
    <3>1. origin[u] # "own"
        BY <2>0, <2>2 DEF RemovalTriggers
    <3>2. pc'[p] = "replyOk" => loaded'[u] = None \/ ByHand
      <4>1. pc'[p] = "replyOk" => pc[p] = "rmReload"
          BY <2>0, <2>2 DEF AfterRemoval, RemoveSteps
      <4>2. pc'[p] = "replyOk" => DaemonReload
          BY <1>5, <4>1 DEF RemoveCredential, RemoveMountUnit, RemoveAutomountUnit, RemoveRecord, RemoveReload
      <4>3. pc[p] = "rmReload" => DiskUnit(u) = None
          BY <2>2 DEF FilesKnown, UndefineFiles, DiskUnit
      <4>4. u \in Units
          BY <2>2 DEF Control
      <4>5. autofs[u] = None \/ ByHand
          BY <3>1, <4>4 DEF KernelInv
      <4> QED
          BY <4>1, <4>2, <4>3, <4>4, <4>5 DEF DaemonReload
    <3>3. DefineTriggers(p)' /\ RemovalTriggers(p)'
        BY <1>2, <2>0, <2>1, <2>2, <3>1, <3>2 DEF RemoveSteps
    <3>4. ASSUME NEW v \in Units, v # u, Complete(v) PROVE Complete(v)'
      <4>1. pc[p] = "rmCred" => Claimed(u, task[p].id) /\ u \in Units /\ task[p].id \in Ids
          BY <2>2 DEF FilesKnown, UndefineFiles, Control, RemoveSteps, ShareSteps
      <4>2. pc[p] = "rmCred" => ~HalfClaims(mountUnit[v], task[p].id)
          BY <3>4, <4>1 DEF IdsUnique, Claimed
      <4> QED
          BY <2>0, <3>4, <4>2 DEF Complete, HalfClaims
    <3> QED
        BY <2>0, <3>1, <3>3, <3>4, StayBacked
  <2>3. CASE task[p].op = "purge"
    <3>1. \A v \in Units : origin[v] # "own"
        BY <2>0, <2>3 DEF RemovalTriggers
    <3>2. DefineTriggers(p)' /\ RemovalTriggers(p)'
        BY <1>2, <2>0, <2>1, <2>3 DEF RemoveSteps, StopSteps
    <3> QED
        BY <2>0, <3>1, <3>2 DEF TriggerBacked
  <2> QED
      BY <2>op, <2>2, <2>3
<1> QED
    BY <1>1, <1>3, <1>4, <1>5 DEF RemoveStep

\* purge deletes once every share of its plan was stopped, and its plan names
\* every unit a trigger of the tool's can run over.
LEMMA PurgeTriggersStep ==
    ASSUME FilesInv, NoLateStart, NEW p \in Procs, PurgeStep(p)
    PROVE  /\ lateStart' = {} /\ TriggerBacked'
           /\ DefineTriggers(p)' /\ RemovalTriggers(p)'
<1>inv. /\ TypeOK /\ Control(p) /\ FilesKnown(p)
        /\ TriggerBacked /\ RemovalTriggers(p) /\ lateStart = {}
    BY DEF FilesInv, SecretInv, ControlInv, NoLateStart
<1> USE <1>inv DEF TypeOK, Go, control, disk, kernel, PurgeSteps
<1> DEFINE plan == local[p].plan
           todo == local[p].todo
<1>op. task[p].op = "purge"
    BY DEF PurgeStep, PurgeCheck, PurgeStopNext, PurgeRemoveNext, PurgeCredentialTree, PurgeRunTrees, Control
<1>k. UNCHANGED <<kernel, mountUnit, automountUnit>>
    BY DEF PurgeStep, PurgeCheck, PurgeStopNext, PurgeRemoveNext, PurgeCredentialTree, PurgeRunTrees
<1>o. pc[p] \in {"purRm", "purEtc", "purRun"} => \A v \in Units : origin[v] # "own"
    BY <1>op DEF RemovalTriggers
<1>s. pc[p] = "purStop" => \A m \in plan \ todo : origin[m.unit] # "own"
    BY <1>op DEF RemovalTriggers, StopSteps
<1>t. ASSUME task'[p].op = "purge", pc'[p] # "stopTrust",
             pc'[p] \in StopSteps \cup {"purStop"} =>
                \A m \in local'[p].plan \ local'[p].todo :
                    origin[m.unit] # "own" \/ (pc'[p] \in StopSteps /\ m.unit = UnitOf(p)'),
             pc'[p] \in RemoveSteps \cup {"purRm", "purEtc", "purRun", "replyOk"} =>
                \A v \in Units : origin[v] # "own"
      PROVE  DefineTriggers(p)' /\ RemovalTriggers(p)'
    BY <1>k, <1>t DEF DefineTriggers, RemovalTriggers, UnitOf
<1>c. CASE UNCHANGED creds
  <2>1. lateStart' = {} /\ TriggerBacked'
      BY <1>k, <1>c DEF TriggerBacked, Complete
  <2>2. ASSUME NEW m \in todo, Take(p, m),
               \/ pc[p] = "purStop" /\ pc'[p] = "stopInspect"
               \/ pc[p] = "purRm" /\ pc'[p] = "rmMount"
        PROVE  DefineTriggers(p)' /\ RemovalTriggers(p)'
    <3>1. /\ task'[p].op = "purge" /\ UnitOf(p)' = m.unit
          /\ local'[p].plan = plan /\ local'[p].todo = todo \ {m}
        BY <1>op, <2>2, Taken DEF UnitOf
    <3> HIDE DEF plan, todo
    <3> QED
        BY <1>t, <1>o, <1>s, <2>2, <3>1 DEF StopSteps, RemoveSteps
  <2>3. CASE PurgeCheck(p)
    <3>1. pc'[p] \in {"purStop", "replyFail"} /\ UNCHANGED task
        BY <2>3 DEF PurgeCheck
    <3>2. pc'[p] = "purStop" => local'[p].plan = local'[p].todo
      <4> DEFINE r == local[p]
                 new == {[unit |-> m.unit, marker |-> m.marker] :
                            m \in enumerateManagedUnits(mountUnit, automountUnit)}
      <4>1. pc'[p] = "purStop" => local' = [local EXCEPT ![p].plan = new, ![p].todo = new]
          BY <2>3 DEF PurgeCheck
      <4>2. r \in Local
          OBVIOUS
      <4> HIDE DEF new
      <4>3. pc'[p] = "purStop" => local'[p] = [r EXCEPT !.plan = new, !.todo = new]
          BY <4>1
      <4> HIDE DEF r
      <4>4. [r EXCEPT !.plan = new, !.todo = new].plan = [r EXCEPT !.plan = new, !.todo = new].todo
          BY <4>2 DEF Local
      <4> QED
          BY <4>3, <4>4
    <3> QED
        BY <1>op, <1>t, <2>1, <3>1, <3>2 DEF StopSteps, RemoveSteps
  <2>4. CASE PurgeStopNext(p)
    <3>1. CASE pc'[p] = "purRm" /\ todo = {} /\ UNCHANGED task
      <4>1. pc[p] = "purStop"
          BY <2>4 DEF PurgeStopNext
      <4>2. ASSUME NEW v \in Units, origin[v] = "own" PROVE FALSE
        <5>1. mountUnit[v] \in Halves(v) \cap Marker
            BY <4>2 DEF TriggerBacked, Complete, Halves
        <5>2. PICK m \in plan : m.unit = v
            BY <1>op, <4>1, <5>1 DEF FilesKnown, PurgeFiles
        <5> QED
            BY <1>s, <3>1, <4>1, <4>2, <5>2
      <4> QED
          BY <1>op, <1>t, <2>1, <3>1, <4>2 DEF StopSteps
    <3>2. \/ pc'[p] = "purRm" /\ todo = {} /\ UNCHANGED task
          \/ \E m \in todo : Take(p, m) /\ pc[p] = "purStop" /\ pc'[p] = "stopInspect"
        BY <2>4 DEF PurgeStopNext
    <3> QED
        BY <2>1, <2>2, <3>1, <3>2
  <2>5. CASE PurgeRemoveNext(p)
    <3>1. \/ pc[p] = "purRm" /\ pc'[p] = "rmReload" /\ UNCHANGED task
          \/ \E m \in todo : Take(p, m) /\ pc[p] = "purRm" /\ pc'[p] = "rmMount"
        BY <2>5 DEF PurgeRemoveNext
    <3> QED
        BY <1>op, <1>o, <1>t, <2>1, <2>2, <3>1 DEF StopSteps
  <2>6. CASE PurgeCredentialTree(p) \/ PurgeRunTrees(p)
    <3>1. pc[p] \in {"purEtc", "purRun"} /\ pc'[p] \in {"purRun", "replyOk", "replyFail"} /\ UNCHANGED task
        BY <2>6 DEF PurgeCredentialTree, PurgeRunTrees
    <3> QED
        BY <1>op, <1>o, <1>t, <2>1, <3>1 DEF StopSteps
  <2> QED
      BY <2>3, <2>4, <2>5, <2>6 DEF PurgeStep
<1>d. CASE ~UNCHANGED creds
  <2>1. pc[p] = "purEtc" /\ pc'[p] \in {"purRun", "replyFail"} /\ UNCHANGED task
      BY <1>d DEF PurgeStep, PurgeCheck, PurgeStopNext, PurgeRemoveNext, PurgeCredentialTree, PurgeRunTrees
  <2> QED
      BY <1>op, <1>k, <1>o, <1>t, <2>1 DEF StopSteps, TriggerBacked
<1> QED
    BY <1>c, <1>d

\* Calls, crashes, reboots and users leave what a call knows of the triggers.
LEMMA TriggersStay ==
    ASSUME TypeOK, ControlInv, KernelInv, Outside, NEW q \in Procs, ArmKnows(q)
    PROVE  /\ ArmKnows(q)'
           /\ lateStart = {} /\ DefineTriggers(q) /\ RemovalTriggers(q) =>
                 DefineTriggers(q)' /\ RemovalTriggers(q)'
<1>1. CASE pc'[q] \in AtStart \/ pc'[q] \notin LockedSteps
    BY <1>1, TriggersUnknown
<1>2. CASE pc'[q] \in LockedSteps \ AtStart
  <2>1. /\ pc'[q] = pc[q] /\ task'[q] = task[q] /\ local'[q] = local[q]
        /\ UNCHANGED <<mountUnit, automountUnit, creds>>
      BY <1>2, OutsideFrame
  <2>2. ~Reboot
      BY <1>2 DEF Reboot, AtStart
  <2>3. ByHand \/ \A v \in Units : autofs[v] # None => autofs'[v] # None
      BY <2>2, OutsideTriggers
  <2>4. lateStart = {} => /\ \A v \in Units : origin'[v] = "own" => origin[v] = "own"
                          /\ ByHand \/ UNCHANGED <<origin, loaded>>
      BY <2>2, OutsideTriggers
  <2>u. pc[q] \in ArmSteps \cup StopSteps => task[q].unit \in Units
      BY DEF ControlInv, Control, ShareSteps
  <2>5. ArmKnows(q)'
    <3>1. \A v \in Units : Complete(v)' = Complete(v)
        BY <2>1 DEF Complete
    <3>2. UnitOf(q)' = UnitOf(q)
        BY <2>1 DEF UnitOf
    <3>3. pc[q] \in {"armTrust", "armId", "armRecord"} => UnitOf(q) \in Units
        BY <2>u DEF UnitOf, ArmSteps
    <3> QED
        BY <2>1, <2>3, <3>1, <3>2, <3>3 DEF ArmKnows, ByHand
  <2>6. ASSUME lateStart = {}, DefineTriggers(q), RemovalTriggers(q)
        PROVE  DefineTriggers(q)' /\ RemovalTriggers(q)'
    <3>1. UnitOf(q)' = UnitOf(q)
        BY <2>1 DEF UnitOf
    <3>2. \A v \in Units : origin'[v] = "own" => origin[v] = "own"
        BY <2>4, <2>6
    <3>u. /\ task[q].op \in {"define", "undefine"} => UnitOf(q) \in Units
          /\ pc[q] = "stopTrust" => UnitOf(q) \in Units
        BY <2>u DEF ControlInv, Control, UnitOf, StopSteps
    <3>3. DefineTriggers(q)'
        BY <2>1, <2>4, <2>6, <3>1, <3>2, <3>u DEF DefineTriggers, ByHand
    <3>m. \A m \in local[q].plan : m.unit \in Units
        BY DEF TypeOK, Local, Managed
    <3>4. RemovalTriggers(q)'
        BY <2>1, <2>4, <2>6, <3>1, <3>2, <3>u, <3>m DEF RemovalTriggers, ByHand
    <3> QED
        BY <3>3, <3>4
  <2> QED
      BY <2>5, <2>6
<1> QED
    BY <1>1, <1>2

-----------------------------------------------------------------------------
(* The invariant.                                                          *)

\* TriggerInv is inductive.
LEMMA TriggerStep == TriggerInv /\ [Next]_vars => TriggerInv'
<1> SUFFICES ASSUME TriggerInv, [Next]_vars PROVE TriggerInv'
    OBVIOUS
<1>inv. /\ FilesInv /\ KernelInv /\ TypeOK /\ ControlInv
        /\ \A p \in Procs : ArmKnows(p)
        /\ "late" \notin Faults => NoLateStart
    BY DEF TriggerInv, FilesInv, SecretInv
<1>0. FilesInv' /\ KernelInv'
    BY <1>inv, FilesStep, KernelStep
<1>1. ASSUME NEW p \in Procs, Work(p)
      PROVE  /\ \A q \in Procs : ArmKnows(q)'
             /\ "late" \notin Faults => NoLateStart'
  <2>1. ASSUME NEW q \in Procs, q # p
        PROVE  ArmKnows(q)' /\ DefineTriggers(q)' /\ RemovalTriggers(q)'
    <3>1. pc'[q] \notin LockedSteps
        BY <1>inv, <1>1, <2>1, WorkFrame DEF OthersKept
    <3> QED
        BY <3>1, TriggersUnknown
  <2>2. CASE Reply(p)
    <3>1. pc'[p] \in AtStart /\ UNCHANGED <<mountUnit, automountUnit, creds, origin, lateStart>>
        BY <1>inv, <2>2 DEF Reply, Go, TypeOK, disk, kernel, AtStart
    <3>2. ArmKnows(p)' /\ DefineTriggers(p)' /\ RemovalTriggers(p)'
        BY <3>1, TriggersUnknown
    <3>3. "late" \notin Faults => lateStart' = {} /\ TriggerBacked'
        BY <1>inv, <3>1 DEF NoLateStart, TriggerBacked, Complete
    <3> QED
        BY <2>1, <3>2, <3>3 DEF NoLateStart
  <2>3. CASE DefineStep(p) \/ ArmStep(p) \/ RemoveStep(p) \/ PurgeStep(p) \/ BootStep(p)
    <3>1. ArmKnows(p)'
        BY <1>inv, <2>3, OthersArmNothing, ArmKnowsStep, BootKnowsStep
    <3>2. ASSUME "late" \notin Faults
          PROVE  lateStart' = {} /\ TriggerBacked' /\ DefineTriggers(p)' /\ RemovalTriggers(p)'
      <4>1. CASE DefineStep(p) \/ ArmStep(p) \/ RemoveStep(p) \/ PurgeStep(p)
          BY <1>inv, <3>2, <4>1, DefineTriggersStep, ArmTriggersStep, RemoveTriggersStep, PurgeTriggersStep
      <4>2. CASE BootStep(p)
        <5>1. /\ UNCHANGED <<mountUnit, automountUnit, creds, origin, lateStart>>
              /\ pc'[p] \in {"bootNext", "armInspect", "replyOk"}
          <6>1. pc \in [Procs -> Steps]
              BY <1>inv DEF TypeOK
          <6>2. CASE BootEnumerate(p)
              BY <6>1, <6>2 DEF BootEnumerate, disk, kernel, Go
          <6>3. CASE BootNext(p)
              BY <6>1, <6>3 DEF BootNext, disk, kernel, Go
          <6> QED
              BY <4>2, <6>2, <6>3 DEF BootStep
        <5>2. task'[p].op = "boot"
          <6>1. task[p].op = "boot"
              BY <1>inv, <4>2 DEF BootStep, BootEnumerate, BootNext, ControlInv, Control
          <6>2. \/ UNCHANGED task
                \/ \E m : task' = [task EXCEPT ![p] = [op |-> "boot", user |-> m.marker.owner,
                                                       unit |-> m.unit, id |-> m.marker.id,
                                                       auth |-> m.marker.auth]]
              BY <4>2 DEF BootStep, BootEnumerate, BootNext, control
          <6> QED
              BY <1>inv, <6>1, <6>2 DEF TypeOK
        <5>3. DefineTriggers(p)' /\ RemovalTriggers(p)'
            BY <5>1, <5>2 DEF DefineTriggers, RemovalTriggers
        <5> QED
            BY <1>inv, <3>2, <5>1, <5>3 DEF NoLateStart, TriggerBacked, Complete
      <4> QED
          BY <2>3, <4>1, <4>2
    <3> QED
        BY <2>1, <3>1, <3>2 DEF NoLateStart
  <2> QED
      BY <1>1, <2>2, <2>3 DEF Work
<1>2. ASSUME Outside
      PROVE  /\ \A q \in Procs : ArmKnows(q)'
             /\ "late" \notin Faults => NoLateStart'
  <2>1. \A q \in Procs : ArmKnows(q)'
      BY <1>inv, <1>2, TriggersStay
  <2>2. ASSUME "late" \notin Faults PROVE NoLateStart'
    <3>1. lateStart = {} /\ TriggerBacked /\ \A q \in Procs : DefineTriggers(q) /\ RemovalTriggers(q)
        BY <1>inv, <2>2 DEF NoLateStart
    <3>2. lateStart' = {} /\ \A v \in Units : origin'[v] = "own" => origin[v] = "own"
        BY <1>inv, <1>2, <3>1, OutsideTriggers
    <3>3. \A q \in Procs : DefineTriggers(q)' /\ RemovalTriggers(q)'
        BY <1>inv, <1>2, <3>1, TriggersStay
    <3>4. UNCHANGED <<mountUnit, automountUnit, creds>>
        BY <1>inv, <1>2, OutsideFrame
    <3>5. TriggerBacked'
        BY <3>1, <3>2, <3>4 DEF TriggerBacked, Complete
    <3> QED
        BY <3>2, <3>3, <3>5 DEF NoLateStart
  <2> QED
      BY <2>1, <2>2
<1>3. Outside \/ \E p \in Procs : Work(p)
    BY DEF Next, Outside
<1> QED
    BY <1>0, <1>1, <1>2, <1>3 DEF TriggerInv

\* TriggerInv holds before anything was defined.
LEMMA TriggerInit == Init => TriggerInv
<1> SUFFICES ASSUME Init PROVE TriggerInv
    OBVIOUS
<1>1. FilesInv
    BY FilesInit
<1>2. KernelInv
    BY DEF Init, KernelInv
<1>3. \A p \in Procs : ArmKnows(p) /\ DefineTriggers(p) /\ RemovalTriggers(p)
    BY DEF Init, NoTask, ArmKnows, DefineTriggers, RemovalTriggers
<1>4. NoLateStart
    BY <1>3 DEF Init, NoLateStart, TriggerBacked
<1> QED
    BY <1>1, <1>2, <1>3, <1>4 DEF TriggerInv

\* What every call knows of the files and of the triggers, and whose triggers
\* run, at every step of the system.
THEOREM TriggerInvariant == Spec => []TriggerInv
    BY TriggerInit, TriggerStep, PTL DEF Spec

\* A finished boot pass has armed or reported every complete definition, under
\* any faults, however many shares failed before it (nasmount-boot.cpp).
THEOREM BootComplete == Spec => []BootArmsOrReports
<1>1. TriggerInv => BootArmsOrReports
    BY DEF TriggerInv, ArmKnows, BootArmsOrReports, ByHand, ArmSteps
<1> QED
    BY <1>1, TriggerInvariant, PTL

\* While no start job outlives its systemctl, a trigger of the tool's own never
\* runs without the definition and the credential it serves.
THEOREM TriggersBacked ==
    ASSUME "late" \notin Faults
    PROVE  Spec => []TriggerBacked
<1>1. TriggerInv => TriggerBacked
    BY DEF TriggerInv, NoLateStart
<1> QED
    BY <1>1, TriggerInvariant, PTL

\* definesystem answers success only for a complete, armed and recorded share.
THEOREM DefineAnswers ==
    ASSUME "late" \notin Faults
    PROVE  Spec => []DefineAck
<1>1. TriggerInv => DefineAck
  <2> SUFFICES ASSUME TriggerInv, NEW p \in Procs, pc[p] = "replyOk", task[p].op = "define"
               PROVE  /\ Complete(UnitOf(p))
                      /\ mountUnit[UnitOf(p)] = MarkerOf(p)
                      /\ idRec[UnitOf(p)] # None
                      /\ "admin" \in Faults \/ origin[UnitOf(p)] = "own"
      BY DEF DefineAck
  <2>1. FilesKnown(p) /\ DefineTriggers(p)
      BY DEF TriggerInv, FilesInv, NoLateStart
  <2> QED
      BY <2>1 DEF FilesKnown, DefineFiles, DefineTriggers, ByHand
<1> QED
    BY <1>1, TriggerInvariant, PTL

\* undefinesystem answers success only when nothing of the share is left, on
\* disk, in /run or in PID 1.
THEOREM UndefineAnswers ==
    ASSUME "late" \notin Faults
    PROVE  Spec => []UndefineAck
<1>1. TriggerInv => UndefineAck
  <2> SUFFICES ASSUME TriggerInv, NEW p \in Procs, pc[p] = "replyOk", task[p].op = "undefine"
               PROVE  /\ mountUnit[UnitOf(p)] = None /\ automountUnit[UnitOf(p)] = None
                      /\ task[p].id \notin creds
                      /\ idRec[UnitOf(p)] = None
                      /\ origin[UnitOf(p)] # "own"
                      /\ "admin" \in Faults \/ loaded[UnitOf(p)] = None
      BY DEF UndefineAck
  <2>1. FilesKnown(p) /\ RemovalTriggers(p)
      BY DEF TriggerInv, FilesInv, NoLateStart
  <2> QED
      BY <2>1 DEF FilesKnown, UndefineFiles, RemovalTriggers, ByHand
<1> QED
    BY <1>1, TriggerInvariant, PTL

\* purge answers success only when no definition, secret, record or trigger of
\* the tool's is left on the machine.
THEOREM PurgeAnswers ==
    ASSUME "late" \notin Faults
    PROVE  Spec => []PurgeAck
<1>1. TriggerInv => PurgeAck
  <2> SUFFICES ASSUME TriggerInv, NEW p \in Procs, pc[p] = "replyOk", task[p].op = "purge"
               PROVE  /\ \A u \in Units : /\ {mountUnit[u], automountUnit[u]} \cap Marker = {}
                                          /\ idRec[u] = None
                                          /\ origin[u] # "own"
                      /\ creds = {} /\ ~tempSecret
      BY DEF PurgeAck
  <2>1. PurgeFiles(p) /\ RemovalTriggers(p)
      BY DEF TriggerInv, FilesInv, FilesKnown, NoLateStart
  <2> QED
      BY <2>1 DEF PurgeFiles, Halves, RemovalTriggers
<1> QED
    BY <1>1, TriggerInvariant, PTL
=============================================================================
