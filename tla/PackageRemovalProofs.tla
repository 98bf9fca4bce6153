------------------------- MODULE PackageRemovalProofs -------------------------
(* Theorems about PackageRemoval, for any users, guests, bound and faults.    *)
EXTENDS PackageRemoval, TLAPS

\* TypeOK but for the history variables.
CoreType ==
    /\ half \in [Users -> SUBSET Pair]
    /\ creds \subseteq Users /\ temp \in BOOLEAN /\ armed \subseteq Users
    /\ dirs \subseteq Roots
    /\ queue \subseteq HelperCall /\ running \in Running \cup {None}
    /\ userLock \in {None, "front", "cleanup"}
    /\ uninstall \in UninstallSteps
    /\ package \in {"installed", "removed", "purged"}
    /\ script \in [step : ScriptSteps, purge : BOOLEAN]
    /\ warned \in BOOLEAN
    /\ guard \in {"idle", "units"} \cup Roots

\* The rest of TypeOK.
HistoryType ==
    /\ disturbed \in BOOLEAN /\ beside \in BOOLEAN /\ before \in (SUBSET Pair) \X BOOLEAN
    /\ late \in BOOLEAN /\ acked \subseteq Users

\* What a purge has established: nobody else's share when it began, and its own
\* files in the order it removes them.
PurgeKnows ==
    running # None /\ running.op = "purge" =>
        /\ running.step \in PurgeSteps
        /\ running.step # "begin" => \A u \in Users \ {Caller} : half[u] = {}
        /\ running.step = "rmAutomount" => "mount" \notin half[Caller]
        /\ running.step \in {"rmCred", "etc", "ids", "lock"} => half[Caller] = {}
        /\ running.step \in {"ids", "lock"} => "etc" \notin dirs

\* Secrets, finished or not, are in the credential directory.
EtcHolds == creds # {} \/ TempThere => "etc" \in dirs

\* While the package is there no script has come as far as removing anything, and
\* every call has made the lock's directory.
PackageKnows ==
    /\ package = "installed" => script.step \in {"idle", "files"}
    /\ package = "installed" /\ running # None => "lock" \in dirs
    /\ guard # "idle" => package = "installed" /\ script = Idle

\* What the guard saw is still so as long as no lock directory is there.
GuardKnows ==
    "lock" \notin dirs =>
        /\ guard \in {"etc", "lock"} => \A u \in Users : half[u] = {}
        /\ guard = "lock" => "etc" \notin dirs

RemovalInv == CoreType /\ PurgeKnows /\ EtcHolds /\ PackageKnows /\ GuardKnows

\* What a step may do to a cleanup that waits for its purge.
PurgedStep ==
    uninstall = "waiting" /\ uninstall' = "purged" =>
        \A u \in Users \ {Caller} : half'[u] = {}

\* Nothing is under /etc.
Nobody == (\A u \in Users : half[u] = {}) /\ "etc" \notin dirs

\* What a step may do to a guard: it comes to its last look with nobody there and
\* no call at work; nobody comes without a call; and the directory of the id
\* records goes only when nobody has a share.
GuardStep ==
    /\ guard' = "ids" /\ guard # "ids" => Nobody' /\ running' = None
    /\ guard' = "ids" /\ guard = "ids" /\ running = None /\ running' = None /\ Nobody => Nobody'
    /\ "ids" \in dirs /\ "ids" \notin dirs' /\ guard' \in Roots => \A u \in Users : half'[u] = {}

\* What the history tells of a guard.
GuardHistory ==
    /\ guard = "ids" /\ ~late => Nobody /\ running = None
    /\ acked # {} => guard \in Roots /\ "ids" \in dirs

HistoryInv == HistoryType /\ GuardHistory

-----------------------------------------------------------------------------
(* Types of answers, and of the maintainer scripts' state.                   *)

\* Only a confirmed purge makes the cleanup go on.
LEMMA AskedNotPurged == \A o \in {"denied", "lost", "failed"} :
                            CleanupStatus(o) \in Ends
BY DEF CleanupStatus, rejectedBeforeDispatch, Ends


\* What the caller's programs make of an answer keeps its type.
LEMMA ToldType == ASSUME CoreType, NEW c, NEW o \in {"ok", "denied", "failed", "lost"}, Told(c, o)
                  PROVE userLock' \in {None, "front", "cleanup"} /\ uninstall' \in UninstallSteps
BY DEF CoreType, Told, client, CleanupStatus, rejectedBeforeDispatch, UninstallSteps, Ends

\* Every script that is started, goes on or ends is of the type.
LEMMA ScriptType == ASSUME script \in [step : ScriptSteps, purge : BOOLEAN]
                    PROVE /\ Idle \in [step : ScriptSteps, purge : BOOLEAN]
                          /\ \A s \in ScriptSteps :
                                 [script EXCEPT !.step = s] \in [step : ScriptSteps, purge : BOOLEAN]
                          /\ \A s \in ScriptSteps, p \in BOOLEAN :
                                 [step |-> s, purge |-> p] \in [step : ScriptSteps, purge : BOOLEAN]
<1>1. \A s \in ScriptSteps, p \in BOOLEAN : [step |-> s, purge |-> p] \in [step : ScriptSteps, purge : BOOLEAN]
  OBVIOUS
<1>2. Idle \in [step : ScriptSteps, purge : BOOLEAN]
  BY <1>1 DEF Idle, ScriptSteps
<1>3. \A s \in ScriptSteps : [script EXCEPT !.step = s] \in [step : ScriptSteps, purge : BOOLEAN]
  OBVIOUS
<1> QED
  BY <1>1, <1>2, <1>3

-----------------------------------------------------------------------------
(* Every action keeps the invariant: the calls and the helper, then boot,   *)
(* the caller's programs, the scripts, the guard and a restart.              *)

LEMMA CallDefineKeeps == ASSUME RemovalInv, CallDefine PROVE RemovalInv' /\ PurgedStep /\ GuardStep
<1>1. CoreType'
  <2>1. DefineCall(Caller) \in HelperCall
    BY PackageAssumption DEF DefineCall, HelperCall
  <2> QED
    BY <2>1 DEF CoreType, RemovalInv, CallDefine, files, pkg
<1>2. PurgeKnows'
  BY DEF PurgeKnows, RemovalInv, CallDefine, DefineCall, files
<1>3. EtcHolds'
  BY DEF EtcHolds, RemovalInv, CallDefine, DefineCall, At, TempThere, files
<1>4. PackageKnows'
  BY DEF PackageKnows, RemovalInv, CallDefine, DefineCall, files, pkg
<1>5. GuardKnows'
  BY DEF GuardKnows, RemovalInv, CallDefine, DefineCall, files, pkg
<1>6. PurgedStep
  BY DEF PurgedStep, RemovalInv, CallDefine, DefineCall
<1>7. GuardStep
  BY DEF GuardStep, RemovalInv, CallDefine, DefineCall, files, pkg, Nobody
<1> QED
  BY <1>1, <1>2, <1>3, <1>4, <1>5, <1>6, <1>7 DEF RemovalInv

LEMMA BeginQueuedKeeps == ASSUME RemovalInv, NEW c \in queue, BeginQueued(c) PROVE RemovalInv' /\ PurgedStep /\ GuardStep
<1>1. CoreType'
  BY DEF CoreType, RemovalInv, BeginQueued, Begin, HelperCall, Running, client, pkg,
       Roots, PurgeSteps
<1>2. PurgeKnows'
  BY DEF PurgeKnows, RemovalInv, BeginQueued, Begin, PurgeSteps
<1>3. EtcHolds'
  BY DEF EtcHolds, RemovalInv, BeginQueued, Begin, At, TempThere
<1>4. PackageKnows'
  BY DEF PackageKnows, RemovalInv, BeginQueued, Begin, pkg
<1>5. GuardKnows'
  BY DEF GuardKnows, RemovalInv, BeginQueued, Begin
<1>6. PurgedStep
  BY DEF PurgedStep, RemovalInv, BeginQueued, Begin, client
<1>7. GuardStep
  BY DEF GuardStep, RemovalInv, BeginQueued, Begin, Nobody, pkg
<1> QED
  BY <1>1, <1>2, <1>3, <1>4, <1>5, <1>6, <1>7 DEF RemovalInv

LEMMA DropKeeps == ASSUME RemovalInv, NEW c \in queue, Drop(c) PROVE RemovalInv' /\ PurgedStep /\ GuardStep
<1>1. CoreType'
  BY AskedNotPurged DEF CoreType, RemovalInv, Drop, Told, files, client, pkg,
       UninstallSteps
<1>2. PurgeKnows'
  BY DEF PurgeKnows, RemovalInv, Drop, files
<1>3. EtcHolds'
  BY DEF EtcHolds, RemovalInv, Drop, At, TempThere, files
<1>4. PackageKnows'
  BY DEF PackageKnows, RemovalInv, Drop, pkg
<1>5. GuardKnows'
  BY DEF GuardKnows, RemovalInv, Drop, files, pkg
<1>6. PurgedStep
  BY AskedNotPurged DEF PurgedStep, RemovalInv, Drop, Told, client, Ends
<1>7. GuardStep
  BY DEF GuardStep, RemovalInv, Drop, files, pkg, Nobody
<1> QED
  BY <1>1, <1>2, <1>3, <1>4, <1>5, <1>6, <1>7 DEF RemovalInv

LEMMA BeginOtherKeeps == ASSUME RemovalInv, NEW u \in Users, BeginOther(u) PROVE RemovalInv' /\ PurgedStep /\ GuardStep
<1>1. CoreType'
  BY DEF CoreType, RemovalInv, BeginOther, Begin, DefineCall, Running, client, pkg, Roots,
       PurgeSteps
<1>2. PurgeKnows'
  BY DEF PurgeKnows, RemovalInv, BeginOther, Begin, DefineCall
<1>3. EtcHolds'
  BY DEF EtcHolds, RemovalInv, BeginOther, Begin, DefineCall, At, TempThere
<1>4. PackageKnows'
  BY DEF PackageKnows, RemovalInv, BeginOther, Begin, DefineCall, pkg
<1>5. GuardKnows'
  BY DEF GuardKnows, RemovalInv, BeginOther, Begin, DefineCall
<1>6. PurgedStep
  BY DEF PurgedStep, RemovalInv, BeginOther, Begin, DefineCall, client
<1>7. GuardStep
  BY DEF GuardStep, RemovalInv, BeginOther, Begin, DefineCall, Nobody, pkg
<1> QED
  BY <1>1, <1>2, <1>3, <1>4, <1>5, <1>6, <1>7 DEF RemovalInv

LEMMA LoseReplyKeeps == ASSUME RemovalInv, NEW c \in HelperCall, LoseReply(c) PROVE RemovalInv' /\ PurgedStep /\ GuardStep
<1>1. CoreType'
  <2>1. [c EXCEPT !.awaited = FALSE] \in HelperCall
    BY DEF HelperCall
  <2>2. queue' \subseteq HelperCall
    BY <2>1 DEF CoreType, RemovalInv, LoseReply
  <2>3. running' \in Running \cup {None}
    BY DEF CoreType, RemovalInv, LoseReply, Running
  <2>4. userLock' \in {None, "front", "cleanup"} /\ uninstall' \in UninstallSteps
    BY ToldType DEF RemovalInv, LoseReply
  <2> QED
    BY <2>2, <2>3, <2>4 DEF CoreType, RemovalInv, LoseReply, files, pkg
<1>2. PurgeKnows'
  BY DEF CoreType, PurgeKnows, RemovalInv, LoseReply, Running, files
<1>3. EtcHolds'
  BY DEF CoreType, EtcHolds, RemovalInv, LoseReply, Running, At, TempThere, files
<1>4. PackageKnows'
  BY DEF PackageKnows, RemovalInv, LoseReply, files, pkg
<1>5. GuardKnows'
  BY DEF GuardKnows, RemovalInv, LoseReply, files, pkg
<1>6. PurgedStep
  BY AskedNotPurged DEF PurgedStep, RemovalInv, LoseReply, Told, Ends
<1>7. GuardStep
  BY DEF GuardStep, RemovalInv, LoseReply, files, pkg, Nobody
<1> QED
  BY <1>1, <1>2, <1>3, <1>4, <1>5, <1>6, <1>7 DEF RemovalInv

LEMMA DefineStartsKeeps == ASSUME RemovalInv, DefineStarts PROVE RemovalInv' /\ PurgedStep /\ GuardStep
<1>1. CoreType'
  BY DEF CoreType, RemovalInv, DefineStarts, Goto, At, client, pkg, Running,
       DefineSteps, Roots
<1>2. PurgeKnows'
  BY DEF PurgeKnows, RemovalInv, DefineStarts, Goto, At
<1>3. EtcHolds'
  BY DEF EtcHolds, RemovalInv, DefineStarts, Goto, At, TempThere
<1>4. PackageKnows'
  BY DEF PackageKnows, RemovalInv, DefineStarts, At, pkg
<1>5. GuardKnows'
  BY DEF GuardKnows, RemovalInv, DefineStarts, pkg, PackageKnows, At
<1>6. PurgedStep
  BY DEF PurgedStep, RemovalInv, DefineStarts, Goto, client
<1>7. GuardStep
  BY DEF GuardStep, RemovalInv, DefineStarts, pkg, Nobody, At
<1> QED
  BY <1>1, <1>2, <1>3, <1>4, <1>5, <1>6, <1>7 DEF RemovalInv

LEMMA DefineMountKeeps == ASSUME RemovalInv, DefineMount PROVE RemovalInv' /\ PurgedStep /\ GuardStep
<1>1. CoreType'
  BY DEF CoreType, RemovalInv, DefineMount, WriteUnit, Goto, At, client, pkg, Running,
       Pair, DefineSteps
<1>2. PurgeKnows'
  BY DEF PurgeKnows, RemovalInv, DefineMount, WriteUnit, Goto, At
<1>3. EtcHolds'
  BY DEF EtcHolds, RemovalInv, DefineMount, WriteUnit, Goto, At, TempThere
<1>4. PackageKnows'
  BY DEF PackageKnows, RemovalInv, DefineMount, WriteUnit, At, pkg
<1>5. GuardKnows'
  BY DEF PackageKnows, GuardKnows, RemovalInv, DefineMount, WriteUnit, At, pkg
<1>6. PurgedStep
  BY DEF PurgedStep, RemovalInv, DefineMount, WriteUnit, Goto, client
<1>7. GuardStep
  BY DEF PackageKnows, GuardStep, RemovalInv, DefineMount, WriteUnit, At, pkg, Nobody
<1> QED
  BY <1>1, <1>2, <1>3, <1>4, <1>5, <1>6, <1>7 DEF RemovalInv

LEMMA DefineAutomountKeeps == ASSUME RemovalInv, DefineAutomount PROVE RemovalInv' /\ PurgedStep /\ GuardStep
<1>1. CoreType'
  BY DEF CoreType, RemovalInv, DefineAutomount, WriteUnit, Goto, At, client, pkg, Running,
       Pair, DefineSteps
<1>2. PurgeKnows'
  BY DEF PurgeKnows, RemovalInv, DefineAutomount, WriteUnit, Goto, At
<1>3. EtcHolds'
  BY DEF EtcHolds, RemovalInv, DefineAutomount, WriteUnit, Goto, At, TempThere
<1>4. PackageKnows'
  BY DEF PackageKnows, RemovalInv, DefineAutomount, WriteUnit, At, pkg
<1>5. GuardKnows'
  BY DEF PackageKnows, GuardKnows, RemovalInv, DefineAutomount, WriteUnit, At, pkg
<1>6. PurgedStep
  BY DEF PurgedStep, RemovalInv, DefineAutomount, WriteUnit, Goto, client
<1>7. GuardStep
  BY DEF PackageKnows, GuardStep, RemovalInv, DefineAutomount, WriteUnit, At, pkg,
       Nobody
<1> QED
  BY <1>1, <1>2, <1>3, <1>4, <1>5, <1>6, <1>7 DEF RemovalInv

LEMMA DefineTempKeeps == ASSUME RemovalInv, DefineTemp PROVE RemovalInv' /\ PurgedStep /\ GuardStep
<1>1. CoreType'
  BY DEF CoreType, RemovalInv, DefineTemp, Goto, At, client, pkg, Running, Roots,
       DefineSteps
<1>2. PurgeKnows'
  BY DEF PurgeKnows, RemovalInv, DefineTemp, Goto, At
<1>3. EtcHolds'
  BY DEF EtcHolds, RemovalInv, DefineTemp
<1>4. PackageKnows'
  BY DEF PackageKnows, RemovalInv, DefineTemp, At, pkg
<1>5. GuardKnows'
  BY DEF PackageKnows, GuardKnows, RemovalInv, DefineTemp, At, pkg
<1>6. PurgedStep
  BY DEF PurgedStep, RemovalInv, DefineTemp, Goto, client
<1>7. GuardStep
  BY DEF PackageKnows, GuardStep, RemovalInv, DefineTemp, At, pkg, Nobody
<1> QED
  BY <1>1, <1>2, <1>3, <1>4, <1>5, <1>6, <1>7 DEF RemovalInv

LEMMA DefineCredKeeps == ASSUME RemovalInv, DefineCred PROVE RemovalInv' /\ PurgedStep /\ GuardStep
<1>1. CoreType'
  BY DEF CoreType, RemovalInv, DefineCred, Goto, At, client, pkg, Owner, Running,
       DefineSteps
<1>2. PurgeKnows'
  BY DEF PurgeKnows, RemovalInv, DefineCred, Goto, At
<1>3. EtcHolds'
  BY DEF EtcHolds, RemovalInv, DefineCred, TempThere
<1>4. PackageKnows'
  BY DEF PackageKnows, RemovalInv, DefineCred, At, pkg
<1>5. GuardKnows'
  BY DEF GuardKnows, RemovalInv, DefineCred, pkg
<1>6. PurgedStep
  BY DEF PurgedStep, RemovalInv, DefineCred, Goto, client
<1>7. GuardStep
  BY DEF GuardStep, RemovalInv, DefineCred, pkg, Nobody
<1> QED
  BY <1>1, <1>2, <1>3, <1>4, <1>5, <1>6, <1>7 DEF RemovalInv

LEMMA DefineArmsKeeps == ASSUME RemovalInv, DefineArms PROVE RemovalInv' /\ PurgedStep /\ GuardStep
<1>1. CoreType'
  BY DEF CoreType, RemovalInv, DefineArms, Goto, At, client, pkg, Running, Roots, Owner,
       DefineSteps
<1>2. PurgeKnows'
  BY DEF PurgeKnows, RemovalInv, DefineArms, Goto, At
<1>3. EtcHolds'
  BY DEF EtcHolds, RemovalInv, DefineArms, Goto, At, TempThere
<1>4. PackageKnows'
  BY DEF PackageKnows, RemovalInv, DefineArms, At, pkg
<1>5. GuardKnows'
  BY DEF PackageKnows, GuardKnows, RemovalInv, DefineArms, At, pkg
<1>6. PurgedStep
  BY DEF PurgedStep, RemovalInv, DefineArms, Goto, client
<1>7. GuardStep
  BY DEF PackageKnows, GuardStep, RemovalInv, DefineArms, At, pkg, Nobody
<1> QED
  BY <1>1, <1>2, <1>3, <1>4, <1>5, <1>6, <1>7 DEF RemovalInv

LEMMA DefineRecordKeeps == ASSUME RemovalInv, DefineRecord PROVE RemovalInv' /\ PurgedStep /\ GuardStep
<1>1. CoreType'
  BY DEF CoreType, RemovalInv, DefineRecord, Answer, Told, At, client, pkg, Roots, Running
<1>2. PurgeKnows'
  BY DEF PurgeKnows, RemovalInv, DefineRecord, Answer
<1>3. EtcHolds'
  BY DEF EtcHolds, RemovalInv, DefineRecord, Answer, At, TempThere
<1>4. PackageKnows'
  BY DEF PackageKnows, RemovalInv, DefineRecord, Answer, pkg
<1>5. GuardKnows'
  BY DEF GuardKnows, RemovalInv, DefineRecord, pkg
<1>6. PurgedStep
  BY DEF PurgedStep, RemovalInv, DefineRecord, Answer, Told, At, client
<1>7. GuardStep
  BY DEF GuardStep, RemovalInv, DefineRecord, pkg, Nobody
<1> QED
  BY <1>1, <1>2, <1>3, <1>4, <1>5, <1>6, <1>7 DEF RemovalInv

LEMMA DefineFailsKeeps == ASSUME RemovalInv, DefineFails PROVE RemovalInv' /\ PurgedStep /\ GuardStep
<1>1. CoreType'
  <2>1. Owner \in Users
    BY DEF CoreType, RemovalInv, DefineFails, Owner, Running
  <2>2. half' \in [Users -> SUBSET Pair] /\ creds' \subseteq Users
    BY <2>1 DEF CoreType, RemovalInv, DefineFails
  <2>3. temp' \in BOOLEAN
    BY DEF CoreType, RemovalInv, DefineFails, TempThere
  <2>4. userLock' \in {None, "front", "cleanup"} /\ uninstall' \in UninstallSteps
    BY ToldType DEF RemovalInv, DefineFails, Answer
  <2> QED
    BY <2>2, <2>3, <2>4 DEF CoreType, RemovalInv, DefineFails, Answer, pkg, Roots
<1>2. PurgeKnows'
  BY DEF PurgeKnows, RemovalInv, DefineFails, Answer
<1>3. EtcHolds'
  BY DEF EtcHolds, RemovalInv, DefineFails, Answer, At, TempThere
<1>4. PackageKnows'
  BY DEF PackageKnows, RemovalInv, DefineFails, pkg
<1>5. GuardKnows'
  BY DEF CoreType, GuardKnows, RemovalInv, DefineFails, pkg, PackageKnows, Roots
<1>6. PurgedStep
  BY DEF PurgedStep, RemovalInv, DefineFails, Answer, Told, client
<1>7. GuardStep
  BY DEF CoreType, GuardStep, RemovalInv, DefineFails, pkg, Nobody
<1> QED
  BY <1>1, <1>2, <1>3, <1>4, <1>5, <1>6, <1>7 DEF RemovalInv

LEMMA PurgeBeginKeeps == ASSUME RemovalInv, PurgeBegin PROVE RemovalInv' /\ PurgedStep /\ GuardStep
<1>1. CoreType'
  BY AskedNotPurged DEF CoreType, RemovalInv, PurgeBegin, Goto, Answer, Told, At,
       client, pkg, Running, PurgeSteps, UninstallSteps, Roots
<1>2. PurgeKnows'
  BY DEF CoreType, PurgeKnows, RemovalInv, PurgeBegin, Goto, Answer, At, PurgeSteps,
       Running, Roots
<1>3. EtcHolds'
  <2>1. ~At("define", "cred")'
    BY DEF CoreType, RemovalInv, PurgeBegin, At, Goto, Answer, Running
  <2> QED
    BY <2>1 DEF EtcHolds, RemovalInv, PurgeBegin, TempThere
<1>4. PackageKnows'
  BY DEF PackageKnows, RemovalInv, PurgeBegin, At, pkg
<1>5. GuardKnows'
  BY DEF GuardKnows, RemovalInv, PurgeBegin, pkg
<1>6. PurgedStep
  BY AskedNotPurged DEF PurgedStep, RemovalInv, PurgeBegin, Answer, Told, client, Ends
<1>7. GuardStep
  BY DEF GuardStep, RemovalInv, PurgeBegin, pkg, Nobody
<1> QED
  BY <1>1, <1>2, <1>3, <1>4, <1>5, <1>6, <1>7 DEF RemovalInv

LEMMA PurgeStopKeeps == ASSUME RemovalInv, PurgeStop PROVE RemovalInv' /\ PurgedStep /\ GuardStep
<1>1. CoreType'
  BY DEF CoreType, RemovalInv, PurgeStop, Goto, At, client, pkg, Running, PurgeSteps
<1>2. PurgeKnows'
  BY DEF PurgeKnows, RemovalInv, PurgeStop, Goto, At, PurgeSteps
<1>3. EtcHolds'
  BY DEF EtcHolds, RemovalInv, PurgeStop, Goto, At, TempThere
<1>4. PackageKnows'
  BY DEF PackageKnows, RemovalInv, PurgeStop, At, pkg
<1>5. GuardKnows'
  BY DEF GuardKnows, RemovalInv, PurgeStop, pkg
<1>6. PurgedStep
  BY DEF PurgedStep, RemovalInv, PurgeStop, Goto, client
<1>7. GuardStep
  BY DEF GuardStep, RemovalInv, PurgeStop, pkg, Nobody
<1> QED
  BY <1>1, <1>2, <1>3, <1>4, <1>5, <1>6, <1>7 DEF RemovalInv

LEMMA PurgeMountKeeps == ASSUME RemovalInv, PurgeMount PROVE RemovalInv' /\ PurgedStep /\ GuardStep
<1>1. CoreType'
  BY DEF CoreType, RemovalInv, PurgeMount, PurgeUnit, Goto, At, client, pkg, Running,
       PurgeSteps
<1>2. PurgeKnows'
  BY PackageAssumption DEF CoreType, PurgeKnows, RemovalInv, PurgeMount, PurgeUnit, Goto,
       At, PurgeSteps
<1>3. EtcHolds'
  BY DEF EtcHolds, RemovalInv, PurgeMount, PurgeUnit, Goto, At, TempThere
<1>4. PackageKnows'
  BY DEF PackageKnows, RemovalInv, PurgeMount, PurgeUnit, At, pkg
<1>5. GuardKnows'
  BY DEF GuardKnows, RemovalInv, PurgeMount, PurgeUnit, pkg
<1>6. PurgedStep
  BY DEF PurgedStep, RemovalInv, PurgeMount, PurgeUnit, Goto, client
<1>7. GuardStep
  BY DEF GuardStep, RemovalInv, PurgeMount, PurgeUnit, pkg, Nobody
<1> QED
  BY <1>1, <1>2, <1>3, <1>4, <1>5, <1>6, <1>7 DEF RemovalInv

LEMMA PurgeAutomountKeeps == ASSUME RemovalInv, PurgeAutomount PROVE RemovalInv' /\ PurgedStep /\ GuardStep
<1>1. CoreType'
  BY DEF CoreType, RemovalInv, PurgeAutomount, PurgeUnit, Goto, At, client, pkg, Running,
       PurgeSteps
<1>2. PurgeKnows'
  BY PackageAssumption DEF CoreType, PurgeKnows, RemovalInv, PurgeAutomount, PurgeUnit,
       Goto, At, PurgeSteps, Pair
<1>3. EtcHolds'
  BY DEF EtcHolds, RemovalInv, PurgeAutomount, PurgeUnit, Goto, At, TempThere
<1>4. PackageKnows'
  BY DEF PackageKnows, RemovalInv, PurgeAutomount, PurgeUnit, At, pkg
<1>5. GuardKnows'
  BY DEF GuardKnows, RemovalInv, PurgeAutomount, PurgeUnit, pkg
<1>6. PurgedStep
  BY DEF PurgedStep, RemovalInv, PurgeAutomount, PurgeUnit, Goto, client
<1>7. GuardStep
  BY DEF GuardStep, RemovalInv, PurgeAutomount, PurgeUnit, pkg, Nobody
<1> QED
  BY <1>1, <1>2, <1>3, <1>4, <1>5, <1>6, <1>7 DEF RemovalInv

LEMMA PurgeCredKeeps == ASSUME RemovalInv, PurgeCred PROVE RemovalInv' /\ PurgedStep /\ GuardStep
<1>1. CoreType'
  BY DEF CoreType, RemovalInv, PurgeCred, Goto, At, client, pkg, Running, PurgeSteps,
       Roots
<1>2. PurgeKnows'
  BY DEF PurgeKnows, RemovalInv, PurgeCred, Goto, At, PurgeSteps, Roots
<1>3. EtcHolds'
  BY DEF EtcHolds, RemovalInv, PurgeCred, Goto, At, TempThere
<1>4. PackageKnows'
  BY DEF PackageKnows, RemovalInv, PurgeCred, At, pkg
<1>5. GuardKnows'
  BY DEF GuardKnows, RemovalInv, PurgeCred, pkg, PackageKnows, At
<1>6. PurgedStep
  BY DEF PurgedStep, RemovalInv, PurgeCred, Goto, client
<1>7. GuardStep
  BY DEF GuardStep, RemovalInv, PurgeCred, pkg, Nobody, At
<1> QED
  BY <1>1, <1>2, <1>3, <1>4, <1>5, <1>6, <1>7 DEF RemovalInv

LEMMA PurgeEtcKeeps == ASSUME RemovalInv, PurgeEtc PROVE RemovalInv' /\ PurgedStep /\ GuardStep
<1>1. CoreType'
  <2>1. running' \in Running
    BY DEF CoreType, RemovalInv, PurgeEtc, At, Goto, Running, PurgeSteps, Roots
  <2> QED
    BY <2>1 DEF CoreType, RemovalInv, PurgeEtc, Goto, client, pkg
<1>2. PurgeKnows'
  BY DEF PurgeKnows, RemovalInv, PurgeEtc, Goto, At, PurgeSteps, Roots
<1>3. EtcHolds'
  BY DEF EtcHolds, RemovalInv, PurgeEtc, Goto, At, TempThere
<1>4. PackageKnows'
  BY DEF PackageKnows, RemovalInv, PurgeEtc, At, pkg
<1>5. GuardKnows'
  BY DEF GuardKnows, RemovalInv, PurgeEtc, pkg
<1>6. PurgedStep
  BY DEF PurgedStep, RemovalInv, PurgeEtc, Goto, client
<1>7. GuardStep
  BY DEF GuardStep, RemovalInv, PurgeEtc, pkg, Nobody
<1> QED
  BY <1>1, <1>2, <1>3, <1>4, <1>5, <1>6, <1>7 DEF RemovalInv

LEMMA PurgeIdsKeeps == ASSUME RemovalInv, PurgeIds PROVE RemovalInv' /\ PurgedStep /\ GuardStep
<1>1. CoreType'
  <2>1. running' \in Running
    BY DEF CoreType, RemovalInv, PurgeIds, At, Goto, Running, PurgeSteps, Roots
  <2> QED
    BY <2>1 DEF CoreType, RemovalInv, PurgeIds, Goto, client, pkg
<1>2. PurgeKnows'
  BY DEF PurgeKnows, RemovalInv, PurgeIds, Goto, At, PurgeSteps, Roots
<1>3. EtcHolds'
  BY DEF EtcHolds, RemovalInv, PurgeIds, Goto, At, TempThere
<1>4. PackageKnows'
  BY DEF PackageKnows, RemovalInv, PurgeIds, At, pkg
<1>5. GuardKnows'
  BY DEF GuardKnows, RemovalInv, PurgeIds, pkg
<1>6. PurgedStep
  BY DEF PurgedStep, RemovalInv, PurgeIds, Goto, client
<1>7. GuardStep
  BY DEF GuardStep, RemovalInv, PurgeIds, pkg, Nobody, PurgeKnows, At
<1> QED
  BY <1>1, <1>2, <1>3, <1>4, <1>5, <1>6, <1>7 DEF RemovalInv

LEMMA PurgeLockKeeps == ASSUME RemovalInv, PurgeLock PROVE RemovalInv' /\ PurgedStep /\ GuardStep
<1>1. CoreType'
  BY DEF CoreType, RemovalInv, PurgeLock, Answer, Told, client, pkg, UninstallSteps,
       CleanupStatus, rejectedBeforeDispatch
<1>2. PurgeKnows'
  BY DEF PurgeKnows, RemovalInv, PurgeLock, Answer
<1>3. EtcHolds'
  BY DEF EtcHolds, RemovalInv, PurgeLock, Answer, At, TempThere
<1>4. PackageKnows'
  BY DEF PackageKnows, RemovalInv, PurgeLock, Answer, pkg
<1>5. GuardKnows'
  BY DEF PurgeKnows, GuardKnows, RemovalInv, PurgeLock, At
<1>6. PurgedStep
  BY DEF PurgeKnows, PurgedStep, RemovalInv, PurgeLock, At
<1>7. GuardStep
  BY DEF PurgeKnows, GuardStep, RemovalInv, PurgeLock, At, Nobody, pkg
<1> QED
  BY <1>1, <1>2, <1>3, <1>4, <1>5, <1>6, <1>7 DEF RemovalInv

LEMMA PurgeFailsKeeps == ASSUME RemovalInv, PurgeFails PROVE RemovalInv' /\ PurgedStep /\ GuardStep
<1>1. CoreType'
  BY AskedNotPurged DEF CoreType, RemovalInv, PurgeFails, Answer, Told, client, pkg,
       UninstallSteps, Roots
<1>2. PurgeKnows'
  BY DEF PurgeKnows, RemovalInv, PurgeFails, Answer
<1>3. EtcHolds'
  BY DEF EtcHolds, RemovalInv, PurgeFails, Answer, At, TempThere
<1>4. PackageKnows'
  BY DEF PackageKnows, RemovalInv, PurgeFails, pkg
<1>5. GuardKnows'
  BY DEF GuardKnows, RemovalInv, PurgeFails, pkg, PackageKnows, Roots
<1>6. PurgedStep
  BY AskedNotPurged DEF PurgedStep, RemovalInv, PurgeFails, Answer, Told, client, Ends
<1>7. GuardStep
  BY DEF GuardStep, RemovalInv, PurgeFails, pkg, Nobody
<1> QED
  BY <1>1, <1>2, <1>3, <1>4, <1>5, <1>6, <1>7 DEF RemovalInv

LEMMA BootPassKeeps == ASSUME RemovalInv, BootPass PROVE RemovalInv' /\ PurgedStep /\ GuardStep
<1>1. CoreType'
  BY DEF CoreType, RemovalInv, BootPass, client, pkg, Roots
<1>2. PurgeKnows'
  BY DEF PurgeKnows, RemovalInv, BootPass
<1>3. EtcHolds'
  BY DEF EtcHolds, RemovalInv, BootPass, At, TempThere
<1>4. PackageKnows'
  BY DEF PackageKnows, RemovalInv, BootPass, pkg
<1>5. GuardKnows'
  BY DEF GuardKnows, RemovalInv, BootPass
<1>6. PurgedStep
  BY DEF PurgedStep, RemovalInv, BootPass, client
<1>7. GuardStep
  BY DEF GuardStep, RemovalInv, BootPass, Nobody, pkg, Pair
<1> QED
  BY <1>1, <1>2, <1>3, <1>4, <1>5, <1>6, <1>7 DEF RemovalInv

LEMMA UninstallKeeps == ASSUME RemovalInv, Uninstall PROVE RemovalInv' /\ PurgedStep /\ GuardStep
<1>1. CoreType'
  BY DEF CoreType, RemovalInv, Uninstall, files, pkg, UninstallSteps, Ends
<1>2. PurgeKnows'
  BY DEF PurgeKnows, RemovalInv, Uninstall, files
<1>3. EtcHolds'
  BY DEF EtcHolds, RemovalInv, Uninstall, At, TempThere, files
<1>4. PackageKnows'
  BY DEF PackageKnows, RemovalInv, Uninstall, files, pkg
<1>5. GuardKnows'
  BY DEF GuardKnows, RemovalInv, Uninstall, files, pkg
<1>6. PurgedStep
  BY DEF PurgedStep, RemovalInv, Uninstall
<1>7. GuardStep
  BY DEF GuardStep, RemovalInv, Uninstall, files, pkg, Nobody
<1> QED
  BY <1>1, <1>2, <1>3, <1>4, <1>5, <1>6, <1>7 DEF RemovalInv

LEMMA AskPurgeKeeps == ASSUME RemovalInv, AskPurge PROVE RemovalInv' /\ PurgedStep /\ GuardStep
<1>1. CoreType'
  <2>1. [op |-> "purge", by |-> Caller, awaited |-> TRUE] \in HelperCall
    BY PackageAssumption DEF HelperCall
  <2>2. queue' \subseteq HelperCall
    BY <2>1 DEF CoreType, RemovalInv, AskPurge
  <2>3. userLock' \in {None, "front", "cleanup"} /\ uninstall' \in UninstallSteps
    BY DEF CoreType, RemovalInv, AskPurge, Exit, CleanupStatus, UninstallSteps, Ends
  <2> QED
    BY <2>2, <2>3 DEF CoreType, RemovalInv, AskPurge, files, pkg
<1>2. PurgeKnows'
  BY DEF PurgeKnows, RemovalInv, AskPurge, Exit, files
<1>3. EtcHolds'
  BY DEF EtcHolds, RemovalInv, AskPurge, Exit, At, TempThere, files
<1>4. PackageKnows'
  BY DEF PackageKnows, RemovalInv, AskPurge, Exit, files, pkg
<1>5. GuardKnows'
  BY DEF GuardKnows, RemovalInv, AskPurge, Exit, files, pkg
<1>6. PurgedStep
  BY DEF PurgedStep, RemovalInv, AskPurge, Exit
<1>7. GuardStep
  BY DEF GuardStep, RemovalInv, AskPurge, Exit, files, pkg, Nobody
<1> QED
  BY <1>1, <1>2, <1>3, <1>4, <1>5, <1>6, <1>7 DEF RemovalInv

LEMMA RemoveConfigKeeps == ASSUME RemovalInv, RemoveConfig PROVE RemovalInv' /\ PurgedStep /\ GuardStep
<1>1. CoreType'
  BY DEF CoreType, RemovalInv, RemoveConfig, files, pkg, UninstallSteps, Ends
<1>2. PurgeKnows'
  BY DEF PurgeKnows, RemovalInv, RemoveConfig, files
<1>3. EtcHolds'
  BY DEF EtcHolds, RemovalInv, RemoveConfig, At, TempThere, files
<1>4. PackageKnows'
  BY DEF PackageKnows, RemovalInv, RemoveConfig, files, pkg
<1>5. GuardKnows'
  BY DEF GuardKnows, RemovalInv, RemoveConfig, files, pkg
<1>6. PurgedStep
  BY DEF PurgedStep, RemovalInv, RemoveConfig
<1>7. GuardStep
  BY DEF GuardStep, RemovalInv, RemoveConfig, files, pkg, Nobody
<1> QED
  BY <1>1, <1>2, <1>3, <1>4, <1>5, <1>6, <1>7 DEF RemovalInv

LEMMA PrermKeeps == ASSUME RemovalInv, NEW purge \in BOOLEAN, Prerm(purge), uninstall' \in {uninstall, "removing"}
                   PROVE RemovalInv' /\ PurgedStep /\ GuardStep
<1>1. CoreType'
  <2>1. script' \in [step : ScriptSteps, purge : BOOLEAN]
    BY ScriptType DEF Prerm, ScriptSteps, CoreType, RemovalInv
  <2>2. armed' \subseteq Users /\ warned' \in BOOLEAN
    BY DEF CoreType, RemovalInv, Prerm, Disarm, Warn
  <2>3. uninstall' \in UninstallSteps
    BY DEF CoreType, RemovalInv, UninstallSteps
  <2> QED
    BY <2>1, <2>2, <2>3 DEF CoreType, RemovalInv, Prerm, files
<1>2. PurgeKnows'
  BY DEF PurgeKnows, RemovalInv, Prerm, Disarm, files
<1>3. EtcHolds'
  BY DEF EtcHolds, RemovalInv, Prerm, Disarm, At, TempThere, files
<1>4. PackageKnows'
  BY DEF PackageKnows, RemovalInv, Prerm, Disarm, files
<1>5. GuardKnows'
  BY DEF GuardKnows, RemovalInv, Prerm, Disarm, files
<1>6. PurgedStep
  BY DEF PurgedStep
<1>7. GuardStep
  BY DEF GuardStep, RemovalInv, Prerm, Disarm, Nobody, files
<1> QED
  BY <1>1, <1>2, <1>3, <1>4, <1>5, <1>6, <1>7 DEF RemovalInv

LEMMA RemovePackageKeeps == ASSUME RemovalInv, RemovePackage PROVE RemovalInv' /\ PurgedStep /\ GuardStep
<1>1. CASE Prerm(TRUE) /\ uninstall' = "removing"
  BY <1>1, PrermKeeps
<1>2. CASE uninstall' = "over" /\ UNCHANGED <<files, armed, userLock, queue, running, pkg>>
  <2> USE <1>2 DEF files, pkg
  <2>1. CoreType'
    BY DEF CoreType, RemovalInv, UninstallSteps, Ends
  <2>2. PurgeKnows'
    BY DEF PurgeKnows, RemovalInv
  <2>3. EtcHolds'
    BY DEF EtcHolds, RemovalInv, At, TempThere
  <2>4. PackageKnows' /\ GuardKnows'
    BY DEF PackageKnows, GuardKnows, RemovalInv
  <2>5. PurgedStep /\ GuardStep
    BY DEF PurgedStep, GuardStep, Nobody
  <2> QED
    BY <2>1, <2>2, <2>3, <2>4, <2>5 DEF RemovalInv
<1> QED
  BY <1>1, <1>2 DEF RemovePackage

LEMMA AdminRemovesKeeps == ASSUME RemovalInv, NEW purge \in BOOLEAN, AdminRemoves(purge)
                           PROVE RemovalInv' /\ PurgedStep /\ GuardStep
BY PrermKeeps DEF AdminRemoves

LEMMA DeleteFilesKeeps == ASSUME RemovalInv, DeleteFiles PROVE RemovalInv' /\ PurgedStep /\ GuardStep
<1>0. guard = "idle" /\ UNCHANGED <<guard, dirs>>
  BY DEF RemovalInv, PackageKnows, DeleteFiles, ScriptAt, Idle, files
<1>1. CoreType'
  <2>1. script' \in [step : ScriptSteps, purge : BOOLEAN]
    <3>1. script' = Idle \/ script' = [script EXCEPT !.step = "stop"]
      BY DEF DeleteFiles, ScriptGoto
    <3> QED
      BY <3>1, ScriptType DEF CoreType, RemovalInv, ScriptSteps
  <2> QED
    BY <2>1 DEF CoreType, RemovalInv, DeleteFiles, files, client
<1>2. PurgeKnows'
  BY DEF PurgeKnows, RemovalInv, DeleteFiles, files
<1>3. EtcHolds'
  BY DEF EtcHolds, RemovalInv, DeleteFiles, At, TempThere, files
<1>4. PackageKnows'
  BY <1>0 DEF PackageKnows, RemovalInv, DeleteFiles
<1>5. GuardKnows'
  BY <1>0 DEF GuardKnows, RemovalInv, DeleteFiles
<1>6. PurgedStep
  BY DEF PurgedStep, RemovalInv, DeleteFiles, client
<1>7. GuardStep
  BY DEF GuardStep, RemovalInv, DeleteFiles, Nobody, files
<1> QED
  BY <1>1, <1>2, <1>3, <1>4, <1>5, <1>6, <1>7 DEF RemovalInv

LEMMA PostrmStopKeeps == ASSUME RemovalInv, PostrmStop PROVE RemovalInv' /\ PurgedStep /\ GuardStep
<1>1. CoreType'
  BY DEF CoreType, RemovalInv, PostrmStop, Disarm, files, Elsewhere, ScriptGoto, Warn,
       ScriptSteps
<1>2. PurgeKnows'
  BY DEF PurgeKnows, RemovalInv, PostrmStop, Disarm, files, Elsewhere
<1>3. EtcHolds'
  BY DEF EtcHolds, RemovalInv, PostrmStop, Disarm, At, TempThere, files, Elsewhere
<1>4. PackageKnows'
  BY DEF PackageKnows, RemovalInv, PostrmStop, Disarm, Elsewhere, ScriptAt
<1>5. GuardKnows'
  BY DEF GuardKnows, RemovalInv, PostrmStop, Disarm, files, Elsewhere
<1>6. PurgedStep
  BY DEF PurgedStep, RemovalInv, PostrmStop, Disarm
<1>7. GuardStep
  BY DEF GuardStep, RemovalInv, PostrmStop, Disarm, files, Elsewhere, Nobody
<1> QED
  BY <1>1, <1>2, <1>3, <1>4, <1>5, <1>6, <1>7 DEF RemovalInv

LEMMA PostrmUnitsKeeps == ASSUME RemovalInv, PostrmUnits PROVE RemovalInv' /\ PurgedStep /\ GuardStep
<1>1. CoreType'
  BY DEF CoreType, RemovalInv, PostrmUnits, Elsewhere, ScriptGoto, Warn, Roots,
       ScriptSteps
<1>2. PurgeKnows'
  BY PackageAssumption DEF PurgeKnows, RemovalInv, PostrmUnits, Elsewhere
<1>3. EtcHolds'
  BY DEF EtcHolds, RemovalInv, PostrmUnits, At, TempThere, Elsewhere
<1>4. PackageKnows'
  BY DEF PackageKnows, RemovalInv, PostrmUnits, Elsewhere, ScriptAt
<1>5. GuardKnows'
  BY DEF GuardKnows, RemovalInv, PostrmUnits, Elsewhere
<1>6. PurgedStep
  BY DEF PurgedStep, RemovalInv, PostrmUnits
<1>7. GuardStep
  BY DEF GuardStep, RemovalInv, PostrmUnits, Elsewhere, Nobody
<1> QED
  BY <1>1, <1>2, <1>3, <1>4, <1>5, <1>6, <1>7 DEF RemovalInv

LEMMA PostrmRootsKeeps == ASSUME RemovalInv, PostrmRoots PROVE RemovalInv' /\ PurgedStep /\ GuardStep
<1>1. CoreType'
  <2> SUFFICES ASSUME NEW d \in Roots, NEW next \in {"lock", "ids", "last"}, PostrmRoot(d, next)
               PROVE CoreType'
    BY DEF PostrmRoots, Roots
  <2>1. script' \in [step : ScriptSteps, purge : BOOLEAN]
    <3>1. script' = Idle \/ script' = [script EXCEPT !.step = "lock"] \/ script' = [script EXCEPT !.step = "ids"]
      BY DEF PostrmRoot, ScriptGoto
    <3> QED
      BY <3>1, ScriptType DEF CoreType, RemovalInv, ScriptSteps, Roots
  <2>2. dirs' \subseteq Roots /\ creds' \subseteq Users /\ warned' \in BOOLEAN
    BY DEF CoreType, RemovalInv, PostrmRoot, RemoveStateDir, Warn
  <2>3. uninstall' \in UninstallSteps /\ package' \in {"installed", "removed", "purged"}
    BY DEF CoreType, RemovalInv, PostrmRoot, UninstallSteps, Ends
  <2> QED
    BY <2>1, <2>2, <2>3 DEF CoreType, RemovalInv, PostrmRoot, Elsewhere
<1>2. PurgeKnows'
  BY DEF PurgeKnows, RemovalInv, PostrmRoots, PostrmRoot, RemoveStateDir, Elsewhere
<1>3. EtcHolds'
  BY DEF EtcHolds, RemovalInv, PostrmRoots, PostrmRoot, RemoveStateDir, At, TempThere,
       Elsewhere
<1>4. PackageKnows'
  BY DEF PackageKnows, RemovalInv, PostrmRoots, PostrmRoot, RemoveStateDir, Elsewhere,
       ScriptAt
<1>5. GuardKnows'
  BY DEF PackageKnows, GuardKnows, RemovalInv, PostrmRoots, PostrmRoot, RemoveStateDir,
       Elsewhere, ScriptAt
<1>6. PurgedStep
  BY DEF PurgedStep, RemovalInv, PostrmRoots, PostrmRoot, RemoveStateDir
<1>7. GuardStep
  BY DEF PackageKnows, GuardStep, RemovalInv, PostrmRoots, PostrmRoot, RemoveStateDir,
       Elsewhere, ScriptAt, Nobody, Roots
<1> QED
  BY <1>1, <1>2, <1>3, <1>4, <1>5, <1>6, <1>7 DEF RemovalInv

LEMMA GuardStartsKeeps == ASSUME RemovalInv, GuardStarts PROVE RemovalInv' /\ PurgedStep /\ GuardStep
<1>1. CoreType'
  BY DEF CoreType, RemovalInv, GuardStarts, files, client
<1>2. PurgeKnows'
  BY DEF PurgeKnows, RemovalInv, GuardStarts, files
<1>3. EtcHolds'
  BY DEF EtcHolds, RemovalInv, GuardStarts, At, TempThere, files
<1>4. PackageKnows'
  BY DEF PackageKnows, RemovalInv, GuardStarts, files
<1>5. GuardKnows'
  BY DEF GuardKnows, RemovalInv, GuardStarts
<1>6. PurgedStep
  BY DEF PurgedStep, RemovalInv, GuardStarts, client
<1>7. GuardStep
  BY DEF GuardStep, RemovalInv, GuardStarts, Nobody, files
<1> QED
  BY <1>1, <1>2, <1>3, <1>4, <1>5, <1>6, <1>7 DEF RemovalInv

LEMMA GuardUnitsKeeps == ASSUME RemovalInv, GuardUnits PROVE RemovalInv' /\ PurgedStep /\ GuardStep
<1>1. CoreType'
  BY DEF CoreType, RemovalInv, GuardUnits, files, client, Roots
<1>2. PurgeKnows'
  BY DEF PurgeKnows, RemovalInv, GuardUnits, files
<1>3. EtcHolds'
  BY DEF EtcHolds, RemovalInv, GuardUnits, At, TempThere, files
<1>4. PackageKnows'
  BY DEF PackageKnows, RemovalInv, GuardUnits, files
<1>5. GuardKnows'
  BY DEF GuardKnows, RemovalInv, GuardUnits, files
<1>6. PurgedStep
  BY DEF PurgedStep, RemovalInv, GuardUnits, client
<1>7. GuardStep
  BY DEF GuardStep, RemovalInv, GuardUnits, files, Nobody
<1> QED
  BY <1>1, <1>2, <1>3, <1>4, <1>5, <1>6, <1>7 DEF RemovalInv

LEMMA GuardRootsKeeps == ASSUME RemovalInv, GuardRoots PROVE RemovalInv' /\ PurgedStep /\ GuardStep
<1>1. CoreType'
  BY DEF CoreType, RemovalInv, GuardRoots, GuardRoot, StateAt, files, client, Roots
<1>2. PurgeKnows'
  BY DEF PurgeKnows, RemovalInv, GuardRoots, GuardRoot, StateAt, files
<1>3. EtcHolds'
  BY DEF EtcHolds, RemovalInv, GuardRoots, GuardRoot, StateAt, At, TempThere, files
<1>4. PackageKnows'
  BY DEF PackageKnows, RemovalInv, GuardRoots, GuardRoot, StateAt, files
<1>5. GuardKnows'
  BY DEF GuardKnows, RemovalInv, GuardRoots, GuardRoot, StateAt, files
<1>6. PurgedStep
  BY DEF PurgedStep, RemovalInv, GuardRoots, GuardRoot, StateAt, client
<1>7. GuardStep
  BY DEF GuardStep, RemovalInv, GuardRoots, GuardRoot, StateAt, files, Nobody,
       PackageKnows, GuardKnows, Roots
<1> QED
  BY <1>1, <1>2, <1>3, <1>4, <1>5, <1>6, <1>7 DEF RemovalInv

LEMMA RebootKeeps == ASSUME RemovalInv, Reboot PROVE RemovalInv' /\ PurgedStep /\ GuardStep
<1>1. CoreType'
  BY DEF CoreType, RemovalInv, Reboot, TempThere, Idle, UninstallSteps, Ends, ScriptSteps
<1>2. PurgeKnows'
  BY DEF PurgeKnows, RemovalInv, Reboot
<1>3. EtcHolds'
  BY DEF EtcHolds, RemovalInv, Reboot, At, TempThere
<1>4. PackageKnows'
  BY DEF PackageKnows, RemovalInv, Reboot, Idle
<1>5. GuardKnows'
  BY DEF GuardKnows, RemovalInv, Reboot
<1>6. PurgedStep
  BY DEF PurgedStep, RemovalInv, Reboot
<1>7. GuardStep
  BY DEF GuardStep, RemovalInv, Reboot, Nobody, Roots
<1> QED
  BY <1>1, <1>2, <1>3, <1>4, <1>5, <1>6, <1>7 DEF RemovalInv

-----------------------------------------------------------------------------
(* The steps together, and the history variables, which every step sets.     *)

LEMMA StandstillKeeps == ASSUME RemovalInv, UNCHANGED vars PROVE RemovalInv' /\ PurgedStep /\ GuardStep
BY DEF RemovalInv, CoreType, PurgeKnows, EtcHolds, PackageKnows, GuardKnows, PurgedStep,
       GuardStep, Nobody, vars, files, client, pkg, TempThere, At

LEMMA RememberType == ASSUME CoreType, HistoryType, NEW done \in SUBSET Users, Remember(done)
                      PROVE HistoryType'
<1>1. Mine \in (SUBSET Pair) \X BOOLEAN
  <2>1. half[Caller] \in SUBSET Pair
    BY PackageAssumption DEF CoreType
  <2>2. (Caller \in creds) \in BOOLEAN
    OBVIOUS
  <2> QED
    BY <2>1, <2>2 DEF Mine
<1>2. Gone \in (SUBSET Pair) \X BOOLEAN
  BY DEF Gone
<1>3. before' \in (SUBSET Pair) \X BOOLEAN
  <2>1. before' = Gone \/ before' = before \/ before' = Mine
    BY DEF Remember
  <2> QED
    BY <1>1, <1>2, <2>1 DEF HistoryType
<1>4. disturbed' \in BOOLEAN /\ beside' \in BOOLEAN /\ late' \in BOOLEAN
  BY DEF Remember
<1>5. acked' \subseteq Users
  BY DEF Remember, HistoryType
<1> QED
  BY <1>3, <1>4, <1>5 DEF HistoryType

\* A share that is confirmed has its id record, whose directory stays while the
\* share does; and until a call begins nobody comes.
LEMMA GuardRemembers ==
    ASSUME GuardHistory, GuardStep, acked \subseteq Users, NEW done \in SUBSET Users, Remember(done),
           done # {} => "ids" \in dirs'
    PROVE  GuardHistory'
<1>1. ASSUME guard' = "ids", ~late' PROVE Nobody' /\ running' = None
  <2>1. CASE guard # "ids"
    BY <1>1, <2>1 DEF GuardStep
  <2>2. CASE guard = "ids"
    <3>1. ~late /\ ~(running = None /\ running' # None)
      BY <1>1 DEF Remember
    <3> QED
      BY <1>1, <2>2, <3>1 DEF GuardHistory, GuardStep
  <2> QED
    BY <2>1, <2>2
<1>2. ASSUME acked' # {} PROVE guard' \in Roots /\ "ids" \in dirs'
  <2>1. guard' \in Roots /\ acked' = {u \in acked \cup done : half'[u] # {}}
    BY <1>2 DEF Remember
  <2>2. CASE done # {}
    BY <2>1, <2>2
  <2>3. CASE done = {}
    <3>1. acked # {}
      BY <1>2, <2>1, <2>3
    <3>2. \E u \in Users : half'[u] # {}
      BY <1>2, <2>1 DEF Remember
    <3> QED
      BY <2>1, <3>1, <3>2 DEF GuardHistory, GuardStep
  <2> QED
    BY <2>2, <2>3
<1> QED
  BY <1>1, <1>2 DEF GuardHistory

LEMMA InitRight == Init => RemovalInv /\ HistoryInv
<1> SUFFICES ASSUME Init PROVE RemovalInv /\ HistoryInv
  OBVIOUS
<1>1. CoreType
  BY ScriptType DEF Init, CoreType, UninstallSteps, Ends, ScriptSteps, Idle
<1>2. PurgeKnows /\ EtcHolds /\ PackageKnows /\ GuardKnows
  BY DEF Init, PurgeKnows, EtcHolds, PackageKnows, GuardKnows, TempThere, At, Idle
<1>3. HistoryInv
  BY DEF Init, HistoryInv, HistoryType, GuardHistory, Gone
<1> QED
  BY <1>1, <1>2, <1>3 DEF RemovalInv

LEMMA DefineKeeps == ASSUME RemovalInv, Define PROVE RemovalInv' /\ PurgedStep /\ GuardStep
BY DefineStartsKeeps, DefineMountKeeps, DefineAutomountKeeps, DefineTempKeeps, DefineCredKeeps,
   DefineArmsKeeps, DefineFailsKeeps DEF Define

LEMMA PurgeKeeps == ASSUME RemovalInv, Purge PROVE RemovalInv' /\ PurgedStep /\ GuardStep
BY PurgeBeginKeeps, PurgeStopKeeps, PurgeMountKeeps, PurgeAutomountKeeps, PurgeCredKeeps,
   PurgeEtcKeeps, PurgeIdsKeeps, PurgeLockKeeps, PurgeFailsKeeps DEF Purge

LEMMA UninstallerKeeps == ASSUME RemovalInv, Uninstaller PROVE RemovalInv' /\ PurgedStep /\ GuardStep
BY UninstallKeeps, AskPurgeKeeps, RemoveConfigKeeps, RemovePackageKeeps DEF Uninstaller

LEMMA ScriptsKeep == ASSUME RemovalInv, Scripts PROVE RemovalInv' /\ PurgedStep /\ GuardStep
BY DeleteFilesKeeps, PostrmStopKeeps, PostrmUnitsKeeps, PostrmRootsKeeps DEF Scripts

LEMMA PackageGuardKeeps == ASSUME RemovalInv, PackageGuard PROVE RemovalInv' /\ PurgedStep /\ GuardStep
BY GuardStartsKeeps, GuardUnitsKeeps, GuardRootsKeeps DEF PackageGuard

LEMMA StepKeeps == RemovalInv /\ HistoryInv /\ [Next]_vars => RemovalInv' /\ HistoryInv' /\ PurgedStep
<1> SUFFICES ASSUME RemovalInv, HistoryInv, [Next]_vars
             PROVE RemovalInv' /\ HistoryInv' /\ PurgedStep
  OBVIOUS
<1>1. RemovalInv' /\ PurgedStep /\ GuardStep
  <2>1. CASE CallDefine
    BY <2>1, CallDefineKeeps
  <2>2. CASE \E c \in queue : BeginQueued(c) \/ Drop(c)
    BY <2>2, BeginQueuedKeeps, DropKeeps
  <2>3. CASE \E u \in Users \ {Caller} : BeginOther(u)
    BY <2>3, BeginOtherKeeps
  <2>4. CASE \E c \in HelperCall : LoseReply(c)
    BY <2>4, LoseReplyKeeps
  <2>5. CASE Define
    BY <2>5, DefineKeeps
  <2>14. CASE DefineRecord
    BY <2>14, DefineRecordKeeps
  <2>6. CASE Purge
    BY <2>6, PurgeKeeps
  <2>7. CASE BootPass
    BY <2>7, BootPassKeeps
  <2>8. CASE Uninstaller
    BY <2>8, UninstallerKeeps
  <2>9. CASE \E purge \in BOOLEAN : AdminRemoves(purge)
    BY <2>9, AdminRemovesKeeps
  <2>10. CASE Scripts
    BY <2>10, ScriptsKeep
  <2>11. CASE PackageGuard
    BY <2>11, PackageGuardKeeps
  <2>12. CASE Reboot
    BY <2>12, RebootKeeps
  <2>13. CASE UNCHANGED vars
    BY <2>13, StandstillKeeps
  <2> QED
    BY <2>1, <2>2, <2>3, <2>4, <2>5, <2>6, <2>7, <2>8, <2>9, <2>10, <2>11, <2>12, <2>13, <2>14
         DEF Next
<1>2. HistoryInv'
  <2>1. CASE \E done \in SUBSET Users : Remember(done) /\ (done # {} => "ids" \in dirs')
    <3>1. PICK done \in SUBSET Users : Remember(done) /\ (done # {} => "ids" \in dirs')
      BY <2>1
    <3>2. HistoryType'
      BY <3>1, RememberType DEF RemovalInv, HistoryInv
    <3>3. GuardHistory'
      BY <1>1, <3>1, GuardRemembers DEF HistoryInv, HistoryType
    <3> QED
      BY <3>2, <3>3 DEF HistoryInv
  <2>2. CASE UNCHANGED vars
    BY <2>2 DEF vars, history, files, client, pkg, HistoryInv, HistoryType, GuardHistory, Nobody
  <2>3. ASSUME Next PROVE \E done \in SUBSET Users : Remember(done) /\ (done # {} => "ids" \in dirs')
    <3>1. CASE Remember({})
      BY <3>1
    <3>2. CASE DefineRecord /\ Remember({Owner})
      <4>1. {Owner} \in SUBSET Users /\ "ids" \in dirs'
        BY <3>2 DEF DefineRecord, At, Owner, RemovalInv, CoreType, Running
      <4> QED
        BY <3>2, <4>1
    <3> QED
      BY <2>3, <3>1, <3>2 DEF Next
  <2> QED
    BY <2>1, <2>2, <2>3
<1> QED
  BY <1>1, <1>2

-----------------------------------------------------------------------------
(* What the uninstaller and the scripts tell: who waits for which call, what  *)
(* is known of triggers, of a cleanup's answer and of a silent purge.         *)

\* What a call of the caller's is waited for by: a front end that holds the user
\* lock, or a cleanup.
WaitedFor(op) == IF op = "define" THEN userLock = "front" ELSE uninstall = "waiting"

\* Only the caller's calls are queued, only the caller purges, and the user lock
\* lets one of the caller's programs wait for one call at a time.
AnswersKnown ==
    /\ userLock = "cleanup" <=> Cleaning
    /\ \A c \in queue : c.by = Caller /\ (c.awaited => WaitedFor(c.op))
    /\ running # None /\ running.op = "purge" => running.by = Caller
    /\ running # None /\ running.by = Caller /\ running.awaited =>
           WaitedFor(running.op) /\ \A c \in queue : ~c.awaited

\* While the package is there triggers have their unit, and a share being defined
\* has none until it is armed; a purge removes units without one.
TriggersKnown ==
    /\ package = "installed" =>
           /\ \A u \in armed : "automount" \in half[u]
           /\ running # None /\ running.op = "define" /\ running.step \notin {"begin", "record"} =>
                  running.by \notin armed
    /\ running # None /\ running.op = "purge" /\ running.step \in {"rmMount", "rmAutomount"} =>
           Caller \notin armed

\* What a cleanup may say of the caller's state, undisturbed.
CleanupKnown ==
    Cleaning /\ ~disturbed =>
        /\ Caller \in armed => "automount" \in half[Caller]
        /\ uninstall = "asked" => Mine = before
        /\ uninstall = "purged" => Mine = Gone

\* What scripts that have warned of nothing and were let alone have established.
QuietKnown ==
    ~warned /\ ~beside =>
        /\ script.step = "files" \/ package # "installed" => armed = {}
        /\ script.step \in Roots => \A u \in Users : half[u] = {}
        /\ script.step \in {"lock", "ids"} => creds = {} /\ ~TempThere /\ "etc" \notin dirs
        /\ script.step = "ids" => "lock" \notin dirs
        /\ package = "purged" => Clean /\ dirs = {}

TruthInv == AnswersKnown /\ TriggersKnown /\ CleanupKnown /\ QuietKnown

\* What a step may do to the caller's state and to a cleanup.
MineMove ==
    /\ \/ Mine' = Mine
       \/ script # Idle
       \/ /\ running # None /\ running.by = Caller
          /\ running.op = "purge" /\ Caller \in armed' /\ "automount" \in half[Caller] =>
                 "automount" \in half'[Caller]
    /\ Caller \in armed' => Caller \in armed \/ "automount" \in half'[Caller]
    /\ Cleaning' /\ ~Cleaning =>
           uninstall' = "asked" /\ package = "installed" /\ UNCHANGED <<half, creds, armed>>
    /\ uninstall' = "asked" => uninstall = "asked" \/ ~Cleaning
    /\ uninstall' = "purged" => uninstall = "purged" \/ Mine' = Gone
    /\ uninstall = "waiting" => uninstall' # "nothing"
    /\ uninstall = "purged" /\ uninstall' = "package" => Mine' = Mine

\* What a step outside the scripts may do to them.
ScriptsMove ==
    /\ package' = package
    /\ Removing /\ Removing' /\ warned => warned'
    /\ script' = script \/ script'.step \in {"idle", "stop"}

Moves == AnswersKnown' /\ TriggersKnown' /\ MineMove

\* The caller's front end asks for a share under the user lock.
LEMMA CallDefineMoves ==
    ASSUME RemovalInv, AnswersKnown, TriggersKnown, CallDefine
    PROVE  Moves /\ ScriptsMove
<1>1. AnswersKnown'
    BY PackageAssumption DEF AnswersKnown, WaitedFor, Cleaning, CallDefine, DefineCall
<1>2. TriggersKnown'
    BY DEF TriggersKnown, files, CallDefine
<1>3. MineMove
    BY DEF MineMove, Mine, Cleaning, files, CallDefine
<1>4. ScriptsMove
    BY DEF ScriptsMove, pkg, CallDefine
<1> QED
    BY <1>1, <1>2, <1>3, <1>4 DEF Moves

\* The helper takes up a call that waits.
LEMMA BeginQueuedMoves ==
    ASSUME RemovalInv, AnswersKnown, TriggersKnown, NEW c \in queue, BeginQueued(c)
    PROVE  Moves /\ ScriptsMove
<1>1. AnswersKnown'
    BY DEF RemovalInv, CoreType, AnswersKnown, WaitedFor, Cleaning, Running, HelperCall,
       client, BeginQueued, Begin
<1>2. TriggersKnown'
    BY DEF TriggersKnown, pkg, BeginQueued, Begin
<1>3. MineMove
    BY DEF MineMove, Mine, Cleaning, client, BeginQueued, Begin
<1>4. ScriptsMove
    BY DEF ScriptsMove, pkg, BeginQueued, Begin
<1> QED
    BY <1>1, <1>2, <1>3, <1>4 DEF Moves

\* A call nobody takes up answers with a lost connection.
LEMMA DropMoves ==
    ASSUME RemovalInv, AnswersKnown, TriggersKnown, NEW c \in queue, Drop(c)
    PROVE  Moves /\ ScriptsMove
<1>1. AnswersKnown'
    BY PackageAssumption DEF RemovalInv, CoreType, AnswersKnown, WaitedFor, Cleaning,
       Running, HelperCall, client, Drop, Told, CleanupStatus, rejectedBeforeDispatch
<1>2. TriggersKnown'
    BY DEF TriggersKnown, pkg, Drop
<1>3. MineMove
    BY DEF MineMove, Mine, Cleaning, files, client, Drop, Told, CleanupStatus,
       rejectedBeforeDispatch
<1>4. ScriptsMove
    BY DEF ScriptsMove, pkg, Drop
<1> QED
    BY <1>1, <1>2, <1>3, <1>4 DEF Moves

\* Another user's define begins.
LEMMA BeginOtherMoves ==
    ASSUME RemovalInv, AnswersKnown, TriggersKnown, NEW u \in Users \ {Caller}, BeginOther(u)
    PROVE  Moves /\ ScriptsMove
<1>1. AnswersKnown'
    BY DEF AnswersKnown, WaitedFor, Cleaning, client, BeginOther, Begin, DefineCall
<1>2. TriggersKnown'
    BY DEF TriggersKnown, pkg, BeginOther, Begin, DefineCall
<1>3. MineMove
    BY DEF MineMove, Mine, Cleaning, client, BeginOther, Begin, DefineCall
<1>4. ScriptsMove
    BY DEF ScriptsMove, pkg, BeginOther, Begin, DefineCall
<1> QED
    BY <1>1, <1>2, <1>3, <1>4 DEF Moves

\* Whoever waited for the call waits no longer.
LEMMA LoseReplyMoves ==
    ASSUME RemovalInv, AnswersKnown, TriggersKnown, NEW c \in HelperCall, LoseReply(c)
    PROVE  Moves /\ ScriptsMove
<1>1. AnswersKnown'
    BY PackageAssumption DEF RemovalInv, CoreType, AnswersKnown, WaitedFor, Cleaning,
       Running, HelperCall, LoseReply, Told, CleanupStatus, rejectedBeforeDispatch
<1>2. TriggersKnown'
    BY DEF RemovalInv, CoreType, TriggersKnown, Running, files, pkg, LoseReply
<1>3. MineMove
    BY DEF MineMove, Mine, Cleaning, files, LoseReply, Told, CleanupStatus,
       rejectedBeforeDispatch
<1>4. ScriptsMove
    BY DEF ScriptsMove, pkg, LoseReply
<1> QED
    BY <1>1, <1>2, <1>3, <1>4 DEF Moves

\* A define found nothing of its owner's.
LEMMA DefineStartsMoves ==
    ASSUME RemovalInv, AnswersKnown, TriggersKnown, DefineStarts
    PROVE  Moves /\ ScriptsMove
<1>1. AnswersKnown'
    BY DEF AnswersKnown, WaitedFor, Cleaning, client, DefineStarts, Goto, At
<1>2. TriggersKnown'
    BY DEF TriggersKnown, pkg, DefineStarts, Goto, Owner
<1>3. MineMove
    BY DEF MineMove, Mine, Cleaning, client, DefineStarts, Goto
<1>4. ScriptsMove
    BY DEF ScriptsMove, pkg, DefineStarts
<1> QED
    BY <1>1, <1>2, <1>3, <1>4 DEF Moves

\* Its first unit half appears.
LEMMA DefineMountMoves ==
    ASSUME RemovalInv, AnswersKnown, TriggersKnown, DefineMount
    PROVE  Moves /\ ScriptsMove
<1>1. AnswersKnown'
    BY DEF AnswersKnown, WaitedFor, Cleaning, client, DefineMount, WriteUnit, Goto, At
<1>2. TriggersKnown'
    BY DEF TriggersKnown, pkg, DefineMount, WriteUnit, Goto, At
<1>3. MineMove
    BY PackageAssumption DEF MineMove, Mine, Cleaning, client, DefineMount, WriteUnit, Goto,
       At, Owner
<1>4. ScriptsMove
    BY DEF ScriptsMove, pkg, DefineMount, WriteUnit
<1> QED
    BY <1>1, <1>2, <1>3, <1>4 DEF Moves

\* Its second unit half appears.
LEMMA DefineAutomountMoves ==
    ASSUME RemovalInv, AnswersKnown, TriggersKnown, DefineAutomount
    PROVE  Moves /\ ScriptsMove
<1>1. AnswersKnown'
    BY DEF AnswersKnown, WaitedFor, Cleaning, client, DefineAutomount, WriteUnit, Goto, At
<1>2. TriggersKnown'
    BY DEF TriggersKnown, pkg, DefineAutomount, WriteUnit, Goto, At
<1>3. MineMove
    BY PackageAssumption DEF MineMove, Mine, Cleaning, client, DefineAutomount, WriteUnit,
       Goto, At, Owner
<1>4. ScriptsMove
    BY DEF ScriptsMove, pkg, DefineAutomount, WriteUnit
<1> QED
    BY <1>1, <1>2, <1>3, <1>4 DEF Moves

\* Its secret is being written.
LEMMA DefineTempMoves ==
    ASSUME RemovalInv, AnswersKnown, TriggersKnown, DefineTemp
    PROVE  Moves /\ ScriptsMove
<1>1. AnswersKnown'
    BY DEF AnswersKnown, WaitedFor, Cleaning, client, DefineTemp, Goto, At
<1>2. TriggersKnown'
    BY DEF TriggersKnown, pkg, DefineTemp, Goto, At
<1>3. MineMove
    BY DEF MineMove, Mine, Cleaning, client, DefineTemp, Goto
<1>4. ScriptsMove
    BY DEF ScriptsMove, pkg, DefineTemp
<1> QED
    BY <1>1, <1>2, <1>3, <1>4 DEF Moves

\* Its secret is in place.
LEMMA DefineCredMoves ==
    ASSUME RemovalInv, AnswersKnown, TriggersKnown, DefineCred
    PROVE  Moves /\ ScriptsMove
<1>1. AnswersKnown'
    BY DEF AnswersKnown, WaitedFor, Cleaning, client, DefineCred, Goto, At
<1>2. TriggersKnown'
    BY DEF TriggersKnown, pkg, DefineCred, Goto, At
<1>3. MineMove
  <2>1. UNCHANGED <<half, armed, uninstall>> /\ running.op = "define"
    BY DEF DefineCred, Goto, At, client
  <2>2. Mine' = Mine \/ (running # None /\ running.by = Caller)
    BY DEF DefineCred, Mine, At, Owner
  <2> QED
    BY <2>1, <2>2 DEF MineMove, Cleaning
<1>4. ScriptsMove
    BY DEF ScriptsMove, pkg, DefineCred
<1> QED
    BY <1>1, <1>2, <1>3, <1>4 DEF Moves

\* Its trigger is up, and it answers.
LEMMA DefineArmsMoves ==
    ASSUME RemovalInv, AnswersKnown, TriggersKnown, DefineArms
    PROVE  Moves /\ ScriptsMove
<1>1. AnswersKnown'
    BY PackageAssumption DEF AnswersKnown, WaitedFor, Cleaning, client, DefineArms, Goto, At
<1>2. TriggersKnown'
    BY DEF TriggersKnown, pkg, DefineArms, Goto, At, Pair, Owner
<1>3. MineMove
    BY DEF MineMove, Mine, Cleaning, client, DefineArms, Goto, At, Pair, Owner
<1>4. ScriptsMove
    BY DEF ScriptsMove, pkg, DefineArms, Goto
<1> QED
    BY <1>1, <1>2, <1>3, <1>4 DEF Moves

\* The id record comes with its directory, and the share is confirmed.
LEMMA DefineRecordMoves ==
    ASSUME RemovalInv, AnswersKnown, TriggersKnown, DefineRecord
    PROVE  Moves /\ ScriptsMove
<1>1. AnswersKnown'
    BY PackageAssumption DEF AnswersKnown, WaitedFor, Cleaning, client, DefineRecord, Answer,
       Told, At
<1>2. TriggersKnown'
    BY DEF TriggersKnown, pkg, DefineRecord, Answer, Pair
<1>3. MineMove
    BY DEF MineMove, Mine, Cleaning, client, DefineRecord, Answer, Told, At, Pair
<1>4. ScriptsMove
    BY DEF ScriptsMove, pkg, DefineRecord, Answer
<1> QED
    BY <1>1, <1>2, <1>3, <1>4 DEF Moves

\* It cleans up some of what it made, which has no trigger by then.
LEMMA DefineFailsMoves ==
    ASSUME RemovalInv, AnswersKnown, TriggersKnown, DefineFails
    PROVE  Moves /\ ScriptsMove
<1>1. AnswersKnown'
    BY PackageAssumption DEF AnswersKnown, WaitedFor, Cleaning, client, DefineFails, Answer,
       Told
<1>2. TriggersKnown'
    BY DEF RemovalInv, CoreType, TriggersKnown, pkg, DefineFails, Answer, Owner
<1>3. MineMove
  <2>1. armed' \subseteq armed /\ running # None /\ running.op = "define"
    BY DEF DefineFails
  <2>2. Mine' = Mine \/ running.by = Caller
    BY PackageAssumption DEF RemovalInv, CoreType, DefineFails, Mine, Owner
  <2>3. uninstall' = uninstall
    BY <2>1 DEF DefineFails, Answer, Told, client
  <2> QED
    BY <2>1, <2>2, <2>3 DEF MineMove, Cleaning
<1>4. ScriptsMove
    BY DEF ScriptsMove, pkg, DefineFails, Answer
<1> QED
    BY <1>1, <1>2, <1>3, <1>4 DEF Moves

\* A purge looks at whose the definitions are.
LEMMA PurgeBeginMoves ==
    ASSUME RemovalInv, AnswersKnown, TriggersKnown, PurgeBegin
    PROVE  Moves /\ ScriptsMove
<1>1. AnswersKnown'
    BY PackageAssumption DEF RemovalInv, CoreType, AnswersKnown, WaitedFor, Cleaning,
       Running, HelperCall, client, PurgeBegin, Goto, Answer, Told, At, CleanupStatus,
       rejectedBeforeDispatch
<1>2. TriggersKnown'
    BY DEF RemovalInv, CoreType, TriggersKnown, Running, pkg, PurgeBegin, Goto, Answer, At
<1>3. MineMove
    BY DEF MineMove, Mine, Cleaning, client, PurgeBegin, Goto, Answer, Told, CleanupStatus,
       rejectedBeforeDispatch
<1>4. ScriptsMove
    BY DEF ScriptsMove, pkg, PurgeBegin, Answer
<1> QED
    BY <1>1, <1>2, <1>3, <1>4 DEF Moves

\* It stops the caller's trigger.
LEMMA PurgeStopMoves ==
    ASSUME RemovalInv, AnswersKnown, TriggersKnown, PurgeStop
    PROVE  Moves /\ ScriptsMove
<1>1. AnswersKnown'
    BY DEF AnswersKnown, WaitedFor, Cleaning, client, PurgeStop, Goto, At
<1>2. TriggersKnown'
    BY DEF TriggersKnown, pkg, PurgeStop, Goto, At
<1>3. MineMove
    BY DEF MineMove, Mine, Cleaning, client, PurgeStop, Goto
<1>4. ScriptsMove
    BY DEF ScriptsMove, pkg, PurgeStop
<1> QED
    BY <1>1, <1>2, <1>3, <1>4 DEF Moves

\* It unlinks the unit.
LEMMA PurgeMountMoves ==
    ASSUME RemovalInv, AnswersKnown, TriggersKnown, PurgeMount
    PROVE  Moves /\ ScriptsMove
<1>1. AnswersKnown'
    BY DEF AnswersKnown, WaitedFor, Cleaning, client, PurgeMount, PurgeUnit, Goto, At
<1>2. TriggersKnown'
    BY DEF TriggersKnown, pkg, PurgeMount, PurgeUnit, Goto, At
<1>3. MineMove
    BY DEF AnswersKnown, WaitedFor, MineMove, Mine, Cleaning, client, PurgeMount, PurgeUnit,
       Goto, At
<1>4. ScriptsMove
    BY DEF ScriptsMove, pkg, PurgeMount, PurgeUnit
<1> QED
    BY <1>1, <1>2, <1>3, <1>4 DEF Moves

\* It unlinks the automount unit, whose trigger is down.
LEMMA PurgeAutomountMoves ==
    ASSUME RemovalInv, AnswersKnown, TriggersKnown, PurgeAutomount
    PROVE  Moves /\ ScriptsMove
<1>1. AnswersKnown'
    BY DEF AnswersKnown, WaitedFor, Cleaning, client, PurgeAutomount, PurgeUnit, Goto, At
<1>2. TriggersKnown'
    BY DEF TriggersKnown, pkg, PurgeAutomount, PurgeUnit, Goto, At
<1>3. MineMove
    BY DEF AnswersKnown, WaitedFor, TriggersKnown, MineMove, Mine, Cleaning, client,
       PurgeAutomount, PurgeUnit, Goto, At
<1>4. ScriptsMove
    BY DEF ScriptsMove, pkg, PurgeAutomount, PurgeUnit
<1> QED
    BY <1>1, <1>2, <1>3, <1>4 DEF Moves

\* It unlinks the credential.
LEMMA PurgeCredMoves ==
    ASSUME RemovalInv, AnswersKnown, TriggersKnown, PurgeCred
    PROVE  Moves /\ ScriptsMove
<1>1. AnswersKnown'
    BY DEF AnswersKnown, WaitedFor, Cleaning, client, PurgeCred, Goto, At
<1>2. TriggersKnown'
    BY DEF TriggersKnown, pkg, PurgeCred, Goto, At
<1>3. MineMove
    BY DEF AnswersKnown, WaitedFor, MineMove, Mine, Cleaning, client, PurgeCred, Goto, At
<1>4. ScriptsMove
    BY DEF ScriptsMove, pkg, PurgeCred
<1> QED
    BY <1>1, <1>2, <1>3, <1>4 DEF Moves

\* It removes the credential directory.
LEMMA PurgeEtcMoves ==
    ASSUME RemovalInv, AnswersKnown, TriggersKnown, PurgeEtc
    PROVE  Moves /\ ScriptsMove
<1>1. AnswersKnown'
    BY DEF AnswersKnown, WaitedFor, Cleaning, client, PurgeEtc, Goto, At
<1>2. TriggersKnown'
    BY DEF TriggersKnown, pkg, PurgeEtc, Goto, At
<1>3. MineMove
    BY DEF AnswersKnown, WaitedFor, MineMove, Mine, Cleaning, client, PurgeEtc, Goto, At
<1>4. ScriptsMove
    BY DEF ScriptsMove, pkg, PurgeEtc
<1> QED
    BY <1>1, <1>2, <1>3, <1>4 DEF Moves

\* It removes the directory of the id records.
LEMMA PurgeIdsMoves ==
    ASSUME RemovalInv, AnswersKnown, TriggersKnown, PurgeIds
    PROVE  Moves /\ ScriptsMove
<1>1. AnswersKnown'
    BY DEF AnswersKnown, WaitedFor, Cleaning, client, PurgeIds, Goto, At
<1>2. TriggersKnown'
    BY DEF TriggersKnown, pkg, PurgeIds, Goto, At
<1>3. MineMove
    BY DEF AnswersKnown, WaitedFor, MineMove, Mine, Cleaning, client, PurgeIds, Goto, At
<1>4. ScriptsMove
    BY DEF ScriptsMove, pkg, PurgeIds
<1> QED
    BY <1>1, <1>2, <1>3, <1>4 DEF Moves

\* It removes the lock directory and confirms: nothing of the caller's is left.
LEMMA PurgeLockMoves ==
    ASSUME RemovalInv, AnswersKnown, TriggersKnown, PurgeLock
    PROVE  Moves /\ ScriptsMove
<1>1. AnswersKnown'
    BY DEF AnswersKnown, WaitedFor, Cleaning, client, PurgeLock, Answer, Told, At,
       CleanupStatus, rejectedBeforeDispatch
<1>2. TriggersKnown'
    BY DEF TriggersKnown, pkg, PurgeLock, Answer
<1>3. MineMove
  <2>1. half[Caller] = {} /\ Caller \notin creds
    BY DEF RemovalInv, PurgeKnows, EtcHolds, PurgeLock, At
  <2>2. UNCHANGED <<half, creds, armed>>
    BY DEF PurgeLock
  <2>6. Mine' = Mine /\ Mine = Gone
    <3>1. (Caller \in creds) = FALSE
      BY <2>1
    <3>2. Mine' = Mine
      BY <2>2 DEF Mine
    <3> QED
      BY <2>1, <3>1, <3>2 DEF Mine, Gone
  <2>3. uninstall' \in {uninstall, "purged"} \/ (uninstall' # "nothing" /\ uninstall' \in Ends)
    BY DEF PurgeLock, Answer, Told, client, CleanupStatus, rejectedBeforeDispatch, At
  <2>4. uninstall' # uninstall => running.by = Caller /\ running.awaited
    BY DEF PurgeLock, Answer, Told, client
  <2>5. uninstall' # uninstall => uninstall = "waiting"
    BY <2>4 DEF PurgeLock, At, AnswersKnown, WaitedFor
  <2> QED
    BY <2>2, <2>6, <2>3, <2>5 DEF MineMove, Cleaning, Ends
<1>4. ScriptsMove
    BY DEF ScriptsMove, pkg, PurgeLock, Answer
<1> QED
    BY <1>1, <1>2, <1>3, <1>4 DEF Moves

\* It gives up, which is no claim that nothing was removed.
LEMMA PurgeFailsMoves ==
    ASSUME RemovalInv, AnswersKnown, TriggersKnown, PurgeFails
    PROVE  Moves /\ ScriptsMove
<1>1. AnswersKnown'
    BY PackageAssumption DEF AnswersKnown, WaitedFor, Cleaning, client, PurgeFails, Answer,
       Told, CleanupStatus, rejectedBeforeDispatch
<1>2. TriggersKnown'
    BY DEF TriggersKnown, pkg, PurgeFails, Answer
<1>3. MineMove
    BY DEF MineMove, Mine, Cleaning, client, PurgeFails, Answer, Told, CleanupStatus,
       rejectedBeforeDispatch
<1>4. ScriptsMove
    BY DEF ScriptsMove, pkg, PurgeFails, Answer
<1> QED
    BY <1>1, <1>2, <1>3, <1>4 DEF Moves

\* Boot arms whole shares only.
LEMMA BootPassMoves ==
    ASSUME RemovalInv, AnswersKnown, TriggersKnown, BootPass
    PROVE  Moves /\ ScriptsMove
<1>1. AnswersKnown'
    BY DEF AnswersKnown, WaitedFor, Cleaning, client, BootPass
<1>2. TriggersKnown'
    BY DEF TriggersKnown, BootPass, Pair
<1>3. MineMove
  <2>1. UNCHANGED <<half, creds, uninstall>>
    BY DEF BootPass, client
  <2>2. Caller \in armed' => Caller \in armed \/ half[Caller] = Pair
    BY DEF BootPass
  <2> QED
    BY <2>1, <2>2 DEF MineMove, Mine, Cleaning, Pair
<1>4. ScriptsMove
    BY DEF ScriptsMove, pkg, BootPass
<1> QED
    BY <1>1, <1>2, <1>3, <1>4 DEF Moves

\* A cleanup starts from a machine where triggers have their units.
LEMMA UninstallMoves ==
    ASSUME RemovalInv, AnswersKnown, TriggersKnown, Uninstall
    PROVE  Moves /\ ScriptsMove
<1>1. AnswersKnown'
    BY PackageAssumption DEF AnswersKnown, WaitedFor, Cleaning, Uninstall, Ends
<1>2. TriggersKnown'
    BY DEF TriggersKnown, files, Uninstall
<1>3. MineMove
    BY DEF MineMove, Mine, Cleaning, Uninstall, Ends, files
<1>4. ScriptsMove
    BY DEF ScriptsMove, pkg, Uninstall
<1> QED
    BY <1>1, <1>2, <1>3, <1>4 DEF Moves

\* It asks for the purge, or is refused before anything began.
LEMMA AskPurgeMoves ==
    ASSUME RemovalInv, AnswersKnown, TriggersKnown, AskPurge
    PROVE  Moves /\ ScriptsMove
<1>1. AnswersKnown'
    BY PackageAssumption DEF AnswersKnown, WaitedFor, Cleaning, AskPurge, Exit,
       CleanupStatus, rejectedBeforeDispatch
<1>2. TriggersKnown'
    BY DEF TriggersKnown, files, pkg, AskPurge, Exit
<1>3. MineMove
  <2>1. UNCHANGED <<half, creds, armed>> /\ uninstall = "asked"
    BY DEF AskPurge, files
  <2>2. uninstall' \in {"nothing", "over", "waiting"}
    BY DEF AskPurge, Exit, CleanupStatus, rejectedBeforeDispatch
  <2> QED
    BY <2>1, <2>2 DEF MineMove, Mine, Cleaning
<1>4. ScriptsMove
    BY DEF ScriptsMove, pkg, AskPurge, Exit
<1> QED
    BY <1>1, <1>2, <1>3, <1>4 DEF Moves

\* The confirmed cleanup is done.
LEMMA RemoveConfigMoves ==
    ASSUME RemovalInv, AnswersKnown, TriggersKnown, RemoveConfig
    PROVE  Moves /\ ScriptsMove
<1>1. AnswersKnown'
    BY PackageAssumption DEF AnswersKnown, WaitedFor, Cleaning, RemoveConfig
<1>2. TriggersKnown'
    BY DEF TriggersKnown, files, pkg, RemoveConfig
<1>3. MineMove
    BY DEF MineMove, Mine, Cleaning, files, RemoveConfig
<1>4. ScriptsMove
    BY DEF ScriptsMove, pkg, RemoveConfig
<1> QED
    BY <1>1, <1>2, <1>3, <1>4 DEF Moves

\* prerm stops triggers.
LEMMA PrermMoves ==
    ASSUME RemovalInv, AnswersKnown, TriggersKnown, NEW purge \in BOOLEAN, Prerm(purge),
           uninstall' = uninstall \/ (uninstall = "package" /\ uninstall' = "removing")
    PROVE  Moves
<1>1. AnswersKnown'
    BY DEF AnswersKnown, WaitedFor, Cleaning, Prerm
<1>2. TriggersKnown'
    BY DEF TriggersKnown, files, Prerm, Disarm
<1>3. MineMove
  <2>1. armed' \subseteq armed /\ UNCHANGED <<half, creds>>
    BY DEF files, Prerm, Disarm
  <2> QED
    BY <2>1 DEF MineMove, Mine, Cleaning
<1> QED
    BY <1>1, <1>2, <1>3 DEF Moves

\* The uninstaller starts the package manager, or ends.
LEMMA RemovePackageMoves ==
    ASSUME RemovalInv, AnswersKnown, TriggersKnown, RemovePackage
    PROVE  Moves /\ (ScriptsMove \/ Prerm(TRUE))
<1>1. CASE Prerm(TRUE) /\ uninstall' = "removing"
  BY <1>1, PrermMoves DEF RemovePackage
<1>2. CASE uninstall' = "over" /\ UNCHANGED <<files, armed, userLock, queue, running, pkg>>
  <2>1. AnswersKnown'
    BY <1>2 DEF RemovePackage, AnswersKnown, WaitedFor, Cleaning
  <2>2. TriggersKnown'
    BY <1>2 DEF TriggersKnown, files, pkg
  <2>3. MineMove
    BY <1>2 DEF RemovePackage, MineMove, Mine, Cleaning, files
  <2>4. ScriptsMove
    BY <1>2 DEF ScriptsMove, pkg
  <2> QED
    BY <2>1, <2>2, <2>3, <2>4 DEF Moves
<1> QED
  BY <1>1, <1>2 DEF RemovePackage

\* The program files go.
LEMMA DeleteFilesMoves ==
    ASSUME RemovalInv, AnswersKnown, TriggersKnown, DeleteFiles
    PROVE  Moves
<1>1. AnswersKnown'
    BY DEF AnswersKnown, WaitedFor, Cleaning, client, DeleteFiles, ScriptAt, ScriptGoto
<1>2. TriggersKnown'
    BY DEF TriggersKnown, DeleteFiles, ScriptAt, ScriptGoto
<1>3. MineMove
    BY DEF MineMove, Mine, Cleaning, client, DeleteFiles, ScriptAt, ScriptGoto, Idle
<1> QED
    BY <1>1, <1>2, <1>3 DEF Moves

\* postrm stops triggers.
LEMMA PostrmStopMoves ==
    ASSUME RemovalInv, AnswersKnown, TriggersKnown, PostrmStop
    PROVE  Moves
<1>1. AnswersKnown'
    BY DEF AnswersKnown, WaitedFor, Cleaning, PostrmStop, Disarm, ScriptAt, ScriptGoto,
       Elsewhere
<1>2. TriggersKnown'
    BY DEF TriggersKnown, files, PostrmStop, Disarm, ScriptAt, ScriptGoto, Elsewhere
<1>3. MineMove
    BY DEF MineMove, Mine, Cleaning, PostrmStop, Disarm, ScriptAt, ScriptGoto, Elsewhere,
       Idle
<1> QED
    BY <1>1, <1>2, <1>3 DEF Moves

\* postrm unlinks units.
LEMMA PostrmUnitsMoves ==
    ASSUME RemovalInv, AnswersKnown, TriggersKnown, PostrmUnits
    PROVE  Moves
<1>1. AnswersKnown'
    BY DEF AnswersKnown, WaitedFor, Cleaning, PostrmUnits, ScriptAt, ScriptGoto, Elsewhere
<1>2. TriggersKnown'
    BY DEF RemovalInv, PackageKnows, TriggersKnown, PostrmUnits, ScriptAt, ScriptGoto,
       Elsewhere
<1>3. MineMove
    BY DEF MineMove, Mine, Cleaning, PostrmUnits, ScriptAt, Elsewhere, Idle
<1> QED
    BY <1>1, <1>2, <1>3 DEF Moves

\* postrm removes the roots.
LEMMA PostrmRootsMoves ==
    ASSUME RemovalInv, AnswersKnown, TriggersKnown, PostrmRoots
    PROVE  Moves
<1>1. AnswersKnown'
    BY DEF AnswersKnown, WaitedFor, Cleaning, PostrmRoots, PostrmRoot, RemoveStateDir,
       ScriptAt, ScriptGoto, Elsewhere
<1>2. TriggersKnown'
    BY DEF TriggersKnown, PostrmRoots, PostrmRoot, RemoveStateDir, ScriptAt, ScriptGoto,
       Elsewhere
<1>3. MineMove
  <2>1. script # Idle /\ UNCHANGED <<half, armed>>
    BY DEF PostrmRoots, PostrmRoot, ScriptAt, Idle
  <2>2. uninstall' \in {uninstall, "over"} /\ (uninstall' # uninstall => uninstall = "removing")
    BY DEF PostrmRoots, PostrmRoot
  <2>3. uninstall = "purged" => uninstall' = "purged"
    BY <2>2
  <2> QED
    BY <2>1, <2>2, <2>3 DEF MineMove, Mine, Cleaning
<1> QED
    BY <1>1, <1>2, <1>3 DEF Moves

\* The guard touches nothing.
LEMMA GuardStartsMoves ==
    ASSUME RemovalInv, AnswersKnown, TriggersKnown, GuardStarts
    PROVE  Moves /\ ScriptsMove
<1>1. AnswersKnown'
    BY DEF AnswersKnown, WaitedFor, Cleaning, client, GuardStarts
<1>2. TriggersKnown'
    BY DEF TriggersKnown, files, GuardStarts
<1>3. MineMove
    BY DEF MineMove, Mine, Cleaning, files, client, GuardStarts
<1>4. ScriptsMove
    BY DEF ScriptsMove, GuardStarts
<1> QED
    BY <1>1, <1>2, <1>3, <1>4 DEF Moves

\* Nor does its look at units.
LEMMA GuardUnitsMoves ==
    ASSUME RemovalInv, AnswersKnown, TriggersKnown, GuardUnits
    PROVE  Moves /\ ScriptsMove
<1>1. AnswersKnown'
    BY DEF AnswersKnown, WaitedFor, Cleaning, client, GuardUnits
<1>2. TriggersKnown'
    BY DEF TriggersKnown, files, GuardUnits
<1>3. MineMove
    BY DEF MineMove, Mine, Cleaning, files, client, GuardUnits
<1>4. ScriptsMove
    BY DEF ScriptsMove, GuardUnits
<1> QED
    BY <1>1, <1>2, <1>3, <1>4 DEF Moves

\* Nor does its look at roots.
LEMMA GuardRootsMoves ==
    ASSUME RemovalInv, AnswersKnown, TriggersKnown, GuardRoots
    PROVE  Moves /\ ScriptsMove
<1>1. AnswersKnown'
    BY DEF AnswersKnown, WaitedFor, Cleaning, client, GuardRoots, GuardRoot
<1>2. TriggersKnown'
    BY DEF TriggersKnown, files, GuardRoots, GuardRoot
<1>3. MineMove
    BY DEF MineMove, Mine, Cleaning, files, client, GuardRoots, GuardRoot
<1>4. ScriptsMove
    BY DEF ScriptsMove, GuardRoots, GuardRoot
<1> QED
    BY <1>1, <1>2, <1>3, <1>4 DEF Moves

\* A restart ends every call, and an uninstall with it.
LEMMA RebootMoves ==
    ASSUME RemovalInv, AnswersKnown, TriggersKnown, Reboot
    PROVE  Moves /\ ScriptsMove
<1>1. AnswersKnown'
    BY PackageAssumption DEF AnswersKnown, WaitedFor, Cleaning, Reboot, Ends
<1>2. TriggersKnown'
    BY DEF TriggersKnown, Reboot
<1>3. MineMove
    BY DEF MineMove, Mine, Cleaning, Reboot
<1>4. ScriptsMove
    BY DEF ScriptsMove, Reboot, Idle, Removing
<1> QED
    BY <1>1, <1>2, <1>3, <1>4 DEF Moves

-----------------------------------------------------------------------------
(* The history: what a cleanup and a silent purge may say.                   *)

\* A cleanup that was not disturbed knows how the caller's state came about:
\* nothing but its own purge has changed it.
LEMMA CleanupKeeps ==
    ASSUME CoreType, AnswersKnown, TriggersKnown, CleanupKnown, MineMove, NEW done, Remember(done)
    PROVE  CleanupKnown'
<1> SUFFICES ASSUME Cleaning', ~disturbed'
             PROVE  /\ Caller \in armed' => "automount" \in half'[Caller]
                    /\ uninstall' = "asked" => Mine' = before'
                    /\ uninstall' = "purged" => Mine' = Gone
  BY DEF CleanupKnown, Mine, Gone
<1>1. CASE ~Cleaning
  <2>1. /\ uninstall' = "asked" /\ package = "installed"
        /\ UNCHANGED <<half, creds, armed>>
    BY <1>1 DEF MineMove
  <2>2. before' = Mine
    BY <1>1 DEF Remember
  <2>3. Mine' = Mine
    BY <2>1 DEF Mine
  <2> QED
    BY <2>1, <2>2, <2>3 DEF TriggersKnown
<1>2. CASE Cleaning
  <2>1. /\ ~disturbed /\ before' = before
        /\ Mine' # Mine => ~Abandoned /\ script = Idle
    BY <1>2 DEF Remember
  <2>2. CASE Mine' = Mine
    <3>1. UNCHANGED half[Caller]
      BY <2>2 DEF Mine
    <3> QED
      BY <1>2, <2>1, <2>2, <3>1 DEF CleanupKnown, MineMove
  <2>3. CASE Mine' # Mine
    <3>1. running # None /\ running.by = Caller /\ running.awaited
      BY <2>1, <2>3 DEF MineMove, Abandoned
    <3>2. running.op = "purge" /\ uninstall = "waiting"
      <4>1. userLock = "cleanup"
        BY <1>2 DEF AnswersKnown
      <4>2. WaitedFor(running.op)
        BY <3>1 DEF AnswersKnown
      <4>3. uninstall = "waiting"
        BY <4>1, <4>2 DEF WaitedFor
      <4> QED
        BY <4>1, <4>2, <4>3, <3>1 DEF WaitedFor, CoreType, Running
    <3>3. Caller \in armed' => "automount" \in half'[Caller]
      BY <1>2, <2>1, <2>3, <3>1, <3>2 DEF MineMove, CleanupKnown
    <3> QED
      BY <1>2, <3>2, <3>3 DEF MineMove
  <2> QED
    BY <2>2, <2>3
<1> QED
  BY <1>1, <1>2

\* The messages of CleanupTruthful.
TruthStep ==
    /\ uninstall \in {"asked", "waiting"} /\ uninstall' = "nothing" => disturbed \/ Mine = before
    /\ uninstall = "purged" /\ uninstall' = "package" =>
           disturbed \/ (Mine' = Gone /\ Caller \notin armed)

\* A cleanup's message follows from what it knows.
LEMMA CleanupSays ==
    ASSUME CleanupKnown, MineMove
    PROVE  TruthStep
<1>1. uninstall = "asked" => disturbed \/ Mine = before
  BY DEF CleanupKnown, Cleaning
<1>2. ASSUME uninstall = "purged", ~disturbed
      PROVE  Mine = Gone /\ Caller \notin armed
  <2>1. Mine = Gone /\ (Caller \in armed => "automount" \in half[Caller])
    BY <1>2 DEF CleanupKnown, Cleaning
  <2>2. half[Caller] = {}
    BY <2>1 DEF Mine, Gone
  <2> QED
    BY <2>1, <2>2
<1> QED
  BY <1>1, <1>2 DEF MineMove, TruthStep

\* What a silent script leaves behind only shrinks, for beside tells of whatever
\* appears from its first step on.
LEMMA QuietFrame ==
    ASSUME CoreType, QuietKnown, ScriptsMove, NEW done, Remember(done)
    PROVE  QuietKnown'
<1> SUFFICES ASSUME ~warned', ~beside'
             PROVE  /\ script'.step = "files" \/ package' # "installed" => armed' = {}
                    /\ script'.step \in Roots => \A u \in Users : half'[u] = {}
                    /\ script'.step \in {"lock", "ids"} =>
                           creds' = {} /\ ~TempThere' /\ "etc" \notin dirs'
                    /\ script'.step = "ids" => "lock" \notin dirs'
                    /\ package' = "purged" => Clean' /\ dirs' = {}
  BY DEF QuietKnown
<1>1. CASE ~Removing' \/ ~Removing
  BY <1>1 DEF Removing, ScriptsMove, Idle, Roots
<1>2. CASE Removing' /\ Removing
  <2>1. ~warned /\ ~beside /\ ~Added
    BY <1>2 DEF Remember, ScriptsMove
  <2>2. /\ \A u \in Users : half'[u] \subseteq half[u]
        /\ creds' \subseteq creds /\ (TempThere' => TempThere)
        /\ dirs' \subseteq dirs /\ armed' \subseteq armed
    BY <2>1 DEF Added
  <2>3. package' = package /\ (script' = script \/ script'.step \in {"idle", "stop"})
    BY DEF ScriptsMove
  <2>4. Clean => Clean'
    BY <2>2 DEF Clean
  <2> QED
    BY <2>1, <2>2, <2>3, <2>4 DEF QuietKnown, Roots
<1> QED
  BY <1>1, <1>2

\* prerm that did not warn has stopped every trigger; a package that is purged
\* later has none left.
LEMMA PrermQuiet ==
    ASSUME RemovalInv, TriggersKnown, QuietKnown, NEW purge \in BOOLEAN, Prerm(purge),
           NEW done, Remember(done)
    PROVE  QuietKnown'
<1> SUFFICES ASSUME ~warned', ~beside' PROVE QuietKnown'
  BY DEF QuietKnown
<1>1. CASE package = "installed"
  <2>1. PICK failed \in SUBSET (IF "io" \in Faults THEN armed ELSE {}) :
            /\ armed' = {u \in armed : "automount" \notin half[u]} \cup failed
            /\ warned' = (warned \/ (TRUE /\ failed # {}))
    BY <1>1 DEF Prerm, Disarm, Warn
  <2>2. armed' = {}
    BY <1>1, <2>1 DEF TriggersKnown
  <2>3. script'.step = "files" /\ package' = "installed"
    BY <1>1 DEF Prerm
  <2> QED
    BY <2>2, <2>3 DEF QuietKnown, Roots
<1>2. CASE package = "removed"
  <2>1. /\ package' = "removed" /\ script'.step = "stop"
        /\ UNCHANGED <<armed, warned>>
    BY <1>2 DEF Prerm
  <2>2. ~warned /\ ~beside
    BY <1>2, <2>1 DEF Remember, Removing
  <2> QED
    BY <1>2, <2>1, <2>2 DEF QuietKnown, Roots
<1> QED
  BY <1>1, <1>2 DEF Prerm

\* The program files go after prerm.
LEMMA DeleteFilesQuiet ==
    ASSUME RemovalInv, QuietKnown, DeleteFiles, NEW done, Remember(done)
    PROVE  QuietKnown'
<1>1. UNCHANGED <<warned, armed>> /\ script.step = "files" /\ package' = "removed"
  BY DEF DeleteFiles, ScriptAt
<1>2. script'.step \in {"stop", "idle"}
  BY DEF DeleteFiles, ScriptGoto, Idle, RemovalInv, CoreType
<1>3. ~warned' /\ ~beside' => ~warned /\ ~beside
  BY <1>1 DEF Remember, Removing, RemovalInv, PackageKnows
<1> QED
  BY <1>1, <1>2, <1>3 DEF QuietKnown, Roots

\* postrm's own stopping finds no trigger left.
LEMMA PostrmStopQuiet ==
    ASSUME RemovalInv, QuietKnown, PostrmStop, NEW done, Remember(done)
    PROVE  QuietKnown'
<1>1. UNCHANGED <<half, creds, temp, dirs, package, running>> /\ script.step = "stop"
  BY DEF PostrmStop, files, Elsewhere, ScriptAt
<1>2. script'.step = "units"
  BY DEF PostrmStop, ScriptGoto, RemovalInv, CoreType
<1>3. armed' \subseteq armed
  BY DEF PostrmStop, Disarm
<1>4. ~warned' /\ ~beside' => ~warned /\ ~beside
  BY DEF Remember, Removing, RemovalInv, PackageKnows, ScriptAt, PostrmStop, Disarm, Warn
<1>5. Clean' = Clean
  BY <1>1 DEF Clean, TempThere, At
<1> QED
  BY <1>1, <1>2, <1>3, <1>4, <1>5 DEF QuietKnown, Roots

\* postrm that did not warn has unlinked every unit.
LEMMA PostrmUnitsQuiet ==
    ASSUME RemovalInv, QuietKnown, PostrmUnits, NEW done, Remember(done)
    PROVE  QuietKnown'
<1>1. UNCHANGED <<creds, temp, dirs, armed, package, running>> /\ script.step = "units"
  BY DEF PostrmUnits, Elsewhere, ScriptAt
<1>2. script'.step = "etc"
  BY DEF PostrmUnits, ScriptGoto, RemovalInv, CoreType
<1>3. ~warned' /\ ~beside' => ~warned /\ ~beside
  BY DEF Remember, Removing, RemovalInv, PackageKnows, ScriptAt, PostrmUnits, Warn
<1>4. ~warned' => \A u \in Users : half'[u] = {}
  BY DEF PostrmUnits, Warn
<1>5. ~warned' /\ Clean => Clean'
  BY <1>1, <1>4 DEF Clean, TempThere, At
<1> QED
  BY <1>1, <1>2, <1>3, <1>4, <1>5 DEF QuietKnown, Roots

\* postrm that did not warn has removed every root: a credential directory with
\* an unfinished secret in it would have made rmdir fail.
LEMMA PostrmRootsQuiet ==
    ASSUME RemovalInv, QuietKnown, PostrmRoots, NEW done, Remember(done)
    PROVE  QuietKnown'
<1> SUFFICES ASSUME ~warned', ~beside'
             PROVE  QuietKnown'
  BY DEF QuietKnown
<1>1. UNCHANGED <<half, temp, armed, running>>
  BY DEF PostrmRoots, PostrmRoot, Elsewhere
<1>2. ~warned /\ ~beside
  BY DEF Remember, Removing, RemovalInv, PackageKnows, ScriptAt, PostrmRoots, PostrmRoot, RemoveStateDir, Warn
<1>3. /\ script.step \in Roots
      /\ \A u \in Users : half[u] = {}
      /\ package # "installed" /\ armed = {}
  BY <1>2 DEF PostrmRoots, PostrmRoot, ScriptAt, QuietKnown, RemovalInv, PackageKnows, Roots
<1>4. CASE PostrmRoot("etc", "lock")
  <2>1. package' = package /\ script'.step = "lock"
    BY <1>4 DEF PostrmRoot, ScriptGoto, RemovalInv, CoreType
  <2>2. ~("etc" \in dirs /\ TempThere)
    BY <1>4 DEF PostrmRoot, RemoveStateDir, Warn
  <2>3. ~TempThere
    BY <2>2 DEF RemovalInv, EtcHolds
  <2>4. creds' = {} /\ dirs' = dirs \ {"etc"}
    BY <1>4, <2>3 DEF PostrmRoot, RemoveStateDir, Warn
  <2>5. ~TempThere'
    BY <1>1, <2>3 DEF TempThere, At
  <2>6. Clean'
    BY <1>1, <1>3, <2>4, <2>5 DEF Clean
  <2> QED
    BY <1>1, <1>2, <1>3, <2>1, <2>4, <2>5, <2>6 DEF QuietKnown, PostrmRoot, ScriptAt, RemovalInv
<1>5. CASE PostrmRoot("lock", "ids")
  <2>1. package' = package /\ script'.step = "ids" /\ script.step = "lock"
    BY <1>5 DEF PostrmRoot, ScriptAt, ScriptGoto, RemovalInv, CoreType
  <2>2. creds = {} /\ ~TempThere /\ "etc" \notin dirs
    BY <1>2, <2>1 DEF QuietKnown
  <2>3. creds' = creds /\ dirs' = dirs \ {"lock"}
    BY <1>5 DEF PostrmRoot, RemoveStateDir, Warn
  <2>4. ~TempThere'
    BY <1>1, <2>2 DEF TempThere, At
  <2>5. Clean'
    BY <1>1, <1>3, <2>2, <2>3, <2>4 DEF Clean
  <2>6. package' # "purged" \/ dirs' = {}
    BY <1>2, <2>1, <2>3 DEF QuietKnown
  <2> QED
    BY <1>1, <1>3, <2>1, <2>2, <2>3, <2>4, <2>5, <2>6 DEF QuietKnown
<1>6. CASE PostrmRoot("ids", "last")
  <2>1. script' = Idle /\ script.step = "ids"
    BY <1>6 DEF PostrmRoot, ScriptAt
  <2>2. creds = {} /\ ~TempThere /\ "etc" \notin dirs /\ "lock" \notin dirs
    BY <1>2, <2>1 DEF QuietKnown
  <2>3. creds' = creds /\ dirs' = dirs \ {"ids"}
    BY <1>6 DEF PostrmRoot, RemoveStateDir, Warn
  <2>4. dirs' = {}
    BY <2>2, <2>3 DEF RemovalInv, CoreType, Roots
  <2>5. Clean'
    BY <1>1, <1>3, <2>2, <2>3 DEF Clean, TempThere, At
  <2> QED
    BY <1>1, <1>3, <2>1, <2>4, <2>5 DEF QuietKnown, Idle, Roots
<1> QED
  BY <1>4, <1>5, <1>6 DEF PostrmRoots

\* Each action is a move of the caller's state, and of the scripts' unless it is
\* theirs.
LEMMA ActionMoves ==
    ASSUME RemovalInv, AnswersKnown, TriggersKnown, Next
    PROVE  Moves /\ (ScriptsMove \/ Scripts \/ \E purge \in BOOLEAN : Prerm(purge))
<1>1. CASE \E c \in queue : BeginQueued(c) \/ Drop(c)
  BY <1>1, BeginQueuedMoves, DropMoves
<1>2. CASE CallDefine
  BY <1>2, CallDefineMoves
<1>3. CASE \E u \in Users \ {Caller} : BeginOther(u)
  BY <1>3, BeginOtherMoves
<1>4. CASE \E c \in HelperCall : LoseReply(c)
  BY <1>4, LoseReplyMoves
<1>5. CASE Define
  BY <1>5, DefineStartsMoves, DefineMountMoves, DefineAutomountMoves, DefineTempMoves,
     DefineCredMoves, DefineArmsMoves, DefineFailsMoves DEF Define
<1>13. CASE DefineRecord
  BY <1>13, DefineRecordMoves
<1>6. CASE Purge
  BY <1>6, PurgeBeginMoves, PurgeStopMoves, PurgeMountMoves, PurgeAutomountMoves,
     PurgeCredMoves, PurgeEtcMoves, PurgeIdsMoves,
     PurgeLockMoves, PurgeFailsMoves DEF Purge
<1>7. CASE BootPass
  BY <1>7, BootPassMoves
<1>8. CASE Uninstaller
  BY <1>8, UninstallMoves, AskPurgeMoves, RemoveConfigMoves, RemovePackageMoves DEF Uninstaller
<1>9. CASE \E purge \in BOOLEAN : AdminRemoves(purge)
  BY <1>9, PrermMoves DEF AdminRemoves
<1>10. CASE Scripts
  BY <1>10, DeleteFilesMoves, PostrmStopMoves, PostrmUnitsMoves, PostrmRootsMoves
     DEF Scripts
<1>11. CASE PackageGuard
  BY <1>11, GuardStartsMoves, GuardUnitsMoves, GuardRootsMoves DEF PackageGuard
<1>12. CASE Reboot
  BY <1>12, RebootMoves
<1> QED
  BY <1>1, <1>2, <1>3, <1>4, <1>5, <1>6, <1>7, <1>8, <1>9, <1>10, <1>11, <1>12, <1>13 DEF Next

\* The machine as installed: nobody waits, nothing is up, nothing was said.
LEMMA TruthInit == Init => TruthInv
BY PackageAssumption DEF Init, Idle, Gone, TruthInv, AnswersKnown, TriggersKnown, CleanupKnown, QuietKnown, Cleaning

\* Every step keeps all of it, and what it makes a cleanup say is so.
LEMMA TruthKeeps ==
    ASSUME RemovalInv, TruthInv, [Next]_vars
    PROVE  TruthInv' /\ [TruthStep]_vars
<1>1. CASE UNCHANGED vars
  <2>1. TruthInv'
    <3> USE <1>1 DEF vars, files, client, pkg, history
    <3>1. AnswersKnown'
      BY DEF TruthInv, AnswersKnown, Cleaning, WaitedFor
    <3>2. TriggersKnown'
      BY DEF TruthInv, TriggersKnown
    <3>3. CleanupKnown'
      BY DEF TruthInv, CleanupKnown, Cleaning, Mine, Gone
    <3>4. QuietKnown'
      BY DEF TruthInv, QuietKnown, TempThere, At, Clean
    <3> QED
      BY <3>1, <3>2, <3>3, <3>4 DEF TruthInv
  <2> QED
    BY <1>1, <2>1
<1>2. CASE Next
  <2>1. PICK done \in {{}, {Owner}} : Remember(done)
    BY <1>2 DEF Next
  <2>2. Moves /\ (ScriptsMove \/ Scripts \/ \E purge \in BOOLEAN : Prerm(purge))
    BY <1>2, ActionMoves DEF TruthInv
  <2>3. CleanupKnown' /\ TruthStep
    BY <2>1, <2>2, CleanupKeeps, CleanupSays DEF TruthInv, Moves, RemovalInv
  <2>4. QuietKnown'
    <3>1. CASE ScriptsMove
      BY <2>1, <3>1, QuietFrame DEF TruthInv, RemovalInv
    <3>2. CASE Scripts
      BY <2>1, <3>2, DeleteFilesQuiet, PostrmStopQuiet, PostrmUnitsQuiet,
         PostrmRootsQuiet DEF TruthInv, Scripts
    <3>3. CASE \E purge \in BOOLEAN : Prerm(purge)
      BY <2>1, <3>3, PrermQuiet DEF TruthInv
    <3> QED
      BY <2>2, <3>1, <3>2, <3>3
  <2> QED
    BY <2>2, <2>3, <2>4 DEF TruthInv, Moves
<1> QED
  BY <1>1, <1>2

-----------------------------------------------------------------------------
(* Theorems.                                                                 *)

\* The inductive invariant holds, and no step lets a cleanup take a purge for
\* confirmed that was not.
THEOREM Invariant == Spec => [](RemovalInv /\ HistoryInv) /\ [][PurgedStep]_vars
<1>1. Init => RemovalInv /\ HistoryInv
  BY InitRight
<1>2. (RemovalInv /\ HistoryInv) /\ [Next]_vars => (RemovalInv /\ HistoryInv)' /\ [PurgedStep]_vars
  BY StepKeeps
<1> QED
  BY <1>1, <1>2, PTL DEF Spec

\* Every variable keeps its type, whatever calls, scripts, guard and faults do.
THEOREM TypeCorrect == Spec => []TypeOK
<1>1. RemovalInv /\ HistoryInv => TypeOK
  BY DEF RemovalInv, CoreType, HistoryInv, HistoryType, TypeOK
<1> QED
  BY <1>1, Invariant, PTL

\* packageStateProbe's last look, through core/packagestate.h: when it answers
\* Empty, no share is there that was confirmed since the look at the units, for
\* the directory of the id records comes before the confirmation.  Units, the
\* credential directory and a call at work there are only if that call began
\* after the look at the lock's directory, which each makes before anything else.
THEOREM GuardRight == Spec => []GuardSound
<1>1. RemovalInv /\ HistoryInv => GuardSound
  BY DEF RemovalInv, EtcHolds, HistoryInv, GuardHistory, Nobody, GuardSound, StateAt, Clean
<1> QED
  BY <1>1, Invariant, PTL

\* A confirmed purge, the only thing that lets nasmount-uninstall go on to the
\* package manager, found nobody else's share, and none came meanwhile.
THEOREM OthersNotTaken == Spec => OthersKept
<1>1. PurgedStep => (uninstall = "waiting" /\ uninstall' = "purged" =>
                        \A u \in Users \ {Caller} : half'[u] = {})
  BY DEF PurgedStep
<1> QED
  BY <1>1, Invariant, PTL DEF OthersKept

\* Who waits for which call, what is known of triggers, and what a cleanup and a
\* silent purge may say, at every step; and no step makes a cleanup say more.
THEOREM Truthful == Spec => []TruthInv /\ [][TruthStep]_vars
<1>1. RemovalInv /\ TruthInv /\ [Next]_vars => TruthInv' /\ [TruthStep]_vars
  BY TruthKeeps
<1> QED
  BY <1>1, TruthInit, Invariant, PTL DEF Spec

\* nasmount-uninstall and nasmount-cleanup: "nothing was removed" is said only if
\* nothing was, and a confirmed purge has left the caller no unit, no secret and
\* no trigger, unless a call nobody waits for or a script came between.
THEOREM MessagesTrue == Spec => CleanupTruthful
<1>1. TruthStep => (/\ uninstall \in {"asked", "waiting"} /\ uninstall' = "nothing" => disturbed \/ Mine = before
                    /\ uninstall = "purged" /\ uninstall' = "package" =>
                           disturbed \/ (Mine' = Gone /\ Caller \notin armed))
  BY DEF TruthStep
<1> QED
  BY <1>1, Truthful, PTL DEF CleanupTruthful

\* The maintainer scripts: a purge that warned of nothing has left no unit, secret,
\* root or trigger, unless a helper or boot was at work beside it.
THEOREM SilentPurgeClean == Spec => []QuietPurge
<1>1. TruthInv => QuietPurge
  BY DEF TruthInv, QuietKnown, QuietPurge
<1> QED
  BY <1>1, Truthful, PTL
===============================================================================
