----------------------------- MODULE PackageRemoval -----------------------------
(* Taking nasmount off a machine: nasmount-uninstall and nasmount-cleanup run *)
(* by one user, the package's maintainer scripts run by root, and             *)
(* nasmount-package-guard, beside the helper's definesystem and purge.        *)
(* The helper does one call at a time under the root lock; the scripts and    *)
(* the guard take no lock.  A user has at most one share.  ShareLifecycle has *)
(* the helper's calls in detail: here a define is the order in which its      *)
(* files appear, and a trigger is up or not; of the id records only their     *)
(* directory is kept, and the user's own configuration is left out.  A marked *)
(* unit that does not parse is like another user's.  A helper that is killed  *)
(* is one that fails there.  The temporary file of a unit that was being      *)
(* written then is left out: none of these programs looks at it or removes it.*)
EXTENDS Naturals, FiniteSets

CONSTANTS
    Users,
    Caller,     \* who uninstalls
    Guests,     \* users whose share is a guest share: it has no credential
    None,
    MaxCalls,   \* bound on helper calls outstanding when a define is asked for
    Faults      \* "io" steps fail, "lost" replies are lost, "reboot"

ASSUME PackageAssumption ==
    /\ Caller \in Users /\ Guests \subseteq Users /\ MaxCalls \in Nat
    /\ None \notin Users /\ None \notin {"front", "cleanup"}

VARIABLES
    half,       \* each user's unit files
    creds,      \* users with a credential file
    temp,       \* a define that is over left a .nasmount-tmp-* beside those
    dirs,       \* the state roots that exist
    armed,      \* users whose trigger is up
    queue,      \* helper calls not begun
    running,    \* the helper call being executed
    userLock,   \* who holds the caller's user lock
    uninstall,  \* nasmount-uninstall with the cleanup it runs
    package,    \* what the package manager has done
    script,     \* the maintainer script being run
    warned,     \* a script has warned, in this removal
    guard,      \* the package guard
    before,     \* history: the caller's state when cleanup asked for the purge
    disturbed,  \* history: something else touched it since
    beside,     \* history: a helper or boot did something beside the scripts or after
    late,       \* history: a helper call began after the guard's look at the lock's root
    acked       \* history: shares confirmed since its look at the units, and still there

files == <<half, creds, temp, dirs>>
client == <<userLock, uninstall>>
pkg == <<package, script, warned, guard>>
history == <<before, disturbed, beside, late, acked>>
vars == <<files, armed, client, queue, running, pkg, history>>

Pair == {"mount", "automount"}
\* /etc/nasmount, /run/nasmount with the root lock, /run/nasmount-ids.
Roots == {"etc", "lock", "ids"}
HelperCall == [op : {"define", "purge"}, by : Users, awaited : BOOLEAN]
DefineSteps == {"begin", "mount", "automount", "temp", "cred", "arm", "record"}
PurgeSteps == {"begin", "stop", "rmMount", "rmAutomount", "rmCred"} \cup Roots
Running == [op : {"define", "purge"}, by : Users, awaited : BOOLEAN,
            step : DefineSteps \cup PurgeSteps]
\* It ends telling the user that nothing was removed (exit code 1, or 2 with the
\* first message), or otherwise: done, or with no such claim.
Ends == {"nothing", "over"}
UninstallSteps == {"asked", "waiting", "purged", "package", "removing"} \cup Ends
ScriptSteps == {"idle", "files", "stop", "units"} \cup Roots

Mine == <<half[Caller], Caller \in creds>>
Gone == <<{}, FALSE>>

TypeOK ==
    /\ half \in [Users -> SUBSET Pair]
    /\ creds \subseteq Users /\ temp \in BOOLEAN /\ armed \subseteq Users
    /\ dirs \subseteq Roots
    /\ queue \subseteq HelperCall /\ running \in Running \cup {None}
    /\ userLock \in {None, "front", "cleanup"}
    /\ uninstall \in UninstallSteps
    /\ package \in {"installed", "removed", "purged"}
    /\ script \in [step : ScriptSteps, purge : BOOLEAN]
    /\ warned \in BOOLEAN /\ disturbed \in BOOLEAN /\ beside \in BOOLEAN
    /\ guard \in {"idle", "units"} \cup Roots
    /\ before \in (SUBSET Pair) \X BOOLEAN
    /\ late \in BOOLEAN /\ acked \subseteq Users

Idle == [step |-> "idle", purge |-> FALSE]

Init ==
    /\ half = [u \in Users |-> {}]
    /\ creds = {} /\ temp = FALSE /\ dirs = {} /\ armed = {}
    /\ queue = {} /\ running = None
    /\ userLock = None
    /\ uninstall = "over" /\ package = "installed"
    /\ script = Idle /\ warned = FALSE
    /\ guard = "idle"
    /\ before = Gone /\ disturbed = FALSE /\ beside = FALSE
    /\ late = FALSE /\ acked = {}

At(op, s) == running # None /\ running.op = op /\ running.step = s

\* The file a define is about to rename included.
TempThere == temp \/ At("define", "cred")

\* No unit half and no secret is left, nor the temporary file of a secret.
Clean == (\A u \in Users : half[u] = {}) /\ creds = {} /\ ~TempThere

-----------------------------------------------------------------------------
(* What the caller's programs make of an answer.                            *)

\* Mutant of rejectedBeforeDispatch: the helper's own refusal counts.
rejectedBeforeDispatchWide(outcome) == outcome \in {"denied", "failed"}

rejectedBeforeDispatch(outcome) == outcome = "denied"

\* Mutant of CleanupStatus: a refusal is handed on as it came.
CleanupStatusRaw(outcome) == IF outcome = "ok" THEN "purged" ELSE outcome

CleanupStatus(outcome) ==
    IF rejectedBeforeDispatch(outcome) THEN "nothing"
    ELSE IF outcome = "ok" THEN "purged" ELSE "over"

\* A front end is done with it; a cleanup goes on only if the purge was confirmed.
Told(c, outcome) ==
    IF c.by # Caller \/ ~c.awaited
    THEN UNCHANGED client
    ELSE /\ uninstall' = IF c.op = "define" THEN uninstall ELSE CleanupStatus(outcome)
         /\ userLock' = IF c.op = "purge" /\ outcome = "ok" THEN userLock ELSE None

\* The caller of c waits no longer; the call itself may still run.
LoseReply(c) ==
    /\ "lost" \in Faults
    /\ c.by = Caller /\ c.awaited
    /\ Told(c, "lost")
    /\ \/ c \in queue /\ queue' = (queue \ {c}) \cup {[c EXCEPT !.awaited = FALSE]}
                      /\ UNCHANGED running
       \/ /\ running # None
          /\ c = [op |-> running.op, by |-> running.by, awaited |-> running.awaited]
          /\ running' = [running EXCEPT !.awaited = FALSE]
          /\ UNCHANGED queue
    /\ UNCHANGED <<files, armed, pkg>>

-----------------------------------------------------------------------------
(* The helper and boot.                                                     *)

Outstanding == Cardinality(queue) + (IF running = None THEN 0 ELSE 1)

DefineCall(u) == [op |-> "define", by |-> u, awaited |-> TRUE]

\* The caller's front end asks for a share, holding the user lock meanwhile.
CallDefine ==
    /\ package = "installed" /\ Outstanding < MaxCalls
    /\ userLock = None /\ userLock' = "front"
    /\ queue' = queue \cup {DefineCall(Caller)}
    /\ UNCHANGED <<files, armed, uninstall, running, pkg>>

\* No helper ever takes the call up: its executable is gone.
Drop(c) ==
    /\ package # "installed"
    /\ queue' = queue \ {c}
    /\ Told(c, "lost")
    /\ UNCHANGED <<files, armed, running, pkg>>

Owner == running.by
Goto(s) == running' = [running EXCEPT !.step = s] /\ UNCHANGED client
Answer(outcome) == running' = None /\ Told(running, outcome)

\* The lock's directory is made first.
Begin(c) ==
    /\ running = None
    /\ running' = [op |-> c.op, by |-> c.by, awaited |-> c.awaited, step |-> "begin"]
    /\ dirs' = dirs \cup {"lock"}
    /\ UNCHANGED <<half, creds, temp, armed, client, pkg>>

BeginQueued(c) == c \in queue /\ queue' = queue \ {c} /\ Begin(c)

\* When others ask is not told apart from when the helper begins.  One that is
\* up goes on serving them while the package is taken away.
BeginOther(u) ==
    /\ package = "installed" \/ script # Idle
    /\ Begin(DefineCall(u))
    /\ UNCHANGED queue

WriteUnit(s, h, next) ==
    /\ At("define", s)
    /\ half' = [half EXCEPT ![Owner] = @ \cup {h}]
    /\ Goto(next)
    /\ UNCHANGED <<creds, temp, dirs, armed, queue, pkg>>

\* The search for a free id makes the credential directory, a guest's too.
DefineStarts ==
    /\ At("define", "begin") /\ half[Owner] = {}
    /\ dirs' = dirs \cup {"etc"}
    /\ Goto("mount")
    /\ UNCHANGED <<half, creds, temp, armed, queue, pkg>>

DefineMount == WriteUnit("mount", "mount", "automount")

DefineAutomount ==
    WriteUnit("automount", "automount", IF Owner \in Guests THEN "arm" ELSE "temp")

DefineTemp ==
    /\ At("define", "temp")
    /\ dirs' = dirs \cup {"etc"}
    /\ Goto("cred")
    /\ UNCHANGED <<half, creds, temp, armed, queue, pkg>>

DefineCred ==
    /\ At("define", "cred")
    /\ creds' = creds \cup {Owner}
    /\ Goto("arm")
    /\ UNCHANGED <<half, temp, dirs, armed, queue, pkg>>

\* The look at the credential, or that a guest has none, opens its directory.
DefineArms ==
    /\ At("define", "arm") /\ half[Owner] = Pair
    /\ armed' = armed \cup {Owner}
    /\ dirs' = dirs \cup {"etc"}
    /\ Goto("record")
    /\ UNCHANGED <<half, creds, temp, queue, pkg>>

\* The directory of the id records comes with the record, once the trigger is up.
DefineRecord ==
    /\ At("define", "record")
    /\ dirs' = dirs \cup {"ids"}
    /\ Answer("ok")
    /\ UNCHANGED <<half, creds, temp, armed, queue, pkg>>

\* It refuses, or is killed, or leaves all there if it cannot stop its trigger, or
\* cleans up: the credential first, then either unit, then the record.
DefineFails ==
    /\ running # None /\ running.op = "define"
    /\ running.step = "begin" \/ "io" \in Faults \/ (running.step = "arm" /\ half[Owner] # Pair)
    /\ temp' \in {temp, TempThere}
    /\ \E made \in SUBSET ((IF running.step = "begin" THEN {"etc"} ELSE {"etc", "ids"}) \ dirs) :
           dirs' = dirs \cup made
    /\ \/ UNCHANGED <<half, creds, armed>>
       \/ /\ running.step # "begin"
          /\ armed' = IF running.step = "record" THEN armed \ {Owner} ELSE armed
          /\ \/ UNCHANGED <<half, creds>>
             \/ /\ creds' = creds \ {Owner}
                /\ \E left \in SUBSET half[Owner] : half' = [half EXCEPT ![Owner] = left]
    /\ Answer("failed")
    /\ UNCHANGED <<queue, pkg>>

\* Mutant of PurgeBegin: whose the definitions are is not looked at.
PurgeBeginAny ==
    /\ At("purge", "begin")
    /\ Goto(IF half[Caller] = {} THEN "etc" ELSE "stop")
    /\ UNCHANGED <<half, creds, temp, dirs, armed, queue, pkg>>

\* Another user's unit refuses the whole purge; one that does not parse is like
\* one of theirs.
PurgeBegin ==
    /\ At("purge", "begin")
    /\ IF \E u \in Users \ {Caller} : half[u] # {}
         THEN Answer("failed")
         ELSE Goto(IF half[Caller] = {} THEN "etc" ELSE "stop")
    /\ UNCHANGED <<half, creds, temp, dirs, armed, queue, pkg>>

PurgeStop ==
    /\ At("purge", "stop")
    /\ armed' = armed \ {Caller}
    /\ Goto("rmMount")
    /\ UNCHANGED <<half, creds, temp, dirs, queue, pkg>>

PurgeUnit(s, h, next) ==
    /\ At("purge", s)
    /\ half' = [half EXCEPT ![Caller] = @ \ {h}]
    /\ Goto(next)
    /\ UNCHANGED <<creds, temp, dirs, armed, queue, pkg>>

PurgeMount == PurgeUnit("rmMount", "mount", "rmAutomount")
PurgeAutomount == PurgeUnit("rmAutomount", "automount", "rmCred")

\* Removing the id record and the credential makes their directories if need be.
PurgeCred ==
    /\ At("purge", "rmCred")
    /\ creds' = creds \ {Caller}
    /\ dirs' = dirs \cup {"ids", "etc"}
    /\ Goto("etc")
    /\ UNCHANGED <<half, temp, armed, queue, pkg>>

\* durableRemoveTree of each root; the lock's own goes last.
PurgeEtc ==
    /\ At("purge", "etc")
    /\ creds' = {} /\ temp' = FALSE /\ dirs' = dirs \ {"etc"}
    /\ Goto("ids")
    /\ UNCHANGED <<half, armed, queue, pkg>>

PurgeIds ==
    /\ At("purge", "ids")
    /\ dirs' = dirs \ {"ids"}
    /\ Goto("lock")
    /\ UNCHANGED <<half, creds, temp, armed, queue, pkg>>

PurgeLock ==
    /\ At("purge", "lock")
    /\ dirs' = dirs \ {"lock"}
    /\ Answer("ok")
    /\ UNCHANGED <<half, creds, temp, armed, queue, pkg>>

PurgeFails ==
    /\ running # None /\ running.op = "purge"
    /\ running.step = "stop" \/ "io" \in Faults
    /\ \E made \in SUBSET ((IF running.step = "rmCred" THEN {"ids", "etc"} ELSE {}) \ dirs) :
           dirs' = dirs \cup made
    /\ Answer("failed")
    /\ UNCHANGED <<half, creds, temp, armed, queue, pkg>>

\* nasmount-boot arms what it can, under the root lock: for each share it opens
\* the credential directory and, once the trigger is up, that of the id records.
BootPass ==
    /\ package = "installed" /\ running = None
    /\ \E some \in SUBSET {u \in Users \ armed : half[u] = Pair} :
          /\ armed' = armed \cup some
          /\ \E made \in SUBSET ({"etc", "ids"} \ dirs) :
                 /\ made # {} => \E u \in Users : half[u] = Pair
                 /\ dirs' = dirs \cup {"lock"} \cup made
    /\ UNCHANGED <<half, creds, temp, client, queue, running, pkg>>

-----------------------------------------------------------------------------
(* nasmount-uninstall and nasmount-cleanup.                                 *)

Exit(code) == uninstall' = code /\ userLock' = None

\* Preflight, the manifest, then the user lock: a failure before the lock is
\* exit code 1 of the cleanup, which the script reports as 2.
Uninstall ==
    /\ uninstall \in Ends
    /\ package = "installed"
    /\ \/ uninstall' \in {"nothing", "over"} /\ UNCHANGED userLock
       \/ /\ userLock = None
          /\ userLock' = "cleanup"
          /\ uninstall' = "asked"
    /\ UNCHANGED <<files, armed, queue, running, pkg>>

\* KAuth refuses, or hands the call to the helper, or its connection is lost.
AskPurge ==
    /\ uninstall = "asked"
    /\ \/ Exit(CleanupStatus("denied")) /\ UNCHANGED queue
       \/ "lost" \in Faults /\ Exit(CleanupStatus("lost")) /\ UNCHANGED queue
       \/ /\ package = "installed" /\ Outstanding <= MaxCalls
          /\ queue' = queue \cup {[op |-> "purge", by |-> Caller, awaited |-> TRUE]}
          /\ uninstall' = "waiting"
          /\ UNCHANGED userLock
    /\ UNCHANGED <<files, armed, running, pkg>>

\* purgeApplicationData; the cleanup's lock goes with it.
RemoveConfig ==
    /\ uninstall = "purged"
    /\ \/ uninstall' = "package"
       \/ "io" \in Faults /\ uninstall' = "over"
    /\ userLock' = None
    /\ UNCHANGED <<files, armed, queue, running, pkg>>

-----------------------------------------------------------------------------
(* The maintainer scripts.  The RPM's two do the same as the DEB's.          *)

ScriptAt(s) == script.step = s
ScriptGoto(s) == script' = [script EXCEPT !.step = s]
Warn(w) == warned' = (warned \/ w)
Elsewhere == <<userLock, queue, running, guard>>

\* Automounts first; a trigger that cannot be stopped stays up.
Disarm(warns) ==
    \E failed \in SUBSET (IF "io" \in Faults THEN armed ELSE {}) :
        /\ armed' = {u \in armed : "automount" \notin half[u]} \cup failed
        /\ Warn(warns /\ failed # {})

\* prerm comes first, or a package that was removed is purged.  prerm touches
\* nothing a guard looks at, which is followed no further.
Prerm(purge) ==
    /\ script = Idle /\ guard' = "idle"
    /\ \/ /\ package = "installed"
          /\ Disarm(TRUE)
          /\ script' = [step |-> "files", purge |-> purge]
       \/ /\ package = "removed" /\ purge
          /\ script' = [step |-> "stop", purge |-> TRUE]
          /\ UNCHANGED <<armed, warned>>
    /\ UNCHANGED <<files, userLock, queue, running, package>>

\* apt-get purge or dnf remove.
RemovePackage ==
    /\ uninstall = "package"
    /\ \/ uninstall' = "over"
          /\ UNCHANGED <<files, armed, userLock, queue, running, pkg>>
       \/ uninstall' = "removing" /\ Prerm(TRUE)

\* An administrator removes the package, or removes and purges it.
AdminRemoves(purge) == Prerm(purge) /\ UNCHANGED uninstall

\* The program files go; a purge goes on to postrm.
DeleteFiles ==
    /\ ScriptAt("files")
    /\ package' = "removed"
    /\ IF script.purge THEN ScriptGoto("stop") ELSE script' = Idle
    /\ UNCHANGED <<files, armed, client, queue, running, warned, guard>>

\* Here a failure to stop a trigger is not reported.
PostrmStop ==
    /\ ScriptAt("stop")
    /\ Disarm(FALSE)
    /\ ScriptGoto("units")
    /\ UNCHANGED <<files, package, uninstall, Elsewhere>>

\* Every marked unit, whoever owns it, well formed or not.
PostrmUnits ==
    /\ ScriptAt("units")
    /\ \E stuck \in SUBSET (IF "io" \in Faults THEN {u \in Users : half[u] # {}} ELSE {}) :
        /\ half' = [u \in Users |-> IF u \in stuck THEN half[u] ELSE {}]
        /\ Warn(\E u \in stuck : half[u] # {})
    /\ ScriptGoto("etc")
    /\ UNCHANGED <<creds, temp, dirs, armed, package, uninstall, Elsewhere>>

\* Mutant of RemoveStateDir: rmdir is not looked at.
RemoveStateDirBlind(d) ==
    \/ dirs' = dirs \ (IF d = "etc" /\ TempThere THEN {} ELSE {d})
       /\ creds' = (IF d = "etc" THEN {} ELSE creds) /\ UNCHANGED warned
    \/ "io" \in Faults /\ UNCHANGED <<dirs, creds>> /\ Warn(TRUE)

\* nasmount_remove_state_dir: the glob passes over names with a leading dot,
\* and rmdir fails when there are any.
RemoveStateDir(d) ==
    LET keeps == d = "etc" /\ TempThere IN
    \/ /\ dirs' = IF keeps THEN dirs ELSE dirs \ {d}
       /\ creds' = (IF d = "etc" THEN {} ELSE creds)
       /\ Warn(d \in dirs /\ keeps)
    \/ "io" \in Faults /\ d \in dirs /\ UNCHANGED <<dirs, creds>> /\ Warn(TRUE)

PostrmRoot(d, next) ==
    /\ ScriptAt(d)
    /\ RemoveStateDir(d)
    /\ IF next = "last"
         THEN /\ script' = Idle /\ package' = "purged"
              /\ uninstall' = IF uninstall = "removing" THEN "over" ELSE uninstall
         ELSE ScriptGoto(next) /\ UNCHANGED <<package, uninstall>>
    /\ UNCHANGED <<half, temp, armed, Elsewhere>>

PostrmRoots == PostrmRoot("etc", "lock") \/ PostrmRoot("lock", "ids") \/ PostrmRoot("ids", "last")

-----------------------------------------------------------------------------
(* nasmount-package-guard.                                                  *)

GuardStarts ==
    /\ package = "installed" /\ script = Idle /\ guard = "idle"
    /\ guard' = "units"
    /\ UNCHANGED <<files, armed, client, queue, running, package, script, warned>>

GuardUnits ==
    /\ guard = "units"
    /\ guard' = IF \E u \in Users : half[u] # {} THEN "idle" ELSE "etc"
    /\ UNCHANGED <<files, armed, client, queue, running, package, script, warned>>

\* Mutant of StateAt: the lock's directory is not counted.
StateAtNoLock(d) == d # "lock" /\ d \in dirs

\* Mutant of StateAt: nor is the id records' directory.
StateAtNoIds(d) == d # "ids" /\ d \in dirs

StateAt(d) == d \in dirs

GuardRoot(d, next) ==
    /\ guard = d
    /\ guard' = IF StateAt(d) THEN "idle" ELSE next
    /\ UNCHANGED <<files, armed, client, queue, running, package, script, warned>>

GuardRoots == GuardRoot("etc", "lock") \/ GuardRoot("lock", "ids") \/ GuardRoot("ids", "idle")

-----------------------------------------------------------------------------
(* The machine restarts.                                                    *)

Reboot ==
    /\ "reboot" \in Faults
    /\ queue' = {} /\ running' = None
    /\ dirs' = dirs \ {"lock", "ids"} /\ armed' = {}
    /\ userLock' = None
    /\ uninstall' = "over"
    /\ script' = Idle /\ guard' = "idle"
    /\ temp' = TempThere
    /\ warned' = (warned /\ package # "installed")
    /\ UNCHANGED <<half, creds, package>>

Define ==
    \/ DefineStarts \/ DefineMount \/ DefineAutomount \/ DefineTemp \/ DefineCred
    \/ DefineArms \/ DefineFails
Purge ==
    \/ PurgeBegin \/ PurgeStop \/ PurgeMount \/ PurgeAutomount \/ PurgeCred
    \/ PurgeEtc \/ PurgeIds \/ PurgeLock \/ PurgeFails
Uninstaller == Uninstall \/ AskPurge \/ RemoveConfig \/ RemovePackage
PackageGuard == GuardStarts \/ GuardUnits \/ GuardRoots
Scripts == DeleteFiles \/ PostrmStop \/ PostrmUnits \/ PostrmRoots

Cleaning == uninstall \in {"asked", "waiting", "purged"}
Removing == script # Idle \/ package # "installed"
Abandoned == running # None /\ running.by = Caller /\ ~running.awaited
Added ==
    \/ \E u \in Users : ~(half'[u] \subseteq half[u])
    \/ ~(creds' \subseteq creds /\ (TempThere' => TempThere) /\ dirs' \subseteq dirs /\ armed' \subseteq armed)

\* The history variables; each is reset while it is of no interest.  In this step
\* the shares in done were confirmed.
Remember(done) ==
    /\ disturbed' = (/\ Cleaning /\ Cleaning'
                     /\ disturbed \/ (Mine' # Mine /\ (Abandoned \/ script # Idle)))
    /\ before' = IF ~Cleaning' \/ disturbed' THEN Gone ELSE IF Cleaning THEN before ELSE Mine
    /\ beside' = (/\ ~warned' /\ Removing'
                  /\ beside \/ (Added /\ Removing))
    /\ late' = (guard' = "ids" /\ (late \/ (running = None /\ running' # None)))
    /\ acked' = IF guard' \in Roots THEN {u \in acked \cup done : half'[u] # {}} ELSE {}

Next ==
    \/ CallDefine /\ Remember({})
    \/ (\E c \in queue : BeginQueued(c) \/ Drop(c)) /\ Remember({})
    \/ (\E u \in Users \ {Caller} : BeginOther(u)) /\ Remember({})
    \/ (\E c \in HelperCall : LoseReply(c)) /\ Remember({})
    \/ Define /\ Remember({})
    \/ DefineRecord /\ Remember({Owner})
    \/ Purge /\ Remember({})
    \/ BootPass /\ Remember({})
    \/ Uninstaller /\ Remember({})
    \/ (\E purge \in BOOLEAN : AdminRemoves(purge)) /\ Remember({})
    \/ Scripts /\ Remember({})
    \/ PackageGuard /\ Remember({})
    \/ Reboot /\ Remember({})

Spec == Init /\ [][Next]_vars

-----------------------------------------------------------------------------
(* Properties.                                                              *)

\* cleanup/main.cpp's exit codes and nasmount-uninstall's: when the user is told
\* that nothing was removed, nothing was, and when the cleanup confirms, the
\* caller has no unit, secret or trigger left -- unless an older call of the
\* caller's whose answer was lost, or the package's scripts, came between.
CleanupTruthful ==
    [][/\ uninstall \in {"asked", "waiting"} /\ uninstall' = "nothing" => disturbed \/ Mine = before
       /\ uninstall = "purged" /\ uninstall' = "package" =>
              disturbed \/ (Mine' = Gone /\ Caller \notin armed)]_vars

\* postrm: "A failed unlink must not be reported as a successful purge": scripts
\* that warned of nothing have left no unit, secret, root or trigger, whatever
\* state they found, unless a helper or boot was at work beside them.
QuietPurge ==
    package = "purged" /\ ~warned /\ ~beside => Clean /\ dirs = {} /\ armed = {}

\* core/packagestate.h: "removal is permitted only when the host is provably
\* empty".  The guard answers Empty after looks at the units and three roots, one
\* after another and without the lock.  When it does, no share is there that was
\* confirmed since it began; and there is nothing at all, and no helper call at
\* work, unless one began after its look at the lock's root, before its last.
GuardSound ==
    guard = "ids" /\ ~StateAt("ids") =>
        acked = {} /\ (late \/ (Clean /\ running = None))

\* A user's uninstall gets as far as the package manager, which takes every
\* share with it, only if nobody else had one when the purge was confirmed.
OthersKept ==
    [][uninstall = "waiting" /\ uninstall' = "purged" =>
          \A u \in Users \ {Caller} : half'[u] = {}]_vars
=============================================================================
