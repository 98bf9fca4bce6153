# A TLA+ model of nasmount

nasmount adds SMB shares to a KDE desktop as systemd `.mount`/`.automount`
pairs.  A user's front ends (a settings module and a dialog) ask a KAuth helper
running as root to define and undefine shares; a boot program arms what is
defined; everything that outlives a process is a file, a unit of PID 1 or a
kernel mount.  The hard part is not any one function but what is left when one
of a dozen steps fails, is cut short, or runs beside somebody else's.  That is
what this project models, checks with TLC and proves with TLAPS.

Source paths below are relative to the repository; its code is in `src/`.

## Inventory

| Component | State | Operations | Talks to |
|---|---|---|---|
| Helper (`helper/`, `root/operations`) | none of its own; unit files, credentials, directories | `definesystem`, `undefinesystem`, `purge`, `inventory` | KAuth, everything below |
| Arming (`root/arming`) | automount-id records | `armShare`, `safeStop`, compensation | systemctl, Verify |
| Boot pass (`boot/main`) | none | enumerate, arm each pair | root lock, arming |
| Root lock (`root/rootlock`) | `/run/nasmount/helper.lock` | acquire, release | flock, purge unlinks it |
| Verify (`core/verify`) | none, reads | `inspectDefinition`, `enumerateManagedUnits`, `inspectRuntime` | unit files, mountinfo, statx |
| Credentials, id records (`root/credentialstore`, `root/runtimefiles`) | `/etc/nasmount/<id>.cred`, `/run/nasmount-ids/<unit>` | write, remove, read | durablefs |
| Durable files (`root/durablefs`) | none | `durableReplace`, `durableUnlink`, `durableRemoveTree` | the file system |
| systemctl (`root/systemdops`) | none | start, stop, daemon-reload with a timeout | PID 1 |
| Actions (`session/mountactions`) | one worker per request | add, delete, remove orphan, remove record | user lock, helper, Store |
| Store (`session/store`) | `nasmountrc`, one record per share id | commit, remove, snapshots | KConfig |
| User lock (`session/userlock`) | a lock file in the runtime directory | acquire, release | flock |
| Helper calls (`session/helperinvoke`) | none | call, classify the outcome | KAuth over D-Bus |
| List (`session/mountmodel`) | the rows shown | `computeRefresh`, `classifyRow`, `rowRemoval` | Verify, Store, inventory |
| Add form (`kcm/ui/ShareForm.qml`, `ShareAddDialog.qml`) | the fields, what was imported, what is on display | edit, pick, submit, open, close | Actions, the two below |
| Credential lookup (`session/credentiallookup`) | one child process per lookup, its deadline | start, answer, cancel, kill | the form |
| Mount point check (`session/mountactions`, `mountpointcheck`) | the check running, the latest waiting | ask, answer | the form, a worker thread |
| Package removal (`packaging/`, `cleanup`, `packageguard`, `core/packagestate`) | the package, all of the above | uninstall, cleanup, maintainer scripts, guard | helper's purge, dpkg or rpm |

What is hard, and what makes each part correct:

* *Partial failure.* `define` makes up to five durable changes, then reloads,
  starts and records; each may fail with or without having taken effect.  A
  secret must never be left where no definition names it, and a running trigger
  never without its files.
* *Crashes and reboots* between any two of those steps.  There is no journal:
  recovery is whatever boot, undefine and purge make of the files they find.
* *Two privileged programs*, helper and boot, kept apart by one advisory lock,
  which one of them unlinks.
* *Users and administrators* act between steps: the share is mounted by walking
  into it, expires when idle, and units can be started and stopped by hand.
* *Lost replies.*  The front end may not know what the helper did.  A record may
  go only when the definition is known to be gone, and a list must show what the
  two disagree about and offer the removal that fits.
* *Unlocked reads.*  A refresh reads unit files, records and the inventory one
  after another while others write; so does the package guard, and the
  maintainer scripts even write without the lock.
* *Power loss.*  What a system call did and what the disk has differ until an
  fsync, and a retry cannot always see what its predecessor left unflushed.
* *Late answers.*  A stored login, or what is on disk at a path, arrives after
  the form has moved on.

`PROJECT.json` lists the hazards line by line with the properties that cover
each.

## Modules

| Module | Models | Extends |
|---|---|---|
| `Verify` | `core/verify` and the two prechecks of `root/arming`: pure verdicts on unit halves, enumeration, runtime snapshots | |
| `ShareLifecycle` | the helper's three changing calls and the boot pass, step by step | `Verify` |
| `RootLock` | the lock down to directory, file, inode and descriptor | |
| `DurableFs` | `root/durablefs` down to the system call, with power loss | |
| `DurableStore` | what it promises: an abstract store of whole values | |
| `PackageRemoval` | the uninstaller, the cleanup, the maintainer scripts and the guard, beside helper and boot | |
| `AddForm` | the form with its credential lookups and mount point checks | |
| `MountModel` | `classifyRow` and `rowRemoval`, pure | `Verify` |
| `Session` | front ends, Store, user lock, helper calls, refreshes | `MountModel` |
| `MC...` | instances for TLC | the module each is named after |
| `ShareLifecycleProofs`, `RootLockProofs`, `SessionProofs`, `DurableFsProofs`, `AddFormProofs`, `PackageRemovalProofs` | theorems | the module each is named after |
| `ShareFilesProofs`, `ShareTriggersProofs` | theorems: what calls know of the files they work on; what they know of triggers, and their answers | `ShareLifecycleProofs`, `ShareFilesProofs` |

### Verify

A unit file is `None`, a marker (owner, id, guest or credentials), `Unmarked`
(no marker: not ours) or `Altered` (claims to be ours and fails validation).
`inspectDefinition` combines the verdicts on two halves into `None`, `Pair`,
`Partial`, `Tampered` or `NotOurs`; `enumerateManagedUnits` demotes units that
share an id.  A runtime snapshot has the four fields of `RuntimeSnapshot`.
Parsing of unit text is abstracted to the marker that comes out of it.

### ShareLifecycle

A step is the largest piece of an operation with one visible effect: one file
written or unlinked, one systemctl command, one inspection.  `pc[p]` is where a
process is, `task[p]` its request, `local[p]` the variables the code carries
along (`*MayExist` flags, `startedId`, `definitionCleanupSafe`, the enumerated
units).  An id that statx reports is that of a trigger, of what is mounted on it,
or, where nothing is mounted, of the file system the directory is in (`Enclosing`).
The disk survives a reboot; `idRec` (in `/run`), `loaded`, `autofs` and
`live` (PID 1 and the kernel) do not.  `origin` says who started a trigger and
is a history variable; so is `purgeOpen`.  `Faults` selects the environment:
failing steps, kills, reboots, users, an administrator, and start jobs that
outlive their systemctl.

The module takes the root lock as given (`holder`); `RootLock` says when that is
justified: until a purge unlinks the lock file (see *Findings*).

### RootLock

Each acquisition makes `/run/nasmount`, opens it, creates or opens `helper.lock`
in it and flocks the inode.  `purge` unlinks the file and the directory while
holding it.  Crashes close descriptors; a reboot empties `/run`.

### DurableFs and DurableStore

`DurableFs` has one directory, `/etc/nasmount` under `/etc`, the files in it and
one call at a time (its callers hold the root lock).  `file` and `dir` are what
a process sees; `kept` and `dirKept` are the sets of things power loss may leave:
an entry keeps its old choices until its directory is fsynced, data may be torn
until the file is, and the directory itself may vanish until its parent is.
Every step may fail (`"io"`), the caller may die at it (`"kill"`), and power may
fail at any time (`"power"`).  A temporary file takes a name no file has or could
come back under, which is what 64 random bits and `O_EXCL` give.  `lapse` is a
history variable: which kinds of work an earlier call was stopped from flushing.

`DurableStore` knows neither files nor fsync: a call gives one value to some
names, each at once and as a whole; success is for good, failure leaves what was
applied.  `ImplementsStore` instantiates it with `value <- Shown`,
`floor <- Floors`, `scope <- Scope`, `goal <- Goal`, `cut <- (lapse # {})`.  It
is what `ShareLifecycle` and `PackageRemoval` assume of a write: the whole file
or none, whichever step failed.

### PackageRemoval

The helper's calls are reduced to the order in which their files appear and
disappear (`ShareLifecycle` has them in detail), for any number of users with at
most one share each.  `queue` and `running` are its calls; the maintainer scripts
(`script`) and the guard go one step at a time beside it, under no lock.
`uninstall` follows `nasmount-uninstall` and the `nasmount-cleanup` it runs from
the user lock to the package manager, and remembers which of two things it ended
telling the user: that nothing was removed, or anything else.  The three state
roots are apart, as the guard, the purge and the scripts look at them: `etc`
(`/etc/nasmount`), made by every define at its start; `lock` (`/run/nasmount`),
made by every call as it takes the root lock; and `ids` (`/run/nasmount-ids`), made
when an id is recorded, which is a define's last step.  `before`, `disturbed`,
`beside`, `late` and `acked` are history variables; each is reset while no property
needs it.  prerm's work is the step that starts a removal; it touches nothing the
guard looks at, so a guard is followed only up to it.  Debian's two scripts are
modelled; the RPM's `%preun` and `%postun` do the same in the same order.

Left out: undefine; the id records themselves; and the temporary file of a unit
that was being written when the helper was killed.  That one stays in
`/etc/systemd/system`: purge, guard and scripts look for `*.mount` and
`*.automount` only, so "no unit, secret or root is left" says nothing of it.

### AddForm

The form as the settings module hosts it.  GUI handlers are atomic and run one at
a time; children (`child`) and the worker (`checking`, `pending`) run beside it.
An address is what it parses to (a share, whether it goes on below it, a user in
it); a stored login is where it is for and whose.  `withdrawImportedCredential`,
`fillUsernameFromAddress` and `applyCredentialSuggestion` are functions of the
form, in the order the QML signal handlers run them: assigning the Share field
withdraws first, then fills the Username.  `asked` (the request whose answer is
wanted) and `due` (a check of this text was asked for and the disk not looked at
since) are history variables.

The Domain field moves with the Username and is left out; each share is on a
server of its own; what `Children` bounds is processes not yet reaped, so that a
pick waits when both are still dying.

### MountModel and Session

`Session` is one user's front ends: lists (the settings module) and dialogs.  A
request goes `lock` → `wait` (for the helper) → `store` → done, under the user
lock; a refresh goes unit scan → Store → inventory → published, under no lock.
The helper is reduced to what its calls do to the two unit files, in the order
`ShareLifecycle` has them, and keeps running when its caller is gone.
`overlapped` is a history variable: the lists whose current refresh had a file
or record change under it.

What is simplified there, and why it does not matter to the properties: a
removal's confirmation and the wait for the lock are one step, since both only
hold a copy of the row's arguments; the end of a worker, `finished()`, the
refresh it starts and the lock's release are one step; one definition is read in
one step, so that a refresh interleaves between definitions' sources but not
inside `inspectDefinition`; an edit of `nasmountrc` changes the username or loses the
mount point or the address, and never moves the mount point; share ids, 128 random bits each (`generateUniqueShareId`), are never
reused, which makes the generation conflict of `commitShare` unreachable; a failed
KConfig sync that a later reparse would write after all is not modelled; rows of
foreign mounts, which offer no removal, labels and boot health are left out.

## Runs

Bounds are the constants of each `.cfg`; no run uses a state constraint.

| Run | Instance | Shows |
|---|---|---|
| `lifecycle` | 1 unit that may hold foreign or altered files, 2 users, failures, kills, reboots, users' accesses, an administrator | `TriggerInv`, `SecretIndexed`, `TriggerBacked`, the three acknowledgements, `OwnerRemoves`, `UnitFilesRespected` |
| `fleet` | 2 units, failures | `IdsUnique`, `BootArmsOrReports`, `UndefineAck`, `PurgeAck` over loops of several shares |
| `progress` | 1 unit, failures and late start jobs, fairness | `CallsReturn` |
| `root_lock` | helper and boot, 5 inodes, fairness | `LockInv`, `ExclusiveUntilPurge`, `AcquireEnds` |
| `durable` | 2 names, 2 contents, 2 temporary names, failures, kills, power loss | `NeverTorn`, `AckDurable`, `FsInv`, and that it implements `DurableStore` |
| `session` | a list and a dialog, 2 ids, 1 unit, 2 calls outstanding, lost replies, kills | `ViewFaithful`, `DeleteKeepsRecord` |
| `session_faults` | the same with 1 id, records damaged and edited, Store writes failing, the runtime gate open or shut, fairness | `OffersWhatHelperAccepts`, `ViewFaithful`, `RequestsFinish` |
| `package` | the caller, another user with a guest share, failures, lost replies, reboots | `CleanupTruthful`, `OthersKept`, `QuietPurge`, `GuardSound` |
| `add_form` | 2 shares, 2 accounts, 5 addresses, 2 mount points, 2 children, fairness | `ImportedForShare`, `LookupWanted`, `AnswersLatest`, `MountPointCheckCurrent`, `LookupsEnd` |
| `root_lock_purge`, `delete_other`, `mixed_tuple` | smallest instance of each | violations, see *Findings* |

Why the bounds are enough for the cases to happen: two ids let a share be
defined, removed and defined again with the old id's leftovers present; four
mount ids are one more than a trigger, the mount on it and a remembered id can
use at once, so that ids a process still remembers are never handed out again;
two units make each loop of purge and boot do one, fail and go on; five inodes
are the directory and file of an old and of a new `/run/nasmount` and one in
flight.  In `session` two helper calls may be outstanding
(`MaxCalls`), so that one whose reply was lost can still run, or even start,
after a later request's; `session_faults`, which checks liveness and needs no
such order, allows one.  In `durable` two names keep a call's own file apart from
the others, two contents an old value from a new one, and two temporary names let
a dead call's leftover lie beside the next call's; when none is left the write
fails, as it does after eight collisions.  In `package` one helper call may be
outstanding when a define is asked for, so that an abandoned define can still run
beside the purge that follows it; two users are enough for "the caller" and
"somebody else", and the other's share has no credential, so that whatever lies
in `/etc/nasmount` is the caller's.  In `add_form` two children let a new lookup
run while the one before it is dying, and the five addresses are nothing, two
servers, a folder on one of them and the same share with a user in it.
`PackageRemoval`'s behaviours may end (the package is gone), so its run does not
look for deadlocks.

Users, units, ids and mount ids are only compared for equality and are symmetry
sets in the safety runs (`Session` has symmetric ids only).  Runs with fairness
use none.

Fairness.  In `ShareLifecycle` a process that holds the lock keeps executing
(`WF` on its work) and flock does not pass over a waiter for ever (`SF` on
acquisition); nobody has to call anything.  `RootLock` has the same split: `WF`
on the steps that cannot be disabled by others, `SF` on flock and on the release
that ends the critical section.  In `Session` the helper and the Store step are
weakly fair, taking the user lock strongly fair; an unanswered polkit prompt
times out and is a `Refuse`.  The user is never obliged to request or refresh.
In `AddForm` only timers are fair: the deadline of a running lookup fires and a
child that was terminated is killed two seconds later.  A child need not answer
(a wallet prompt may stay open for ever), the worker need not come back from a
disk that hangs, and nobody need type.

`TriggerBacked` is checked without `"late"`: a start job that runs after its
systemctl was killed can start a trigger whose definition `define`'s cleanup has
already removed.  `late` is part of `progress` only.

`AckDurable` excepts two windows, which `lapse` marks.  A call that made the
directory and could not flush its parent leaves a directory the next call finds
(`EEXIST`) and does not flush.  A call that unlinked a file and could not flush
the directory leaves a file the next call does not find (`ENOENT`), and reports
removed.  Power loss then undoes a write, or brings back a secret, that was
acknowledged; the next undefine or purge meets it again.

`GuardSound` leaves a window to calls that begin after the guard's look at the
lock's directory and before its last, at that of the id records: such a define may
have written its units, and still be at work, when the guard answers Empty.  What
the answer does promise in every order is that no share confirmed to its user
since the guard began is among what it missed; the third look is what gives that,
and a guard without it (`StateAtNoIds`) breaks the property, as one that does not
look for the lock (`StateAtNoLock`) breaks the rest.

`QuietPurge` speaks of scripts beside which no helper or boot was at work: the
scripts take no lock, and a helper that is already running goes on while the
package is taken away.  `OthersKept` ends with the confirmed purge: a share that
another user defines between that purge and `apt purge` is torn down by the
maintainer scripts, which look at no owner.

`ViewFaithful` speaks of refreshes during which no file and no record changed.
One that overlaps an Add may list a record it read after scanning the units,
find a definition at its path that the scan did not have, and call that drift;
"Remove record" is then offered for a sound share until the next refresh.

## Findings

Three statements of the repository that its code does not keep; each has a run
whose counterexample shows it.

* `root_lock_purge` — *a boot arming pass and a helper call can never
  interleave* (`root/rootlock.h`).  A process already waiting in flock when
  purge unlinks the file gets the lock of a nameless inode; the next call creates
  a new file and gets that one.
* `delete_other` — records are keyed by id so that deleting one share cannot
  revoke another (`session/store.h`).  Delete looks the path up by id and
  undefines by path.  In the run nothing is lost and nothing dies: a first delete's
  helper call unlinks both units and then fails (at the id record or the reload), so
  that the record stays; another front end adds a share at that mount point, which
  is complete and recorded under its own id; and a second delete of the first id,
  asked for from a view not refreshed since, takes that definition away.
* `mixed_tuple` — an imported login is *the whole tuple or none of it*
  (`kcm/ui/ShareForm.qml`).  Picking the same share again as another account
  leaves the address as it was, so nothing is withdrawn, and replaces the
  Username, which still equals the one the first pick filled in; the imported
  password stays.

Seen while modelling, and without a run of their own:

* `root/arming.h` says a unit is never stopped unless its active instance is
  proven to be the recorded one; with the expected CIFS mount on top `safeStop`
  does not consult the recorded id.
* `root/operations.h` says creation succeeds only with an active trigger and
  matching id; a user walking into the new mount point between the start and the
  statx makes the recorded id that of the CIFS mount.  `DefineAck` states what a
  success does promise.
* `root/operations.h` says a failure partway leaves the remaining steps safe to
  retry; once undefine has unlinked both halves its retry is refused, and the id
  record and PID 1's copy of the unit stay.
* `packageguard/main.cpp` says maintainer scripts call the guard; none of them
  does, and a test asserts that they do not.

## Proofs

All theorems hold for every value of the constants that meets the named
assumptions (`LifecycleAssumption`, `RootLockAssumption`, `DurableFsAssumption`,
`FormAssumption`, `PackageAssumption`, `SessionConstants`, Verify's assumption that
`None`, `Unmarked` and `Altered` are distinct and no markers).

**ShareLifecycleProofs.**  `TypeCorrect`, `SecretInvariant`, `SecretsIndexed`:
for any users, units, ids, mount ids, helpers and fault set, a credential file is
always named by a unit half, unless a purge was cut short.  `SecretIndexed` is
not inductive: whether a cleanup may unlink a unit depends on what the process
established many steps earlier.  `SecretInv` adds

* `ControlInv`: who is past the lock holds it, and request, step and share agree;
* `DefineKnows`: define writes over nothing, removes only halves that carry its
  own marker, knows when its secret cannot exist, and reaches the unit halves in
  its cleanup only once the secret is gone;
* `RemovalKnows`: undefine's halves both belong to the share whose credential it
  removes, and the credential goes first; a deleting purge has set `purgeOpen`.

`WorkFrame` says that only the lock holder moves its own `pc`, `task` and
`local`; with `ControlInv` one process's knowledge cannot be disturbed by
another's step.  The rest goes action by action: `...Type` for types, `...Control`
for `ControlInv`, `...Keeps` for the knowledge and the conclusion.

**ShareFilesProofs.**  `FilesInvariant`, `ShareIdsUnique` (`IdsUnique`),
`FilesRespected` (`UnitFilesRespected`) and `OwnersRemove` (`OwnerRemoves`), for
any users, units, ids, processes and faults.  All three need to know, many steps
after an inspection, that what was inspected is still there.  `FilesInv` says for
each step of each call which halves, which credential and which record the call
has left, written or removed: that the halves it removes are its own or carry the
owner it checked, that purge and the boot pass still find what they enumerated,
and that a new id appears in no half.  Only the holder of the lock writes these,
so the lemmas are again frames for everybody else and one lemma per action.

**ShareTriggersProofs.**  On top of that, what calls know of PID 1 and the kernel.
`TriggerInvariant`, `BootComplete` (`BootArmsOrReports`), `TriggersBacked`
(`TriggerBacked`), `DefineAnswers`, `UndefineAnswers` and `PurgeAnswers` (the
three acknowledgements).  `BootComplete` and the part of `TriggerInv` about files
hold under every fault.  The part about triggers, and with it `TriggersBacked` and
the acknowledgements, has the hypothesis `"late" \notin Faults`: a start job that
outlives its systemctl can run between the unlinking of a unit by `define`'s
cleanup and the daemon-reload, and then starts a trigger whose definition is gone.
That is the environment's doing and the same bound the runs have; kills, reboots,
failing steps, users walking into the mount point and an administrator who starts
and stops units are all allowed.

**RootLockProofs.**  `LockInvariant`, `Exclusion`: until a purge unlinks the file
no two processes are past flock.  `LockInv` adds that a holder holds the flock of
the inode its own descriptor names and that every descriptor names the one file.

**SessionProofs.**  First `MountModel`'s rules.  `ListAgreesWithHelper`: for every
input of `classifyRow` the list offers to remove a definition exactly when
`evaluateStopPrecheck` on the same snapshot would not refuse and the record does
not contradict it.  `RowOffersOneRemoval`: never both removal flags.  Both by
cases on the definition, then on the gate.

Then `Session`: `SessionTypes`, `RowsAgree` (`OffersWhatHelperAccepts`),
`DeletesKeepRecords` (`DeleteKeepsRecord`) and `ViewsAreFaithful` (`ViewFaithful`),
for any number of lists, dialogs, mount points, ids and outstanding calls, any
runtimes and every fault.  None is inductive.  `SessionInv` adds that an id has
one home: no half that carries it is, or ever will be, anywhere but at the mount
point its definition was made at, and a record names that mount point
(`FilesKnown`, `RecordsKnown`); what a running call has already written or
removed (`CallKnown`); and that a front end waits for one call, made for what its
request is about, and the root lock lets one run (`OneCall`).  So when an undefine
is confirmed to the delete that asked for it, the home of its id is empty, and an
abandoned call that starts later can bring back another id only
(`RequestKnown`).  `ViewsAreFaithful` needs `ScansTrue` as well: after the scan,
and again after the reading of the Store, what the rows say is so of the files
and records now, unless the list is marked as overlapped.  `ListMoves` says that
no step changes a file or a record under a refresh without marking it;
`FoundOwned` that the scan finds exactly the user's definitions and that its
collision pass demotes none, since an id has one home.

**DurableFsProofs.**  `TypeCorrect`, `FsInvariant`, `WholeFiles`, `Durable`,
`Implements`.  `NeverTorn` and `AckDurable` are not inductive; `FsInv` adds what a
call knows at each step of its temporary file (`KnowsTemp`) and of its result
(`KnowsResult`), that the value shown is always one power loss may leave, and
that anything which can be undone behind a later call's back is either the
current call's or recorded in `lapse` (`MkdirWindow`, `UnlinkWindow`).
`Implements` maps the initial state and each action, in a lemma of its own, to a
step of `DurableStore` or a stutter.

**AddFormProofs.**  `TypeCorrect`, `NoLoginElsewhere`, `LookupsWanted`,
`ChecksNotLost`, `OnlyLatestAnswer`, over any shares, accounts, addresses and
number of children.  `ImportedForShare` rests on what the flags mean: an imported
password in the form is flagged as imported, the target is the one it is for, and
a target is always that of the address in the field (`ImportKnown`); and a child
that is still listened to was asked about that very address, which names no user
(`LookupKnown`).

**PackageRemovalProofs.**  `TypeCorrect`, `GuardRight` (`GuardSound`) and
`OthersNotTaken` (`OthersKept`), for any users, guest shares, number of calls
outstanding and faults.  The guard looks at the units and at three directories one
after another and takes no lock, so the answer is right only because of orders
kept elsewhere.  Every helper call makes the lock's directory before anything
else, and while the package is installed nothing but the purge and a restart,
which end or cut short the call, takes it away: up to the look at that directory
`PackageKnows` and `GuardKnows` say this, `EtcHolds` that a secret, finished or
not, has its directory, `PurgeKnows` what a purge has established at each of its
steps.  Between that look and the last, `GuardStep` says what a step may do and
`GuardHistory` what the history tells of it: nobody has come if no call began; and
where a share was confirmed the directory of the id records is there, since a
define is confirmed after it made that, and only the purge and a restart, after
which the guard is over, take it away.  A purge the cleanup takes for confirmed is at its last step, where `PurgeKnows`
says that no other user has a share.

`MessagesTrue` (`CleanupTruthful`) and `SilentPurgeClean` (`QuietPurge`) rest on
`TruthInv`: who waits for which call and what the call has been told
(`AnswersKnown`); that while the package is installed a running trigger has its
units (`TriggersKnown`); that unless something else touched the caller's shares
in between, which `disturbed` records, the cleanup's first look still holds
(`CleanupKnown`); and that
scripts which have not warned, with no helper or boot beside them, have got rid
of what they have been through and nothing comes back (`QuietKnown`).
`MineMove` and `ScriptsMove` say what a step of anybody can do to the caller's
share and to what the scripts look at; the rest are cases on them.

Only model-checked: the liveness properties `CallsReturn`, `AcquireEnds`,
`RequestsFinish` and `LookupsEnd`, which are beyond the prover, and the three
violations under *Findings*, which are counterexamples.

## Not modelled

Unit text, escaping, UNC, address and path rules, the encoding of a lookup's
messages and the install manifest are string functions over unbounded text with
unit and golden tests of their own.  Of the forms, wording, layout, when a message
is revealed and the read-only view hold nothing a property could be about.  The
service menu's window asks for one lookup, for a share that cannot change; the
settings module's many are the harder case.  `readFileBounded`, the owner and
mode checks and `inventory` only read.  A package upgrade runs the same scripts
with arguments that make them do nothing.  The RPM scripts, the build files and
the KDE service menu description are not modelled apart.

How a child process that cannot be started reports that (`QProcess::start` may
signal `errorOccurred` at once) is Qt's business and taken to be later, by the
event loop, as `ProcessTransport::send` needs it to be.

## Plan

Done: `Verify` and `ShareLifecycle` (the core), `RootLock`, `MountModel` and
`Session`, `DurableStore` and `DurableFs`, `PackageRemoval`, `AddForm`, with the
proofs above.

Left, in this order:

1. An abstract specification of a share definition per unit (absent, partial,
   whole), implemented by `ShareLifecycle` and used for `Session`'s and
   `PackageRemoval`'s helper.
2. Upgrades of the package beside a helper call and the boot pass.
