------------------------------ MODULE DurableFs ------------------------------
(* root/durablefs on one directory, /etc/nasmount under /etc, down to the    *)
(* system call.  Every object has what is seen and what power loss may       *)
(* leave: an entry made, renamed or removed may be found as it was before    *)
(* until its directory is fsynced, data may be torn until its file is, and   *)
(* the directory itself may be missing until its parent is.                  *)
(* Callers hold the root lock, so there is one call at a time.               *)
EXTENDS FiniteSets

CONSTANTS
    Names,      \* credential files
    Temps,      \* .nasmount-tmp-* names, more than can be left lying about
    Data,       \* whole contents
    None,       \* no such entry
    Torn,       \* empty or partly written contents
    Faults      \* "io" steps may fail, "kill" the caller may die, "power"

Entries == Names \cup Temps
Contents == Data \cup {Torn}
File == [data : Contents, synced : BOOLEAN]
Ops == {"write", "remove", "tree"}
Steps == {"mkdir", "syncParent", "openTree", "temp", "fill", "syncFile", "abandon",
          "rename", "unlink", "clear", "syncDir", "rmdir", "ok"}
Call == [op : Ops, name : Names, data : Data \cup {None}, temp : Temps \cup {None}, step : Steps]

ASSUME DurableFsAssumption ==
    /\ Names \cap Temps = {}
    /\ Names # {}
    /\ Torn \notin Data
    /\ None \notin Contents
    /\ None \notin File
    /\ None \notin Call
    /\ None \notin Temps

VARIABLES
    dir,        \* the directory is there
    dirKept,    \* whether power loss leaves it there
    file,       \* what each name in it shows
    kept,       \* what power loss may leave under each name
    call,       \* the call being made
    lapse       \* history: which kinds of undone work earlier calls left

vars == <<dir, dirKept, file, kept, call, lapse>>
disk == <<dir, dirKept, file, kept>>

\* What power loss may make of a file as it stands.
OnDisk(f) ==
    IF f = None THEN {None}
    ELSE IF f.synced THEN {f.data}
    ELSE {f.data, Torn}

Init ==
    /\ dir = FALSE /\ dirKept = {FALSE}
    /\ file = [e \in Entries |-> None]
    /\ kept = [e \in Entries |-> {None}]
    /\ call = None
    /\ lapse = {}

Show(e, f) ==
    /\ file' = [file EXCEPT ![e] = f]
    /\ kept' = [kept EXCEPT ![e] = @ \cup OnDisk(f)]

Goto(s) == call' = [call EXCEPT !.step = s]
At(s) == call # None /\ call.step = s

\* What the next call cannot see was left undone: a directory whose entry in
\* the parent was not flushed, an unlink that was not.
Undone ==
    (IF At("syncParent") /\ call.op # "tree" THEN {"mkdir"} ELSE {})
    \cup (IF At("clear") \/ (At("syncDir") /\ call.op # "write") THEN {"unlink"} ELSE {})

\* The call returns false.
Fail ==
    /\ call' = None
    /\ lapse' = lapse \cup Undone

-----------------------------------------------------------------------------
(* The three calls.                                                         *)

Begin(op, n, d, s) ==
    /\ call = None
    /\ call' = [op |-> op, name |-> n, data |-> d, temp |-> None, step |-> s]
    /\ UNCHANGED <<disk, lapse>>

\* CredentialStore::write
Write(n, d) == Begin("write", n, d, "mkdir")

\* CredentialStore::remove; every caller allows a missing file.
Remove(n) == Begin("remove", n, None, "mkdir")

\* purge: durableRemoveTree.  It is about every name; `name` is not used.
RemoveTree == \E n \in Names : Begin("tree", n, None, "openTree")

\* The call returns true.
Return ==
    /\ At("ok")
    /\ call' = None
    /\ UNCHANGED <<disk, lapse>>

-----------------------------------------------------------------------------
(* createAndVerifyDir: only the call that made the directory flushes its    *)
(* entry in the parent.                                                     *)

Opened == IF call.op = "write" THEN "temp" ELSE "unlink"

\* Mutant of MakeDir: the parent is never flushed.
MakeDirUnflushed ==
    /\ At("mkdir")
    /\ Goto(Opened)
    /\ dir' = TRUE /\ dirKept' = dirKept \cup {TRUE}
    /\ UNCHANGED <<file, kept, lapse>>

MakeDir ==
    /\ At("mkdir")
    /\ IF dir
         THEN Goto(Opened) /\ UNCHANGED <<dir, dirKept>>
         ELSE Goto("syncParent") /\ dir' = TRUE /\ dirKept' = dirKept \cup {TRUE}
    /\ UNCHANGED <<file, kept, lapse>>

\* Also the last step of durableRemoveTree.
SyncParent ==
    /\ At("syncParent")
    /\ dirKept' = {dir}
    /\ IF call.op = "tree" THEN Goto("ok") ELSE Goto(Opened)
    /\ lapse' = lapse \ {"mkdir"}
    /\ UNCHANGED <<dir, file, kept>>

-----------------------------------------------------------------------------
(* durableReplace.                                                          *)

\* Mutant of FreshTemps: the file is written in place.
FreshTempsInPlace == {call.name}

\* A random name opened with O_EXCL: no file has it, or can come back under it.
FreshTemps == {t \in Temps : kept[t] = {None}}

CreateTemp ==
    /\ At("temp")
    /\ \E t \in FreshTemps :
        /\ Show(t, [data |-> Torn, synced |-> FALSE])
        /\ call' = [call EXCEPT !.temp = t, !.step = "fill"]
    /\ UNCHANGED <<dir, dirKept, lapse>>

FillTemp ==
    /\ At("fill")
    /\ Show(call.temp, [data |-> call.data, synced |-> FALSE])
    /\ Goto("syncFile")
    /\ UNCHANGED <<dir, dirKept, lapse>>

\* Mutant of SyncFile: the data is left to the kernel.
SyncFileSkipped ==
    /\ At("syncFile")
    /\ Goto("rename")
    /\ UNCHANGED <<dir, dirKept, file, kept, lapse>>

SyncFile ==
    /\ At("syncFile")
    /\ file' = [file EXCEPT ![call.temp] = [data |-> call.data, synced |-> TRUE]]
    /\ kept' = [kept EXCEPT ![call.temp] = {None, call.data}]
    /\ Goto("rename")
    /\ UNCHANGED <<dir, dirKept, lapse>>

\* Mutant of Rename: the old file is unlinked first.
RenameInTwo ==
    /\ At("rename")
    /\ IF file[call.name] # None
         THEN Show(call.name, None) /\ UNCHANGED call
         ELSE /\ file' = [file EXCEPT ![call.name] = file[call.temp], ![call.temp] = None]
              /\ kept' = [kept EXCEPT ![call.name] = @ \cup OnDisk(file[call.temp]),
                                      ![call.temp] = @ \cup {None}]
              /\ Goto("syncDir")
    /\ UNCHANGED <<dir, dirKept, lapse>>

Rename ==
    /\ At("rename")
    /\ file' = [file EXCEPT ![call.name] = file[call.temp], ![call.temp] = None]
    /\ kept' = [kept EXCEPT ![call.name] = @ \cup OnDisk(file[call.temp]),
                            ![call.temp] = @ \cup {None}]
    /\ Goto("syncDir")
    /\ UNCHANGED <<dir, dirKept, lapse>>

\* The temporary file is unlinked; whether that worked is not looked at.
Abandon ==
    /\ At("abandon")
    /\ \/ Show(call.temp, None)
       \/ "io" \in Faults /\ UNCHANGED <<file, kept>>
    /\ Fail
    /\ UNCHANGED <<dir, dirKept>>

-----------------------------------------------------------------------------
(* durableUnlink and durableRemoveTree.                                     *)

Unlink ==
    /\ At("unlink")
    /\ IF file[call.name] = None
         THEN Goto("ok") /\ UNCHANGED <<file, kept>>
         ELSE Goto("syncDir") /\ Show(call.name, None)
    /\ UNCHANGED <<dir, dirKept, lapse>>

OpenTree ==
    /\ At("openTree")
    /\ IF dir THEN Goto("clear") ELSE Goto("ok")
    /\ UNCHANGED <<disk, lapse>>

Present == {e \in Entries : file[e] # None}

\* Mutant of ClearTree: names with a leading dot are passed over.
ClearTreeNames ==
    /\ At("clear")
    /\ IF Present \cap Names = {}
         THEN Goto("syncDir") /\ UNCHANGED <<file, kept>>
         ELSE (\E e \in Present \cap Names : Show(e, None)) /\ UNCHANGED call
    /\ UNCHANGED <<dir, dirKept, lapse>>

\* Every entry, in whatever order readdir has them.
ClearTree ==
    /\ At("clear")
    /\ IF Present = {}
         THEN Goto("syncDir") /\ UNCHANGED <<file, kept>>
         ELSE (\E e \in Present : Show(e, None)) /\ UNCHANGED call
    /\ UNCHANGED <<dir, dirKept, lapse>>

\* fsync(dirFd): the entries are as they are seen.
SyncDir ==
    /\ At("syncDir")
    /\ kept' = [e \in Entries |-> OnDisk(file[e])]
    /\ IF call.op = "tree" THEN Goto("rmdir") ELSE Goto("ok")
    /\ lapse' = lapse \ {"unlink"}
    /\ UNCHANGED <<dir, dirKept, file>>

RemoveDir ==
    /\ At("rmdir")
    /\ dir' = FALSE /\ dirKept' = dirKept \cup {FALSE}
    /\ Goto("syncParent")
    /\ UNCHANGED <<file, kept, lapse>>

-----------------------------------------------------------------------------
(* What goes wrong.                                                         *)

\* A system call reports an error and has had no effect.
StepFails ==
    /\ call # None
    /\ ~At("ok") /\ ~At("abandon")
    /\ "io" \in Faults \/ (At("temp") /\ FreshTemps = {})
    /\ IF call.step \in {"fill", "syncFile", "rename"}
         THEN Goto("abandon") /\ UNCHANGED lapse
         ELSE Fail
    /\ UNCHANGED disk

CallerDies ==
    /\ "kill" \in Faults
    /\ call # None
    /\ Fail
    /\ UNCHANGED disk

Found(c) == IF c = None THEN None ELSE [data |-> c, synced |-> TRUE]

PowerLoss ==
    /\ "power" \in Faults
    /\ \E there \in dirKept, left \in [Entries -> Contents \cup {None}] :
        /\ \A e \in Entries : left[e] \in (IF there THEN kept[e] ELSE {None})
        /\ dir' = there /\ dirKept' = {there}
        /\ file' = [e \in Entries |-> Found(left[e])]
        /\ kept' = [e \in Entries |-> {left[e]}]
    /\ call' = None
    /\ lapse' = {}

Steady ==
    \/ MakeDir \/ SyncParent
    \/ CreateTemp \/ FillTemp \/ SyncFile \/ Rename \/ Abandon
    \/ Unlink \/ OpenTree \/ ClearTree \/ SyncDir \/ RemoveDir
    \/ Return

Next ==
    \/ \E n \in Names, d \in Data : Write(n, d)
    \/ \E n \in Names : Remove(n)
    \/ RemoveTree
    \/ Steady
    \/ StepFails \/ CallerDies \/ PowerLoss

Spec == Init /\ [][Next]_vars

-----------------------------------------------------------------------------
(* Properties.                                                              *)

TypeOK ==
    /\ dir \in BOOLEAN
    /\ dirKept \in SUBSET BOOLEAN
    /\ file \in [Entries -> File \cup {None}]
    /\ kept \in [Entries -> SUBSET (Contents \cup {None})]
    /\ call \in Call \cup {None}
    /\ lapse \in SUBSET {"mkdir", "unlink"}

\* What power loss may leave under a name, the directory included.
Floor(n) == kept[n] \cup (IF FALSE \in dirKept THEN {None} ELSE {})

\* durablefs.h: durableReplace "never truncates the live file in place": at no
\* instant does a reader, before or after power loss, find part of a file.
NeverTorn ==
    \A n \in Names :
        /\ file[n] # None => file[n].data \in Data
        /\ Torn \notin kept[n]

\* A call that returns true cannot be undone by power loss: the written value,
\* or nothing, is what is found.  The two exceptions are work an earlier call
\* was stopped from flushing and this one could not see: a directory already
\* made (EEXIST) and a file already unlinked (ENOENT).
WriteDurable ==
    At("ok") /\ call.op = "write" =>
        /\ kept[call.name] = {call.data}
        /\ "mkdir" \notin lapse => Floor(call.name) = {call.data}
RemoveDurable ==
    At("ok") /\ call.op = "remove" =>
        /\ file[call.name] = None
        /\ "unlink" \notin lapse => Floor(call.name) = {None}
TreeDurable ==
    At("ok") /\ call.op = "tree" => ~dir /\ \A e \in Entries : kept[e] = {None}
AckDurable == WriteDurable /\ RemoveDurable /\ TreeDurable

\* What each step may rely on.  Together with NeverTorn it is inductive: the
\* value a name shows is always one power loss may leave; a call knows what its
\* temporary file holds; and only the work in `lapse`, or that of the call now
\* being made, can be undone behind a later call's back.
StepsOfOp ==
    /\ call.op = "write" =>
        /\ call.data \in Data
        /\ call.step \in {"mkdir", "syncParent", "temp", "fill", "syncFile", "abandon",
                          "rename", "syncDir", "ok"}
    /\ call.op = "remove" =>
        call.data = None /\ call.step \in {"mkdir", "syncParent", "unlink", "syncDir", "ok"}
    /\ call.op = "tree" =>
        /\ call.data = None
        /\ call.step \in {"openTree", "clear", "syncDir", "rmdir", "syncParent", "ok"}
    /\ call.step \in {"fill", "syncFile", "abandon", "rename"} => call.temp \in Temps
HasDir ==
    /\ call.step \in {"temp", "fill", "syncFile", "abandon", "rename", "unlink", "clear",
                      "syncDir", "rmdir"} => dir
    /\ call.step = "syncParent" => (dir <=> call.op # "tree")
KnowsTemp ==
    /\ call.step = "fill" => kept[call.temp] = {None, Torn}
    /\ call.step = "syncFile" => kept[call.temp] = {None, Torn, call.data}
    /\ call.step = "rename" =>
        /\ file[call.temp] = [data |-> call.data, synced |-> TRUE]
        /\ kept[call.temp] = {None, call.data}
KnowsResult ==
    /\ call.step = "syncDir" /\ call.op = "write" =>
        file[call.name] = [data |-> call.data, synced |-> TRUE]
    /\ call.step = "syncDir" /\ call.op = "remove" => file[call.name] = None
    /\ call.step = "syncDir" /\ call.op = "tree" => \A e \in Entries : file[e] = None
    /\ call.step = "rmdir" => \A e \in Entries : file[e] = None /\ kept[e] = {None}
CallInv == call # None => StepsOfOp /\ HasDir /\ KnowsTemp /\ KnowsResult

DirInv ==
    /\ dir \in dirKept
    /\ ~dir => \A e \in Entries : file[e] = None /\ kept[e] = {None}
ShownKept == \A e \in Entries : OnDisk(file[e]) \subseteq kept[e]
NamesSynced == \A n \in Names : file[n] # None => file[n].synced
MkdirWindow == dir /\ FALSE \in dirKept => "mkdir" \in lapse \/ At("syncParent")
UnlinkWindow ==
    \A n \in Names : file[n] = None /\ kept[n] # {None} =>
        "unlink" \in lapse \/ At("clear") \/ (At("syncDir") /\ call.op # "write")

FsInv ==
    /\ DirInv /\ ShownKept /\ NeverTorn /\ NamesSynced
    /\ MkdirWindow /\ UnlinkWindow /\ CallInv

\* The calls implement a store of whole values.
Shown == [n \in Names |-> IF file[n] = None THEN None ELSE file[n].data]
Floors == [n \in Names |-> Floor(n)]
Scope == IF call = None THEN {} ELSE IF call.op = "tree" THEN Names ELSE {call.name}
Goal == IF call = None THEN None ELSE call.data
Cut == lapse # {}

Store == INSTANCE DurableStore WITH
    value <- Shown, floor <- Floors, scope <- Scope, goal <- Goal, cut <- Cut

ImplementsStore == Store!Spec
=============================================================================
