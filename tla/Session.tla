-------------------------------- MODULE Session --------------------------------
(***************************************************************************)
(* One user's front ends (session/mountactions, session/mountmodel,        *)
(* session/store, session/userlock, session/helperinvoke): what they read, *)
(* what they show, what they ask the helper to do and what they record.    *)
(*                                                                         *)
(* A front end is one process with one request at a time; a second request *)
(* of the same process is a second front end here, since each request has  *)
(* a worker thread and a lock descriptor of its own.  The KCM has a list;  *)
(* the dialog has only the share it was opened on.                         *)
(* Changes to the definitions and the records run under the user lock,     *)
(* refreshes do not.  The helper is reduced to what its calls do to the    *)
(* two unit files (ShareLifecycle has the rest of it); its root lock runs  *)
(* one call at a time, and it goes on with a call whose front end has      *)
(* died or has lost the reply.                                             *)
(***************************************************************************)
EXTENDS MountModel, Naturals, FiniteSets

CONSTANTS
    Lists,      \* front ends with a list of shares (the KCM)
    Dialogs,    \* front ends opened on one address (the dialog)
    Me,         \* the uid of the user
    Units,      \* mount points, with the unit names they have
    AddAuths,   \* what the user may ask for
    Runtimes,   \* the runtime snapshots a refresh may find
    MaxCalls,   \* bound on helper calls outstanding at once
    Faults      \* which faults the environment may inject

FrontEnds == Lists \cup Dialogs

FaultKinds == {"lost", "crash", "edit", "sync"}

ASSUME SessionConstants ==
    /\ Me \in Users
    /\ AddAuths \subseteq Auths
    /\ Runtimes \subseteq Snapshot
    /\ MaxCalls \in Nat
    /\ Faults \subseteq FaultKinds
    /\ Lists \cap Dialogs = {}
    /\ None \notin FrontEnds \cup Units
    /\ None \notin [unit : Units, auth : Auths] \cup [unit : Units \cup {None}]

VARIABLES
    mountUnit, automountUnit,   \* the unit files
    usedIds,                    \* every id a definition was ever given
    record,                     \* the Store: what each id is recorded as
    userLock,                   \* the front end holding the user lock
    op,                         \* the request of each front end
    calls,                      \* the helper calls outstanding
    scan,                       \* the refresh each list is computing
    view,                       \* the rows each list shows
    overlapped                  \* lists whose refresh saw things change

disk == <<mountUnit, automountUnit, usedIds>>
front == <<op, userLock>>
list == <<scan, view, overlapped>>
vars == <<disk, record, front, calls, list>>

Record == [unit : Units, auth : Auths]

\* A record that lacks its address or, with unit None, its mount point.
Corrupt == [unit : Units \cup {None}]

Op == [kind : {"none", "add"} \cup (RemovalKinds \ {"none"}),
       step : {"idle", "lock", "wait", "store"},
       id   : Ids \cup {None},
       unit : Units \cup {None},
       auth : Auths]

NoOp == [kind |-> "none", step |-> "idle", id |-> None, unit |-> None, auth |-> "Guest"]

Call == [from : FrontEnds \cup {None},
         kind : {"define", "undefine"},
         step : {"sent", "first", "second", "undo"},
         id   : Ids \cup {None},
         unit : Units \cup {None},
         auth : Auths]

Row == [id         : Ids \cup {None},
        unit       : Units \cup {None},
        definition : {"None", "Pair", "Partial", "Tampered", "NotOurs"},
        auth       : Auths,
        runtime    : Snapshot,
        hasFiles   : BOOLEAN,
        hasRecord  : BOOLEAN,
        corrupt    : BOOLEAN,
        drift      : BOOLEAN,
        class      : RowClass]

ShownRow == [id : Ids \cup {None}, unit : Units \cup {None}, kind : RemovalKinds]

Scan == [step : {"none", "units", "store", "inventory"}, rows : SUBSET Row]

NoScan == [step |-> "none", rows |-> {}]

FreshScan == [step |-> "units", rows |-> {}]

\* The definition at u, as inspectDefinition judges it for this user.
DefinitionAt(u) == inspectDefinition(mountUnit[u], automountUnit[u], Me)

Owned(u) == DefinitionAt(u) \in {"Pair", "Partial"}

MarkerAt(u) == definitionMarker(mountUnit[u], automountUnit[u])

Defines(u, i) == Owned(u) /\ MarkerAt(u).id = i

\* Every variable has its type.
TypeOK ==
    /\ mountUnit \in [Units -> UnitFile]
    /\ automountUnit \in [Units -> UnitFile]
    /\ usedIds \subseteq Ids
    /\ record \in [Ids -> Record \cup Corrupt \cup {None}]
    /\ userLock \in FrontEnds \cup {None}
    /\ op \in [FrontEnds -> Op]
    /\ calls \subseteq Call
    /\ scan \in [Lists -> Scan]
    /\ view \in [Lists -> SUBSET ShownRow]
    /\ overlapped \subseteq Lists

\* Nothing defined by this tool yet; other tools may have units of their own.
\* A list is empty until its first refresh, which its constructor starts.
Init ==
    /\ mountUnit \in [Units -> {None, Unmarked}]
    /\ automountUnit = [u \in Units |-> None]
    /\ usedIds = {}
    /\ record = [i \in Ids |-> None]
    /\ userLock = None
    /\ op = [f \in FrontEnds |-> NoOp]
    /\ calls = {}
    /\ scan = [f \in Lists |-> FreshScan]
    /\ view = [f \in Lists |-> {}]
    /\ overlapped = {}

-----------------------------------------------------------------------------
(* Requests.                                                               *)

\* A unit file or a record changes under the refreshes being computed.
Overlap ==
    overlapped' = overlapped \cup {f \in Lists : scan[f].step \in {"store", "inventory"}}

GoTo(f, step) == op' = [op EXCEPT ![f].step = step]

\* A list starts again from the beginning; what it was computing is dropped.
Restart(f) == scan' = [g \in Lists |-> IF g = f THEN FreshScan ELSE scan[g]]

\* Mutant of Finish: the lock stays with the result of a finished worker.
FinishKeepsLock(f) ==
    /\ op' = [op EXCEPT ![f] = NoOp]
    /\ Restart(f)
    /\ UNCHANGED <<userLock, view>>

\* finished(): a list refreshes, and the lock goes with the worker's result.
Finish(f) ==
    /\ op' = [op EXCEPT ![f] = NoOp]
    /\ userLock' = IF userLock = f THEN None ELSE userLock
    /\ Restart(f)
    /\ UNCHANGED view

\* A request is made, with the arguments it will be called with, and its
\* worker waits for the user lock.  (The confirmation a removal goes through
\* first holds the same copy; it and the wait are one.)
Submit(f, request) ==
    /\ op[f].step = "idle"
    /\ op' = [op EXCEPT ![f] = [request EXCEPT !.step = "lock"]]
    /\ UNCHANGED <<disk, record, userLock, calls, list>>

\* The Add form, for which no row of the list is needed.
SubmitAdd(f, u, a) == Submit(f, [NoOp EXCEPT !.kind = "add", !.unit = u, !.auth = a])

\* Mutant of SubmitRemoval: the confirmation passes its mount point for the id.
SubmitRemovalByPath(f, row) ==
    \/ /\ row.kind = "removeOrphan"
       /\ Submit(f, [NoOp EXCEPT !.kind = row.kind, !.unit = row.unit])
    \/ /\ row.kind \in {"delete", "removeRecord"}
       /\ Submit(f, [NoOp EXCEPT !.kind = row.kind, !.id = row.unit])

\* The remove button of a row: by mount point for an orphan, else by id.
SubmitRemoval(f, row) ==
    \/ /\ row.kind = "removeOrphan"
       /\ Submit(f, [NoOp EXCEPT !.kind = row.kind, !.unit = row.unit])
    \/ /\ row.kind \in {"delete", "removeRecord"}
       /\ Submit(f, [NoOp EXCEPT !.kind = row.kind, !.id = row.id])

\* The dialog removes the record it found for its address when it was opened.
SubmitExisting(f, i) ==
    /\ record[i] \in Record
    /\ Submit(f, [NoOp EXCEPT !.kind = "delete", !.id = i])

\* The worker has the user lock; what it does next, up to its helper call or
\* Store write, is part of the step that takes the lock.
GetsUserLock(f, kind) ==
    op[f].step = "lock" /\ op[f].kind = kind /\ userLock = None

EndEarly(f) == Finish(f) /\ UNCHANGED <<disk, record, calls, overlapped>>

\* No runtime directory, or the lock file cannot be opened.
UserLockUnavailable(f) ==
    /\ op[f].step = "lock"
    /\ EndEarly(f)

\* Send one KAuth call and wait for its reply.
Invoke(f, kind, u) ==
    /\ Cardinality(calls) < MaxCalls
    /\ calls' = calls \cup {[from |-> f, kind |-> kind, step |-> "sent", id |-> None,
                             unit |-> u, auth |-> op[f].auth]}
    /\ userLock' = f
    /\ GoTo(f, "wait")
    /\ UNCHANGED <<disk, record, list>>

addShare(f) == GetsUserLock(f, "add") /\ Invoke(f, "define", op[f].unit)

\* Reads the record again; what it undefines is the path recorded there.
deleteShare(f) ==
    LET rec == record[op[f].id]
    IN  /\ GetsUserLock(f, "delete")
        /\ \/ rec = None /\ EndEarly(f)
           \/ rec # None /\ Invoke(f, "undefine", rec.unit)

\* Looks at the definition again, and not at the Store.
removeOrphanByPath(f) ==
    /\ GetsUserLock(f, "removeOrphan")
    /\ \/ Owned(op[f].unit) /\ Invoke(f, "undefine", op[f].unit)
       \/ ~Owned(op[f].unit) /\ EndEarly(f)

\* Has nothing to ask the helper.
removeOrphanedRecord(f) ==
    /\ GetsUserLock(f, "removeRecord")
    /\ userLock' = f
    /\ GoTo(f, "store")
    /\ UNCHANGED <<disk, record, calls, list>>

\* A write of the Store may fail, with or without its effect.
StoreOutcome(i, value) ==
    \/ record' = [record EXCEPT ![i] = value]
    \/ "sync" \in Faults /\ UNCHANGED record

\* Under generation 0: only where there is no record yet.
commitShare(f) ==
    /\ op[f].step = "store" /\ op[f].kind = "add"
    /\ IF record[op[f].id] = None
       THEN StoreOutcome(op[f].id, [unit |-> op[f].unit, auth |-> op[f].auth])
       ELSE UNCHANGED record
    /\ Finish(f)
    /\ Overlap
    /\ UNCHANGED <<disk, calls>>

removeShare(f) ==
    /\ op[f].step = "store" /\ op[f].kind \in {"delete", "removeRecord"}
    /\ StoreOutcome(op[f].id, None)
    /\ Finish(f)
    /\ Overlap
    /\ UNCHANGED <<disk, calls>>

-----------------------------------------------------------------------------
(* The helper, as its calls look from here.                                *)

\* Mutant of GoesOn: a delete goes on to its record unless the helper said
\* no, so also when nobody knows what it did.
GoesOnGuessing(kind, outcome) ==
    \/ kind = "add" /\ outcome = "ConfirmedSuccess"
    \/ kind = "delete" /\ outcome # "ConfirmedFailure"

\* Whether a request goes on to the Store: only after a confirmed success.
GoesOn(kind, outcome) == kind \in {"add", "delete"} /\ outcome = "ConfirmedSuccess"

\* The front end, if it still waits for this call, takes the outcome.
Deliver(c, outcome) ==
    \/ c.from = None /\ UNCHANGED <<front, list>>
    \/ /\ c.from # None
       /\ GoesOn(op[c.from].kind, outcome)
       /\ op' = [op EXCEPT ![c.from].step = "store",
                           ![c.from].id = IF c.kind = "define" THEN c.id ELSE @]
       /\ UNCHANGED <<userLock, list>>
    \/ /\ c.from # None
       /\ ~GoesOn(op[c.from].kind, outcome)
       /\ Finish(c.from)
       /\ UNCHANGED overlapped

Reply(c, outcome) ==
    /\ calls' = calls \ {c}
    /\ Deliver(c, outcome)
    /\ UNCHANGED <<disk, record>>

\* The call c becomes d, having written mount and automount for its unit.
Advance(c, d, mountFile, automountFile) ==
    /\ calls' = (calls \ {c}) \cup {d}
    /\ mountUnit' = [mountUnit EXCEPT ![c.unit] = mountFile]
    /\ automountUnit' = [automountUnit EXCEPT ![c.unit] = automountFile]
    /\ Overlap
    /\ UNCHANGED <<record, front, scan, view>>

\* The root lock is free for a call that has not started.
MayStart(c) == c.step = "sent" /\ \A d \in calls : d.step = "sent"

\* Declined by polkit, refused by a check, or stopped by the runtime gate.
Refuse(c) == MayStart(c) /\ Reply(c, "ConfirmedFailure")

DefineMountUnit(c) ==
    /\ MayStart(c) /\ c.kind = "define"
    /\ DefinitionAt(c.unit) = "None"
    /\ \E i \in Ids \ usedIds :
          /\ usedIds' = usedIds \cup {i}
          /\ Advance(c, [c EXCEPT !.step = "first", !.id = i],
                     [owner |-> Me, id |-> i, auth |-> c.auth], None)

DefineAutomountUnit(c) ==
    /\ c.kind = "define" /\ c.step = "first"
    /\ Advance(c, [c EXCEPT !.step = "second"], mountUnit[c.unit], mountUnit[c.unit])
    /\ UNCHANGED usedIds

\* A later step of define fails: its cleanup tries the automount unit first,
\* then the mount unit, whatever came of the first; each removal may fail.
DefineFails(c) ==
    /\ c.kind = "define" /\ c.step \in {"first", "second"}
    /\ Advance(c, [c EXCEPT !.step = "undo"], mountUnit[c.unit], automountUnit[c.unit])
    /\ UNCHANGED usedIds

DefineCleanup(c) ==
    /\ c.step = "undo"
    /\ mountUnit[c.unit] # None
    /\ \/ automountUnit[c.unit] # None /\ Advance(c, c, mountUnit[c.unit], None)
       \/ Advance(c, c, None, automountUnit[c.unit])
    /\ UNCHANGED usedIds

\* Remove the mount unit, then the automount unit; either may fail.
UndefineMountUnit(c) ==
    /\ MayStart(c) /\ c.kind = "undefine"
    /\ c.unit # None /\ Owned(c.unit)
    /\ Advance(c, [c EXCEPT !.step = "first"], None, automountUnit[c.unit])
    /\ UNCHANGED usedIds

UndefineAutomountUnit(c) ==
    /\ c.kind = "undefine" /\ c.step = "first"
    /\ Advance(c, [c EXCEPT !.step = "second"], mountUnit[c.unit], None)
    /\ UNCHANGED usedIds

Complete(c) == c.step = "second" /\ Reply(c, "ConfirmedSuccess")

Incomplete(c) ==
    /\ c.step = "undo" \/ (c.kind = "undefine" /\ c.step \in {"first", "second"})
    /\ Reply(c, "ConfirmedFailure")

\* The reply is lost: the helper runs on for nobody.
ReplyLost(c) ==
    /\ "lost" \in Faults
    /\ c.from # None
    /\ calls' = (calls \ {c}) \cup {[c EXCEPT !.from = None]}
    /\ Deliver(c, "Unknown")
    /\ UNCHANGED <<disk, record>>

\* The helper dies in the middle of a call.
HelperDies(c) ==
    /\ "crash" \in Faults
    /\ c.step # "sent"
    /\ Reply(c, "Unknown")

-----------------------------------------------------------------------------
(* Refreshes.                                                              *)

ClassInput(r, applicable, healthy, hasRecord) ==
    [definition |-> r.definition, auth |-> r.auth, runtime |-> r.runtime,
     applicable |-> applicable, healthy |-> healthy, hasRecord |-> hasRecord,
     corrupt |-> r.corrupt, drift |-> r.drift]

Classified(r, applicable, healthy, hasRecord) ==
    [r EXCEPT !.class = classifyRow(ClassInput(r, applicable, healthy, hasRecord))]

NoClass == [state |-> "Broken", canDefinition |-> FALSE, canRecord |-> FALSE, admin |-> FALSE]

\* A manual refresh; one still being computed is dropped.
Refresh(f) ==
    /\ scan[f].step # "units"
    /\ Restart(f)
    /\ UNCHANGED <<disk, record, front, calls, view, overlapped>>

\* The row of a definition the scan found, with the runtime it has.
UnitRow(d, rt) ==
    LET known == d.state \in {"Pair", "Partial"}
        r == [id |-> IF known THEN d.marker.id ELSE None, unit |-> d.unit,
              definition |-> d.state,
              auth |-> IF known THEN d.marker.auth ELSE "Credentials",
              runtime |-> IF known THEN rt ELSE NoSnapshot,
              hasFiles |-> TRUE, hasRecord |-> FALSE, corrupt |-> FALSE,
              drift |-> FALSE, class |-> NoClass]
    IN  Classified(r, FALSE, TRUE, FALSE)

\* First the unit files, with the runtime of what they define ...
ScanUnits(f) ==
    /\ scan[f].step = "units"
    /\ \E rt \in [Units -> Runtimes] :
          scan' = [scan EXCEPT ![f] =
             [step |-> "store",
              rows |-> {UnitRow(d, rt[d.unit]) :
                           d \in enumerateManagedUnits(mountUnit, automountUnit)}]]
    /\ overlapped' = overlapped \ {f}
    /\ UNCHANGED <<disk, record, front, calls, view>>

\* The record contradicts the marker: another path, or guest or not.
storeDefinitionDrift(rec, r) == rec.unit # r.unit \/ rec.auth # r.auth

\* Mutant of Merged: the row does not learn that it has a record.
MergedUnrecorded(r, rec) ==
    LET m == [r EXCEPT !.corrupt = (rec \in Corrupt),
                       !.drift = (rec \notin Corrupt /\ storeDefinitionDrift(rec, r))]
    IN  IF m.corrupt \/ m.drift THEN Classified(m, FALSE, TRUE, TRUE) ELSE m

\* Mutant of Merged: drift is looked for, a missing field is not.
MergedUnchecked(r, rec) ==
    LET m == [r EXCEPT !.hasRecord = TRUE,
                       !.drift = (rec \notin Corrupt /\ storeDefinitionDrift(rec, r))]
    IN  IF m.drift THEN Classified(m, FALSE, TRUE, TRUE) ELSE m

\* A record whose id the scan found: the same row.
Merged(r, rec) ==
    LET m == [r EXCEPT !.hasRecord = TRUE, !.corrupt = (rec \in Corrupt),
                       !.drift = (rec \notin Corrupt /\ storeDefinitionDrift(rec, r))]
    IN  IF m.corrupt \/ m.drift THEN Classified(m, FALSE, TRUE, TRUE) ELSE m

\* A record whose id it did not find: a row of its own, which looks at what
\* is at the recorded path now.
RecordRow(i, rec) ==
    LET there == IF rec.unit = None THEN "None" ELSE DefinitionAt(rec.unit)
        other == there \in {"Pair", "Partial"}
    IN  Classified([id |-> i, unit |-> rec.unit,
                    definition |-> there,
                    auth |-> IF other THEN MarkerAt(rec.unit).auth ELSE "Credentials",
                    runtime |-> NoSnapshot, hasFiles |-> there # "None",
                    hasRecord |-> TRUE, corrupt |-> (rec \in Corrupt),
                    drift |-> other, class |-> NoClass],
                   FALSE, TRUE, TRUE)

\* ... then the records ...
ReadStore(f) ==
    LET found == scan[f].rows
        recorded == {i \in Ids : record[i] # None}
        matched == {i \in recorded : \E r \in found : r.id = i}
    IN  /\ scan[f].step = "store"
        /\ scan' = [scan EXCEPT ![f] =
              [step |-> "inventory",
               rows |-> {IF r.id \in matched THEN Merged(r, record[r.id]) ELSE r : r \in found}
                        \cup {RecordRow(i, record[i]) : i \in recorded \ matched}]]
        /\ UNCHANGED <<disk, record, front, calls, view, overlapped>>

\* The ids the privileged inventory reports a credential for.
InventoryIds ==
    {d.marker.id : d \in {e \in enumerateManagedUnits(mountUnit, automountUnit) :
                             e.state # "Tampered" /\ e.marker.auth = "Credentials"}}

\* The rows once the helper has told, or not, what it knows of the
\* credentials.  A row broken by its record stays so; no other row's record is
\* looked at again.
WithInventory(rows, healthy) ==
    {IF r.id \in InventoryIds /\ ~r.corrupt /\ ~r.drift
     THEN Classified(r, TRUE, r.id \in healthy, FALSE) ELSE r : r \in rows}

Shown(r) == [id |-> r.id, unit |-> r.unit,
             kind |-> rowRemoval(r.class, r.hasRecord, r.hasFiles)]

\* ... then the inventory, and the result becomes the whole list.
Publish(f) ==
    /\ scan[f].step = "inventory"
    /\ \E rows \in {scan[f].rows}
                    \cup {WithInventory(scan[f].rows, h) : h \in SUBSET InventoryIds} :
          view' = [view EXCEPT ![f] = {Shown(r) : r \in rows}]
    /\ scan' = [scan EXCEPT ![f] = NoScan]
    /\ overlapped' = overlapped \ {f}
    /\ UNCHANGED <<disk, record, front, calls>>

-----------------------------------------------------------------------------
(* The environment.                                                        *)

\* A front end is killed and started again: its lock goes with it, its
\* helper call does not.
FrontEndCrash(f) ==
    /\ "crash" \in Faults
    /\ op[f].step # "idle"
    /\ op' = [op EXCEPT ![f] = NoOp]
    /\ userLock' = IF userLock = f THEN None ELSE userLock
    /\ calls' = {IF c.from = f THEN [c EXCEPT !.from = None] ELSE c : c \in calls}
    /\ Restart(f)
    /\ view' = [g \in Lists |-> IF g = f THEN {} ELSE view[g]]
    /\ UNCHANGED <<disk, record, overlapped>>

\* nasmountrc is the user's own file: the mount point or the address is lost, or
\* the username is edited, which turns a guest record into an authenticated one
\* or back.
EditRecord(i) ==
    /\ "edit" \in Faults
    /\ record[i] \in Record
    /\ \E v \in {[unit |-> u] : u \in {None, record[i].unit}}
                \cup {[record[i] EXCEPT !.auth = a] : a \in Auths \ {record[i].auth}} :
          record' = [record EXCEPT ![i] = v]
    /\ Overlap
    /\ UNCHANGED <<disk, front, calls, scan, view>>

-----------------------------------------------------------------------------

RequestStart(f) ==
    \/ addShare(f) \/ deleteShare(f)
    \/ removeOrphanByPath(f) \/ removeOrphanedRecord(f)

RequestEnd(f) == commitShare(f) \/ removeShare(f)

ListStep(f) ==
    \/ \E row \in view[f] : SubmitRemoval(f, row)
    \/ Refresh(f) \/ ScanUnits(f) \/ ReadStore(f) \/ Publish(f)

HelperStep(c) ==
    \/ Refuse(c) \/ Complete(c) \/ Incomplete(c)
    \/ DefineMountUnit(c) \/ DefineAutomountUnit(c)
    \/ DefineFails(c) \/ DefineCleanup(c)
    \/ UndefineMountUnit(c) \/ UndefineAutomountUnit(c)

Next ==
    \/ \E f \in FrontEnds :
          \/ \E u \in Units, a \in AddAuths : SubmitAdd(f, u, a)
          \/ UserLockUnavailable(f)
          \/ RequestStart(f) \/ RequestEnd(f) \/ FrontEndCrash(f)
    \/ \E f \in Lists : ListStep(f)
    \/ \E f \in Dialogs, i \in Ids : SubmitExisting(f, i)
    \/ \E c \in calls : HelperStep(c) \/ ReplyLost(c) \/ HelperDies(c)
    \/ \E i \in Ids : EditRecord(i)

Spec == Init /\ [][Next]_vars

\* The helper and the workers are scheduled; flock does not pass over one
\* waiter for ever.  A polkit prompt that nobody answers times out, which is
\* a Refuse.  The user owes nothing: no request and no refresh.
Fairness ==
    /\ WF_vars(\E c \in calls : HelperStep(c))
    /\ \A f \in FrontEnds : SF_vars(RequestStart(f)) /\ WF_vars(RequestEnd(f))

FairSpec == Spec /\ Fairness

-----------------------------------------------------------------------------
(* Properties.                                                             *)

Recorded(i) == record[i] # None

\* In this step the request of f, of this kind, takes its record away.
Unrecords(f, kind) ==
    /\ op[f].kind = kind /\ op[f].step = "store"
    /\ Recorded(op[f].id) /\ record'[op[f].id] = None

\* What the removal a row offers says about its share is so.
Truthful(row) ==
    CASE row.kind = "delete" ->
            /\ record[row.id] \in Record
            /\ record[row.id].unit = row.unit /\ Defines(row.unit, row.id)
      [] row.kind = "removeOrphan" ->
            Owned(row.unit) /\ ~Recorded(MarkerAt(row.unit).id)
      [] row.kind = "removeRecord" ->
            /\ Recorded(row.id)
            /\ \/ record[row.id] \in Corrupt
               \/ ~Defines(record[row.id].unit, row.id)
               \/ record[row.id].auth # MarkerAt(record[row.id].unit).auth
      [] OTHER -> TRUE

\* Whatever a refresh has put together, from units, records or both, a row lets
\* its definition be removed exactly when the helper's own gate would accept
\* that for the runtime snapshot the row carries: the rules are written apart,
\* in session/mountmodel and root/arming, and must agree.
OffersWhatHelperAccepts ==
    \A f \in Lists : \A r \in scan[f].rows :
        r.class.canDefinition <=> HelperAccepts(r)

\* A refresh during which nothing changes shows every definition of the user
\* and every record, and each row offers a removal that fits: delete for a
\* definition with its record, removeOrphan for one without, removeRecord
\* for a record that is corrupt, contradicted or without its definition.
\* (MountModel::computeRefresh, the merge of its sources and rowRemoval.)
ViewFaithful ==
    [][\A f \in Lists :
          scan[f].step = "inventory" /\ scan'[f].step = "none" /\ f \notin overlapped =>
              /\ \A u \in Units : Owned(u) =>
                    \E row \in view'[f] : row.unit = u /\ row.id = MarkerAt(u).id
              /\ \A i \in Ids : Recorded(i) => \E row \in view'[f] : row.id = i
              /\ \A row \in view'[f] : Truthful(row)]_vars

\* A delete takes a record away only once the definition it names is gone,
\* whatever became of the helper's reply (deleteShare: neither a confirmed
\* failure nor an unknown result may remove the Store record).
DeleteKeepsRecord ==
    [][\A f \in FrontEnds : Unrecords(f, "delete") =>
          ~ \E u \in Units : Defines(u, op[f].id)]_vars

\* A request that waits for the user lock or holds it comes to an end: no
\* lost reply, dead helper or dead front end blocks the others for ever
\* (UserLock is released with the result, or by the kernel).
RequestsFinish ==
    \A f \in FrontEnds :
        op[f].step # "idle" ~> op[f].step = "idle"

\* A delete concerns one share: a complete definition its helper call takes
\* away carries the id it was asked to delete (Store: records are keyed by
\* id, so that deleting one share cannot revoke another).
DeleteConcernsOneShare ==
    [][\A c \in calls :
          /\ c.from # None /\ op[c.from].kind = "delete"
          /\ c.step = "sent" /\ [c EXCEPT !.step = "first"] \in calls'
          /\ DefinitionAt(c.unit) = "Pair"
          => MarkerAt(c.unit).id = op[c.from].id]_vars
=============================================================================
