----------------------------- MODULE SessionProofs -----------------------------
(* Theorems about MountModel's rules, for every row, and about Session, for   *)
(* any front ends, mount points, ids, runtimes, number of calls and faults.   *)
EXTENDS Session, TLAPS

-----------------------------------------------------------------------------
(* The rules of a row.                                                       *)

\* A row never offers the definition and the record alone for removal at the
\* same time, so that one button can stand for either (mountmodel.h: classifyRow
\* never sets both canRemove flags).
OneRemoval ==
    \A in \in RowInput : ~(classifyRow(in).canDefinition /\ classifyRow(in).canRecord)

\* The definition's state decides which part of classifyRow is reached.
LEMMA Definitions ==
    ASSUME NEW in \in RowInput
    PROVE  in.definition \in {"None", "Pair", "Partial", "Tampered", "NotOurs"}
BY DEF RowInput

\* Nothing that is not this user's own definition is offered for removal, and
\* nothing whose record is in doubt.
LEMMA NotRemovable ==
    ASSUME NEW in \in RowInput,
           \/ in.definition \in {"None", "Tampered", "NotOurs"}
           \/ in.drift \/ in.corrupt
    PROVE  ~classifyRow(in).canDefinition
<1>1. CASE in.definition = "None"
      BY <1>1 DEF classifyRow, Class, PairState
<1>2. CASE in.definition \in {"Tampered", "NotOurs"}
      BY <1>2 DEF classifyRow, Class, PairState
<1>3. CASE in.definition \in {"Pair", "Partial"}
      BY <1>3 DEF classifyRow, Class, PairState
<1>4. QED  BY <1>1, <1>2, <1>3, Definitions

\* A definition in good order with its record is offered for removal exactly
\* when the runtime gate is open.
LEMMA GateDecides ==
    ASSUME NEW in \in RowInput,
           in.definition \in {"Pair", "Partial"}, ~in.drift, ~in.corrupt
    PROVE  /\ ~classifyRow(in).canRecord
           /\ classifyRow(in).canDefinition <=>
                 evaluateStopPrecheck(in.runtime) \in {"ShouldStop", "AlreadyInactive"}
<1>1. CASE in.runtime.mount = "Indeterminate" \/ in.runtime.automount = "Indeterminate"
      BY <1>1 DEF classifyRow, Class, PairState, evaluateStopPrecheck
<1>2. CASE /\ in.runtime.mount # "Indeterminate" /\ in.runtime.automount # "Indeterminate"
           /\ in.runtime.mount = "Present"
      BY <1>2 DEF classifyRow, Class, PairState, evaluateStopPrecheck
<1>3. CASE /\ in.runtime.mount # "Indeterminate" /\ in.runtime.automount # "Indeterminate"
           /\ in.runtime.mount # "Present"
      BY <1>3 DEF classifyRow, Class, PairState, evaluateStopPrecheck
<1>4. QED  BY <1>1, <1>2, <1>3

\* The list's rules and the helper's stop gate agree on every input: classifyRow
\* offers to remove a definition exactly when safeStop's precheck would let it go.
THEOREM ListAgreesWithHelper ==
    \A in \in RowInput : classifyRow(in).canDefinition <=> HelperAccepts(in)
<1>1. SUFFICES ASSUME NEW in \in RowInput
      PROVE classifyRow(in).canDefinition <=>
               /\ in.definition \in {"Pair", "Partial"}
               /\ ~in.drift /\ ~in.corrupt
               /\ evaluateStopPrecheck(in.runtime) \in {"ShouldStop", "AlreadyInactive"}
      BY DEF HelperAccepts
<1>2. CASE in.definition \in {"Pair", "Partial"} /\ ~in.drift /\ ~in.corrupt
      BY <1>2, GateDecides
<1>3. CASE ~(in.definition \in {"Pair", "Partial"} /\ ~in.drift /\ ~in.corrupt)
      BY <1>3, NotRemovable, Definitions
<1>4. QED  BY <1>2, <1>3

\* One removal per row, for every input.
THEOREM RowOffersOneRemoval == OneRemoval
<1>1. SUFFICES ASSUME NEW in \in RowInput
      PROVE ~(classifyRow(in).canDefinition /\ classifyRow(in).canRecord)
      BY DEF OneRemoval
<1>2. CASE in.definition \in {"Pair", "Partial"} /\ ~in.drift /\ ~in.corrupt
      BY <1>2, GateDecides
<1>3. CASE ~(in.definition \in {"Pair", "Partial"} /\ ~in.drift /\ ~in.corrupt)
      BY <1>3, NotRemovable, Definitions
<1>4. QED  BY <1>2, <1>3

-----------------------------------------------------------------------------
(* The inductive invariant.                                                  *)

\* A half of the definition at u carries the id i.
HasHalf(u, i) ==
    \/ mountUnit[u] \in Marker /\ mountUnit[u].id = i
    \/ automountUnit[u] \in Marker /\ automountUnit[u].id = i

\* The mount points at which there is a half with an id.
Where == [i \in Ids |-> {u \in Units : HasHalf(u, i)}]

\* The id is spent, and no half with it is anywhere but at u; or anywhere.
HomeIs(i, u) == i \in usedIds /\ Where[i] \subseteq {u}
NoHalf(i) == i \in usedIds /\ Where[i] = {}

\* The halves are the user's own or another tool's, never one of each, and an id
\* is at one mount point.
FilesKnown ==
    /\ \A u \in Units :
          /\ mountUnit[u] \in Marker \cup {None, Unmarked}
          /\ automountUnit[u] \in Marker \cup {None}
          /\ mountUnit[u] \in Marker => mountUnit[u].owner = Me
          /\ mountUnit[u] = Unmarked => automountUnit[u] = None
          /\ automountUnit[u] \in Marker =>
                 automountUnit[u].owner = Me /\ mountUnit[u] \in {None, automountUnit[u]}
    /\ \A i \in Ids : \A u \in Where[i] : HomeIs(i, u)

\* A record names a spent id, and the mount point its definition was made at.
RecordsKnown ==
    \A i \in Ids : /\ record[i] # None => i \in usedIds
                   /\ record[i] # None /\ record[i].unit \in Units => HomeIs(i, record[i].unit)

\* What a request works on; once a delete goes on to the Store its definition is
\* gone.
RequestKnown(f) ==
    LET o == op[f] IN
    /\ o.kind = "add" => o.unit \in Units
    /\ o.kind \in {"delete", "removeRecord"} => o.id \in Ids
    /\ o.step = "store" /\ o.kind = "add" => HomeIs(o.id, o.unit)
    /\ o.step = "store" /\ o.kind = "delete" => NoHalf(o.id)

\* What a call has done so far, and what its front end waits for.
CallKnown(c) ==
    /\ c.kind = "define" => c.unit \in Units
    /\ c.step # "sent" => c.unit \in Units
    /\ c.step = "undo" => c.kind = "define"
    /\ c.kind = "define" /\ c.step # "sent" => HomeIs(c.id, c.unit)
    /\ c.kind = "define" /\ c.step = "first" => mountUnit[c.unit] \in Marker
    /\ c.kind = "undefine" /\ c.step \in {"first", "second"} => mountUnit[c.unit] = None
    /\ c.kind = "undefine" /\ c.step = "second" => automountUnit[c.unit] = None
    /\ c.from # None =>
          LET o == op[c.from] IN
          /\ o.step = "wait" /\ (c.kind = "define" <=> o.kind = "add")
          /\ o.kind = "add" => c.unit = o.unit
          /\ o.kind = "delete" => c.unit = None \/ HomeIs(o.id, c.unit)

\* A front end waits for one call, and the root lock lets one run.
OneCall ==
    \A c, d \in calls :
        \/ c = d
        \/ /\ c.from # d.from \/ c.from = None
           /\ c.step = "sent" \/ d.step = "sent"

\* A row agrees with the helper's gate from the scan on, and what names a record
\* has an id.
RowKnown(r) ==
    /\ r.class.canDefinition <=> HelperAccepts(r)
    /\ r.hasRecord => r.id \in Ids

ListKnown(f) ==
    /\ \A r \in scan[f].rows : RowKnown(r)
    /\ scan[f].step = "store" => \A r \in scan[f].rows : ~r.drift /\ ~r.corrupt
    /\ \A row \in view[f] : row.kind \in {"delete", "removeRecord"} => row.id \in Ids

Requests == \A f \in FrontEnds : RequestKnown(f)
Calls == \A c \in calls : CallKnown(c)
ListsKnown == \A f \in Lists : ListKnown(f)

SessionInv ==
    /\ TypeOK /\ FilesKnown /\ RecordsKnown /\ Requests /\ Calls /\ OneCall /\ ListsKnown

-----------------------------------------------------------------------------
(* Unit files: a spent id appears nowhere anew.                              *)

\* What a step may do to the unit files.
Stable == usedIds \subseteq usedIds' /\ \A i \in usedIds : Where'[i] \subseteq Where[i]

\* Whatever leaves the unit files alone keeps what is known of them.
LEMMA FilesFrame ==
    ASSUME FilesKnown, UNCHANGED disk
    PROVE  FilesKnown' /\ Stable
<1>1. Where' = Where
    BY DEF disk, Where, HasHalf
<1> QED
    BY <1>1 DEF disk, FilesKnown, Stable, HomeIs

\* What is known of a request outlasts every step that leaves it alone.
LEMMA RequestStays ==
    ASSUME NEW f \in FrontEnds, RequestKnown(f), Stable, op'[f] = op[f]
    PROVE  RequestKnown(f)'
BY DEF RequestKnown, Stable, HomeIs, NoHalf

\* So does what is known of a call, while its unit files and its front end's
\* request stay as they are.
LEMMA CallStays ==
    ASSUME NEW c \in Call, CallKnown(c), Stable,
           c.step \in {"first", "second"} =>
               mountUnit'[c.unit] = mountUnit[c.unit] /\ automountUnit'[c.unit] = automountUnit[c.unit],
           c.from # None => op'[c.from] = op[c.from]
    PROVE  CallKnown(c)'
BY DEF CallKnown, Stable, HomeIs

\* A front end that does not wait has no call outstanding, and what it does
\* leaves the calls of the others alone.
LEMMA OthersWait ==
    ASSUME TypeOK, Calls, Stable, UNCHANGED <<mountUnit, automountUnit>>,
           NEW f \in FrontEnds, op[f].step # "wait",
           \A g \in FrontEnds \ {f} : op'[g] = op[g]
    PROVE  \A c \in calls : c.from # f /\ CallKnown(c)'
<1> SUFFICES ASSUME NEW c \in calls
             PROVE  c.from # f /\ CallKnown(c)'
    OBVIOUS
<1>1. c \in Call /\ CallKnown(c)
    BY DEF TypeOK, Calls
<1>2. c.from # f
    BY <1>1, SessionConstants DEF CallKnown
<1>3. c.from # None => op'[c.from] = op[c.from]
    BY <1>1, <1>2 DEF Call
<1> QED
    BY <1>1, <1>2, <1>3, CallStays

\* One front end's request changes, no other's.
LEMMA RequestsFrame ==
    ASSUME Requests, Stable, NEW f \in FrontEnds, RequestKnown(f)',
           \A g \in FrontEnds \ {f} : op'[g] = op[g]
    PROVE  Requests'
BY RequestStays DEF Requests

\* A request that is made names what it works on.
LEMMA SubmitKeeps ==
    ASSUME SessionInv, NEW f \in FrontEnds, NEW request \in Op, Submit(f, request),
           request.kind = "add" => request.unit \in Units,
           request.kind \in {"delete", "removeRecord"} => request.id \in Ids
    PROVE  SessionInv'
<1>1. /\ UNCHANGED <<disk, record, userLock, calls, list>>
      /\ op[f].step = "idle"
      /\ op' = [op EXCEPT ![f] = [request EXCEPT !.step = "lock"]]
    BY DEF Submit
<1>2. [request EXCEPT !.step = "lock"] \in Op
    BY DEF Op
<1>3. op' \in [FrontEnds -> Op] /\ op'[f] = [request EXCEPT !.step = "lock"]
    BY <1>1, <1>2 DEF SessionInv, TypeOK
<1>4. \A g \in FrontEnds \ {f} : op'[g] = op[g]
    BY <1>1 DEF SessionInv, TypeOK
<1>5. FilesKnown' /\ Stable
    BY <1>1, FilesFrame DEF SessionInv
<1>6. TypeOK'
    BY <1>1, <1>3 DEF SessionInv, TypeOK, disk, list
<1>7. RequestKnown(f)'
    BY <1>3 DEF RequestKnown, Op
<1>8. Calls'
    BY <1>1, <1>4, <1>5, OthersWait DEF SessionInv, Calls, disk
<1>9. RecordsKnown' /\ OneCall' /\ ListsKnown'
    BY <1>1, <1>5 DEF SessionInv, RecordsKnown, OneCall, ListsKnown, ListKnown, list, Stable, HomeIs
<1> QED
    BY <1>4, <1>5, <1>6, <1>7, <1>8, <1>9, RequestsFrame DEF SessionInv

\* A call is sent by a request that waits for no other; a delete sends it to the
\* home of its id.
LEMMA InvokeKeeps ==
    ASSUME SessionInv, NEW f \in FrontEnds, op[f].step = "lock",
           NEW kind \in {"define", "undefine"}, NEW u \in Units \cup {None}, Invoke(f, kind, u),
           kind = "define" <=> op[f].kind = "add",
           op[f].kind = "add" => u = op[f].unit,
           op[f].kind = "delete" => u = None \/ HomeIs(op[f].id, u)
    PROVE  SessionInv'
<1> DEFINE new == [from |-> f, kind |-> kind, step |-> "sent", id |-> None,
                   unit |-> u, auth |-> op[f].auth]
<1>1. /\ UNCHANGED <<disk, record, list>> /\ userLock' = f
      /\ op' = [op EXCEPT ![f].step = "wait"]
      /\ calls' = calls \cup {new}
    BY DEF Invoke, GoTo
<1>2. op[f] \in Op
    BY DEF SessionInv, TypeOK
<1>3. new \in Call
    BY <1>2 DEF Op, Call
<1>4. [op[f] EXCEPT !.step = "wait"] \in Op
    BY <1>2 DEF Op
<1>5. op' \in [FrontEnds -> Op] /\ op'[f] = [op[f] EXCEPT !.step = "wait"]
    BY <1>1, <1>4 DEF SessionInv, TypeOK
<1>6. \A g \in FrontEnds \ {f} : op'[g] = op[g]
    BY <1>1 DEF SessionInv, TypeOK
<1>7. FilesKnown' /\ Stable
    BY <1>1, FilesFrame DEF SessionInv
<1>8. TypeOK'
    BY <1>1, <1>3, <1>5 DEF SessionInv, TypeOK, disk, list
<1>9. RequestKnown(f)'
    BY <1>5, <1>2 DEF SessionInv, Requests, RequestKnown, Op
<1>10. \A c \in calls : c.from # f /\ CallKnown(c)'
    BY <1>1, <1>6, <1>7, OthersWait DEF SessionInv, disk
<1>11. CallKnown(new)'
  <2>1. kind = "define" => u \in Units
      BY DEF SessionInv, Requests, RequestKnown
  <2>2. op[f].kind = "delete" =>
            u = None \/ (op[f].id \in usedIds' /\ Where'[op[f].id] \subseteq {u})
      BY <1>7 DEF HomeIs, Stable
  <2>3. op'[f].step = "wait" /\ op'[f].kind = op[f].kind /\ op'[f].unit = op[f].unit /\ op'[f].id = op[f].id
      BY <1>5, <1>2 DEF Op
  <2> QED
      BY <2>1, <2>2, <2>3 DEF CallKnown, HomeIs
<1>12. Calls' /\ OneCall'
    BY <1>1, <1>10, <1>11 DEF SessionInv, Calls, OneCall
<1>13. RecordsKnown' /\ ListsKnown'
    BY <1>1, <1>7 DEF SessionInv, RecordsKnown, ListsKnown, ListKnown, list, Stable, HomeIs
<1> QED
    BY <1>6, <1>7, <1>8, <1>9, <1>12, <1>13, RequestsFrame DEF SessionInv

\* A request that ends, whatever the reason, leaves nothing to know, and a list
\* starts again with no rows.
LEMMA FinishFrame ==
    ASSUME SessionInv, NEW f \in FrontEnds, Finish(f)
    PROVE  /\ op' \in [FrontEnds -> Op] /\ op'[f] = NoOp
           /\ \A g \in FrontEnds \ {f} : op'[g] = op[g]
           /\ userLock' \in FrontEnds \cup {None}
           /\ scan' \in [Lists -> Scan] /\ view' = view
           /\ RequestKnown(f)' /\ ListsKnown'
<1>1. /\ op' = [op EXCEPT ![f] = NoOp]
      /\ scan' = [g \in Lists |-> IF g = f THEN FreshScan ELSE scan[g]] /\ view' = view
      /\ userLock' \in {userLock, None}
    BY DEF Finish, Restart
<1>2. NoOp \in Op
    BY DEF NoOp, Op, Auths
<1>3. FreshScan \in Scan
    BY DEF FreshScan, Scan
<1>4. op' \in [FrontEnds -> Op] /\ op'[f] = NoOp
    BY <1>1, <1>2 DEF SessionInv, TypeOK
<1>5. scan' \in [Lists -> Scan]
    BY <1>1, <1>3 DEF SessionInv, TypeOK
<1>6. RequestKnown(f)'
    BY <1>4 DEF RequestKnown, NoOp
<1>7. ListsKnown'
    BY <1>1 DEF SessionInv, ListsKnown, ListKnown, FreshScan
<1> QED
    BY <1>1, <1>4, <1>5, <1>6, <1>7 DEF SessionInv, TypeOK

\* A request that ends without a call to wait for, having done at most its part
\* of the Store's work.
LEMMA EndKeeps ==
    ASSUME SessionInv, NEW f \in FrontEnds, op[f].step # "wait", Finish(f), UNCHANGED <<disk, calls>>,
           record' \in [Ids -> Record \cup Corrupt \cup {None}], RecordsKnown',
           overlapped' \subseteq Lists
    PROVE  SessionInv'
<1>1. FilesKnown' /\ Stable
    BY FilesFrame DEF SessionInv
<1>2. Calls'
    BY <1>1, FinishFrame, OthersWait DEF SessionInv, Calls, disk
<1>3. TypeOK'
    BY FinishFrame DEF SessionInv, TypeOK, disk
<1>4. Requests'
    BY <1>1, FinishFrame, RequestsFrame DEF SessionInv
<1>5. OneCall'
    BY DEF SessionInv, OneCall
<1> QED
    BY <1>1, <1>2, <1>3, <1>4, <1>5, FinishFrame DEF SessionInv

\* A request that ends early has touched nothing.
LEMMA EndEarlyKeeps ==
    ASSUME SessionInv, NEW f \in FrontEnds, op[f].step # "wait", EndEarly(f)
    PROVE  SessionInv'
<1>1. Finish(f) /\ UNCHANGED <<disk, record, calls, overlapped>>
    BY DEF EndEarly
<1>2. RecordsKnown'
    BY <1>1 DEF SessionInv, RecordsKnown, HomeIs, Where, HasHalf, disk
<1>3. record' \in [Ids -> Record \cup Corrupt \cup {None}] /\ overlapped' \subseteq Lists
    BY <1>1 DEF SessionInv, TypeOK
<1>4. UNCHANGED <<disk, calls>>
    BY <1>1
<1> QED
    BY <1>1, <1>2, <1>3, <1>4, EndKeeps

\* An answer reaches the front end that waits for it, if any does; after a
\* confirmed undefine of the home of its id a delete finds no half left.
LEMMA DeliverKeeps ==
    ASSUME SessionInv, NEW c \in calls, NEW outcome,
           outcome = "ConfirmedSuccess" => c.step = "second",
           Deliver(c, outcome), UNCHANGED <<disk, record>>,
           calls' = calls \ {c} \/ calls' = (calls \ {c}) \cup {[c EXCEPT !.from = None]}
    PROVE  SessionInv'
<1> DEFINE left == [c EXCEPT !.from = None]
<1>1. c \in Call /\ CallKnown(c) /\ left \in Call
    BY DEF SessionInv, TypeOK, Calls, Call
<1>2. FilesKnown' /\ Stable
    BY FilesFrame DEF SessionInv
<1>3. RecordsKnown'
    BY <1>2 DEF SessionInv, RecordsKnown, HomeIs, Stable
<1>4. calls' \subseteq Call
    BY <1>1 DEF SessionInv, TypeOK
<1>5. OneCall'
  <2>1. /\ left.from = None /\ left.step = c.step
      BY <1>1 DEF Call
  <2> QED
      BY <2>1 DEF SessionInv, OneCall
<1>6. /\ op' \in [FrontEnds -> Op] /\ userLock' \in FrontEnds \cup {None}
      /\ scan' \in [Lists -> Scan] /\ UNCHANGED <<view, overlapped>>
      /\ \A g \in FrontEnds : g # c.from => op'[g] = op[g]
      /\ c.from \in FrontEnds => RequestKnown(c.from)'
      /\ ListsKnown'
  <2>1. CASE c.from = None
    <3>1. UNCHANGED <<op, userLock, scan, view, overlapped>>
        BY <2>1, SessionConstants DEF Deliver, front, list
    <3>2. c.from \notin FrontEnds
        BY <2>1, SessionConstants
    <3> QED
        BY <3>1, <3>2 DEF SessionInv, TypeOK, ListsKnown, ListKnown
  <2>2. CASE c.from # None /\ GoesOn(op[c.from].kind, outcome)
    <3> DEFINE f == c.from
    <3>1. f \in FrontEnds /\ op[f] \in Op
        BY <1>1, <2>2 DEF Call, SessionInv, TypeOK
    <3>2. /\ op' = [op EXCEPT ![f].step = "store",
                              ![f].id = IF c.kind = "define" THEN c.id ELSE @]
          /\ UNCHANGED <<userLock, list>>
        BY <2>2 DEF Deliver
    <3>3. op[f].kind \in {"add", "delete"} /\ c.step = "second"
        BY <2>2 DEF GoesOn
    <3>4. op' \in [FrontEnds -> Op]
          /\ op'[f] = [op[f] EXCEPT !.step = "store", !.id = IF c.kind = "define" THEN c.id ELSE @]
        BY <1>1, <3>1, <3>2 DEF SessionInv, TypeOK, Op, Call
    <3>5. /\ c.kind = "define" <=> op[f].kind = "add"
          /\ op[f].kind = "add" => c.unit = op[f].unit /\ HomeIs(c.id, c.unit)
          /\ op[f].kind = "delete" => c.unit \in Units /\ HomeIs(op[f].id, c.unit)
          /\ op[f].kind = "delete" => mountUnit[c.unit] = None /\ automountUnit[c.unit] = None
        BY <1>1, <2>2, <3>3, SessionConstants DEF CallKnown, Call
    <3>6. op[f].kind = "delete" => NoHalf(op[f].id)
      <4>1. SUFFICES ASSUME op[f].kind = "delete" PROVE NoHalf(op[f].id)
          OBVIOUS
      <4>2. ~HasHalf(c.unit, op[f].id)
          BY <3>5, <4>1, SentinelsDistinct DEF HasHalf
      <4>3. op[f].id \in Ids
          BY <3>1, <4>1 DEF SessionInv, Requests, RequestKnown
      <4> QED
          BY <3>5, <4>1, <4>2, <4>3 DEF HomeIs, NoHalf, Where
    <3>7. RequestKnown(f)'
      <4>1. /\ op'[f].kind = op[f].kind /\ op'[f].unit = op[f].unit
            /\ op'[f].id = IF c.kind = "define" THEN c.id ELSE op[f].id
          BY <3>1, <3>4 DEF Op
      <4>2. RequestKnown(f)
          BY <3>1 DEF SessionInv, Requests
      <4> QED
          BY <1>2, <3>3, <3>5, <3>6, <4>1, <4>2 DEF RequestKnown, HomeIs, NoHalf, Stable
    <3>8. \A g \in FrontEnds : g # f => op'[g] = op[g]
        BY <3>2 DEF SessionInv, TypeOK
    <3>9. ListsKnown'
        BY <3>2 DEF list, SessionInv, ListsKnown, ListKnown
    <3> QED
        BY <3>2, <3>4, <3>7, <3>8, <3>9 DEF list, SessionInv, TypeOK
  <2>3. CASE c.from # None /\ ~GoesOn(op[c.from].kind, outcome)
    <3>1. c.from \in FrontEnds
        BY <1>1, <2>3 DEF Call
    <3>2. Finish(c.from) /\ UNCHANGED overlapped
        BY <2>3 DEF Deliver
    <3> QED
        BY <3>1, <3>2, FinishFrame
  <2> QED
      BY <2>1, <2>2, <2>3
<1>7. TypeOK'
    BY <1>4, <1>6 DEF SessionInv, TypeOK, disk
<1>8. Requests'
    BY <1>2, <1>6, RequestStays DEF SessionInv, Requests
<1>9. Calls'
  <2>1. ASSUME NEW d \in calls, d # c
        PROVE  CallKnown(d)'
    <3>1. d \in Call /\ CallKnown(d)
        BY DEF SessionInv, TypeOK, Calls
    <3>2. d.from # None => d.from # c.from
        BY <2>1 DEF SessionInv, OneCall
    <3>3. d.from # None => op'[d.from] = op[d.from]
        BY <3>1, <3>2, <1>6 DEF Call
    <3> QED
        BY <1>2, <3>1, <3>3, CallStays DEF disk
  <2>2. CallKnown(left)
    <3>1. /\ left.from = None /\ left.step = c.step /\ left.kind = c.kind
          /\ left.unit = c.unit /\ left.id = c.id
        BY <1>1 DEF Call
    <3> QED
        BY <1>1, <3>1 DEF CallKnown
  <2>3. CallKnown(left)'
      BY <1>1, <1>2, <2>2, CallStays DEF disk, Call
  <2> QED
      BY <2>1, <2>3 DEF Calls
<1> QED
    BY <1>2, <1>3, <1>5, <1>6, <1>7, <1>8, <1>9 DEF SessionInv

-----------------------------------------------------------------------------
(* The helper's steps.                                                       *)

\* A call that runs, or that may start, finds every other one waiting.
LEMMA RunsAlone ==
    ASSUME SessionInv, NEW c \in calls, c.step # "sent" \/ MayStart(c)
    PROVE  \A e \in calls \ {c} : e.step = "sent"
BY DEF SessionInv, OneCall, MayStart

\* One call moves and writes the unit files of its mount point.
LEMMA AdvanceKeeps ==
    ASSUME SessionInv, NEW c \in calls, NEW d \in Call, NEW m \in UnitFile, NEW a \in UnitFile,
           Advance(c, d, m, a), c.step # "sent" \/ MayStart(c), d.from = c.from,
           usedIds' \subseteq Ids, FilesKnown', Stable, CallKnown(d)'
    PROVE  SessionInv'
<1>1. /\ calls' = (calls \ {c}) \cup {d} /\ UNCHANGED <<record, op, userLock, scan, view>>
      /\ mountUnit' = [mountUnit EXCEPT ![c.unit] = m]
      /\ automountUnit' = [automountUnit EXCEPT ![c.unit] = a]
      /\ overlapped' \subseteq overlapped \cup Lists
    BY DEF Advance, Overlap, front
<1>2. TypeOK'
    BY <1>1 DEF SessionInv, TypeOK
<1>3. Requests'
    BY <1>1, RequestStays DEF SessionInv, Requests
<1>4. RecordsKnown' /\ ListsKnown'
    BY <1>1 DEF SessionInv, RecordsKnown, ListsKnown, ListKnown, Stable, HomeIs
<1>5. \A e \in calls \ {c} : e.step = "sent"
    BY RunsAlone
<1>6. OneCall'
    BY <1>1, <1>5 DEF SessionInv, OneCall
<1>7. \A e \in calls \ {c} : CallKnown(e)'
    BY <1>1, <1>5, CallStays DEF SessionInv, TypeOK, Calls
<1> QED
    BY <1>1, <1>2, <1>3, <1>4, <1>6, <1>7 DEF SessionInv, Calls

\* Writing, at one mount point, nothing but what one of its halves already was
\* brings no id to a new place.
LEMMA HalvesMove ==
    ASSUME TypeOK, FilesKnown, NEW u \in Units, NEW m \in {mountUnit[u], None}, NEW a,
           a \in {automountUnit[u], None} \/ (a = m /\ m \in Marker),
           mountUnit' = [mountUnit EXCEPT ![u] = m],
           automountUnit' = [automountUnit EXCEPT ![u] = a], UNCHANGED usedIds
    PROVE  /\ FilesKnown' /\ Stable /\ m \in UnitFile /\ a \in UnitFile
           /\ mountUnit'[u] = m /\ automountUnit'[u] = a
<1>1. /\ mountUnit'[u] = m /\ automountUnit'[u] = a
      /\ \A v \in Units \ {u} : mountUnit'[v] = mountUnit[v] /\ automountUnit'[v] = automountUnit[v]
    BY DEF TypeOK
<1>2. \A v \in Units :
          /\ mountUnit'[v] \in Marker \cup {None, Unmarked}
          /\ automountUnit'[v] \in Marker \cup {None}
          /\ mountUnit'[v] \in Marker => mountUnit'[v].owner = Me
          /\ mountUnit'[v] = Unmarked => automountUnit'[v] = None
          /\ automountUnit'[v] \in Marker =>
                 automountUnit'[v].owner = Me /\ mountUnit'[v] \in {None, automountUnit'[v]}
    BY <1>1, SentinelsDistinct DEF FilesKnown
<1>3. \A i : \A v \in Units : HasHalf(v, i)' => HasHalf(v, i)
    BY <1>1, SentinelsDistinct DEF HasHalf
<1>4. \A i \in Ids : Where'[i] \subseteq Where[i]
    BY <1>3 DEF Where
<1>5. Stable
    BY <1>4 DEF Stable, TypeOK
<1>6. \A i \in Ids : \A v \in Where'[i] : i \in usedIds' /\ Where'[i] \subseteq {v}
    BY <1>4 DEF FilesKnown, HomeIs
<1>7. FilesKnown'
    BY <1>2, <1>6 DEF FilesKnown, HomeIs
<1>8. m \in UnitFile /\ a \in UnitFile
    BY DEF TypeOK, UnitFile, FilesKnown
<1> QED
    BY <1>1, <1>5, <1>7, <1>8

\* define writes a mount unit where there was nothing, with an id never used.
LEMMA DefineMountUnitKeeps ==
    ASSUME SessionInv, NEW c \in calls, DefineMountUnit(c)
    PROVE  SessionInv'
<1>1. c \in Call /\ CallKnown(c) /\ c.kind = "define" /\ c.step = "sent" /\ c.unit \in Units
    BY DEF SessionInv, TypeOK, Calls, DefineMountUnit, MayStart, CallKnown
<1>2. PICK i \in Ids \ usedIds :
          /\ usedIds' = usedIds \cup {i}
          /\ Advance(c, [c EXCEPT !.step = "first", !.id = i],
                     [owner |-> Me, id |-> i, auth |-> c.auth], None)
    BY DEF DefineMountUnit
<1> DEFINE u == c.unit
           m == [owner |-> Me, id |-> i, auth |-> c.auth]
           d == [c EXCEPT !.step = "first", !.id = i]
<1>3. m \in Marker
    BY <1>1, SessionConstants DEF Call, Marker
<1>4. mountUnit[u] = None /\ automountUnit[u] = None
    BY <1>1 DEF DefineMountUnit, DefinitionAt, inspectDefinition, SideState
<1>5. /\ mountUnit' = [mountUnit EXCEPT ![u] = m] /\ automountUnit' = [automountUnit EXCEPT ![u] = None]
      /\ UNCHANGED op
    BY <1>2 DEF Advance, front
<1>6. /\ mountUnit'[u] = m /\ automountUnit'[u] = None
      /\ \A v \in Units \ {u} : mountUnit'[v] = mountUnit[v] /\ automountUnit'[v] = automountUnit[v]
    BY <1>1, <1>5 DEF SessionInv, TypeOK
<1>7. \A v \in Units :
          /\ mountUnit'[v] \in Marker \cup {None, Unmarked}
          /\ automountUnit'[v] \in Marker \cup {None}
          /\ mountUnit'[v] \in Marker => mountUnit'[v].owner = Me
          /\ mountUnit'[v] = Unmarked => automountUnit'[v] = None
          /\ automountUnit'[v] \in Marker =>
                 automountUnit'[v].owner = Me /\ mountUnit'[v] \in {None, automountUnit'[v]}
    BY <1>3, <1>6, SentinelsDistinct DEF SessionInv, FilesKnown
<1>8. \A j \in Ids : \A v \in Units : HasHalf(v, j)' <=> (IF v = u THEN j = i ELSE HasHalf(v, j))
    BY <1>3, <1>6, SentinelsDistinct DEF HasHalf
<1>9. ~ \E j \in Ids : HasHalf(u, j)
    BY <1>4, SentinelsDistinct DEF HasHalf
<1>10. ~ \E v \in Units : HasHalf(v, i)
    BY <1>2 DEF SessionInv, FilesKnown, HomeIs, Where
<1>11. Where'[i] = {u} /\ \A j \in Ids \ {i} : Where'[j] = Where[j]
    BY <1>1, <1>2, <1>8, <1>9, <1>10 DEF Where
<1>12. FilesKnown'
  <2>1. \A j \in Ids : \A v \in Where'[j] : j \in usedIds' /\ Where'[j] \subseteq {v}
      BY <1>2, <1>11 DEF SessionInv, FilesKnown, HomeIs
  <2> QED
      BY <1>7, <2>1 DEF FilesKnown, HomeIs
<1>13. Stable
    BY <1>2, <1>11 DEF Stable, SessionInv, TypeOK
<1>14. /\ d \in Call /\ d.from = c.from /\ d.step = "first" /\ d.kind = "define"
       /\ d.unit = u /\ d.id = i
    BY <1>1, <1>2 DEF Call
<1>15. CallKnown(d)'
    BY <1>1, <1>2, <1>3, <1>5, <1>6, <1>11, <1>14 DEF CallKnown, HomeIs
<1>16. usedIds' \subseteq Ids /\ m \in UnitFile /\ None \in UnitFile /\ MayStart(c)
    BY <1>2, <1>3 DEF SessionInv, TypeOK, UnitFile, DefineMountUnit
<1> QED
    BY <1>2, <1>12, <1>13, <1>14, <1>15, <1>16, AdvanceKeeps

\* What the other steps of a call have in common: they write only what one half
\* already was, and the call says so.
LEMMA MoveKeeps ==
    ASSUME SessionInv, NEW c \in calls, c.unit \in Units, c.step # "sent" \/ MayStart(c),
           NEW step \in {"first", "second", "undo"}, NEW m, NEW a, NEW d,
           d = [c EXCEPT !.step = step], m \in {mountUnit[c.unit], None},
           a \in {automountUnit[c.unit], None} \/ (a = m /\ m \in Marker),
           UNCHANGED usedIds, Advance(c, d, m, a),
           c.kind = "define" => c.step # "sent" /\ step # "first",
           c.kind = "undefine" => step # "undo" /\ m = None,
           c.kind = "undefine" /\ step = "second" => a = None
    PROVE  SessionInv'
<1> DEFINE u == c.unit
<1>1. c \in Call /\ CallKnown(c)
    BY DEF SessionInv, TypeOK, Calls
<1>2. /\ mountUnit' = [mountUnit EXCEPT ![u] = m] /\ automountUnit' = [automountUnit EXCEPT ![u] = a]
      /\ UNCHANGED op
    BY DEF Advance, front
<1>3. /\ FilesKnown' /\ Stable /\ m \in UnitFile /\ a \in UnitFile
      /\ mountUnit'[u] = m /\ automountUnit'[u] = a
    BY <1>2, HalvesMove DEF SessionInv
<1>4. /\ d \in Call /\ d.from = c.from /\ d.step = step /\ d.kind = c.kind
      /\ d.unit = u /\ d.id = c.id
    BY <1>1 DEF Call
<1>5. c.kind \in {"define", "undefine"} /\ step # "sent"
    BY <1>1 DEF Call
<1>6. c.kind = "define" => c.id \in usedIds' /\ Where'[c.id] \subseteq {u}
    BY <1>1, <1>3 DEF CallKnown, HomeIs, Stable
<1>7. c.from # None =>
          LET o == op[c.from] IN
          /\ o.step = "wait" /\ (c.kind = "define" <=> o.kind = "add")
          /\ o.kind = "add" => u = o.unit
          /\ o.kind = "delete" => u = None \/ (o.id \in usedIds' /\ Where'[o.id] \subseteq {u})
    BY <1>1, <1>3 DEF CallKnown, HomeIs, Stable
<1>8. CallKnown(d)'
    BY <1>2, <1>3, <1>4, <1>5, <1>6, <1>7 DEF CallKnown, HomeIs
<1>9. usedIds' \subseteq Ids
    BY DEF SessionInv, TypeOK
<1> QED
    BY <1>3, <1>4, <1>8, <1>9, AdvanceKeeps

\* The steps of a call that has started, and the first of an undefine.
LEMMA CallMovesKeep ==
    ASSUME SessionInv, NEW c \in calls,
           \/ DefineAutomountUnit(c) \/ DefineFails(c) \/ DefineCleanup(c)
           \/ UndefineMountUnit(c) \/ UndefineAutomountUnit(c)
    PROVE  SessionInv'
<1>1. c \in Call /\ CallKnown(c)
    BY DEF SessionInv, TypeOK, Calls
<1>2. CASE DefineAutomountUnit(c)
  <2>1. /\ c.kind = "define" /\ c.step = "first" /\ c.unit \in Units
        /\ mountUnit[c.unit] \in Marker
      BY <1>1, <1>2 DEF DefineAutomountUnit, CallKnown
  <2> QED
      BY <1>2, <2>1, MoveKeeps DEF DefineAutomountUnit
<1>3. CASE DefineFails(c)
  <2>1. c.kind = "define" /\ c.step \in {"first", "second"} /\ c.unit \in Units
      BY <1>1, <1>3 DEF DefineFails, CallKnown
  <2>2. PICK d : /\ d = [c EXCEPT !.step = "undo"] /\ UNCHANGED usedIds
                 /\ Advance(c, d, mountUnit[c.unit], automountUnit[c.unit])
      BY <1>3 DEF DefineFails
  <2> QED
      BY <2>1, <2>2, MoveKeeps
<1>4. CASE DefineCleanup(c)
  <2>1. c.kind = "define" /\ c.step = "undo" /\ c.unit \in Units
      BY <1>1, <1>4 DEF DefineCleanup, CallKnown, Call
  <2>2. c = [c EXCEPT !.step = "undo"]
      BY <1>1, <2>1 DEF Call
  <2>3. PICK m, a : /\ m \in {mountUnit[c.unit], None} /\ UNCHANGED usedIds
                    /\ a \in {automountUnit[c.unit], None}
                    /\ Advance(c, c, m, a)
      BY <1>4 DEF DefineCleanup
  <2> QED
      BY <2>1, <2>2, <2>3, MoveKeeps
<1>5. CASE UndefineMountUnit(c)
  <2>1. c.kind = "undefine" /\ c.unit \in Units /\ MayStart(c)
      BY <1>1, <1>5 DEF UndefineMountUnit, Call
  <2> QED
      BY <1>5, <2>1, MoveKeeps DEF UndefineMountUnit
<1>6. CASE UndefineAutomountUnit(c)
  <2>1. /\ c.kind = "undefine" /\ c.step = "first" /\ c.unit \in Units
        /\ mountUnit[c.unit] = None
      BY <1>1, <1>6 DEF UndefineAutomountUnit, CallKnown
  <2> QED
      BY <1>6, <2>1, MoveKeeps DEF UndefineAutomountUnit
<1> QED
    BY <1>2, <1>3, <1>4, <1>5, <1>6

\* The steps that answer.
LEMMA RepliesKeep ==
    ASSUME SessionInv, NEW c \in calls,
           Refuse(c) \/ Complete(c) \/ Incomplete(c) \/ ReplyLost(c) \/ HelperDies(c)
    PROVE  SessionInv'
<1>1. CASE \/ Refuse(c) \/ Incomplete(c) \/ HelperDies(c)
  <2>1. PICK outcome \in {"ConfirmedFailure", "Unknown"} : Reply(c, outcome)
      BY <1>1 DEF Refuse, Incomplete, HelperDies
  <2> QED
      BY <2>1, DeliverKeeps DEF Reply
<1>2. CASE Complete(c)
    BY <1>2, DeliverKeeps DEF Complete, Reply
<1>3. CASE ReplyLost(c)
    BY <1>3, DeliverKeeps DEF ReplyLost
<1> QED
    BY <1>1, <1>2, <1>3

-----------------------------------------------------------------------------
(* The front ends' steps.                                                    *)

\* A request is taken up: it ends early, calls the helper or goes to the Store.
LEMMA RequestStartKeeps ==
    ASSUME SessionInv, NEW f \in FrontEnds, RequestStart(f)
    PROVE  SessionInv'
<1>1. op[f] \in Op /\ op[f].step = "lock" /\ RequestKnown(f)
    BY DEF SessionInv, TypeOK, Requests, RequestStart, GetsUserLock,
           addShare, deleteShare, removeOrphanByPath, removeOrphanedRecord
<1>2. CASE addShare(f)
  <2>1. /\ op[f].kind = "add" /\ op[f].unit \in Units \cup {None}
        /\ Invoke(f, "define", op[f].unit)
      BY <1>1, <1>2 DEF addShare, GetsUserLock, Op
  <2> QED
      BY <1>1, <2>1, InvokeKeeps
<1>3. CASE deleteShare(f)
  <2> DEFINE rec == record[op[f].id]
  <2>1. op[f].kind = "delete" /\ op[f].id \in Ids
      BY <1>1, <1>3 DEF deleteShare, GetsUserLock, RequestKnown
  <2>2. CASE EndEarly(f)
      BY <1>1, <2>2, EndEarlyKeeps
  <2>3. CASE Invoke(f, "undefine", None)
      BY <1>1, <2>1, <2>3, InvokeKeeps
  <2>4. CASE rec # None /\ Invoke(f, "undefine", rec.unit) /\ rec.unit # None
    <3>1. rec.unit \in Units /\ HomeIs(op[f].id, rec.unit)
        BY <2>1, <2>4 DEF Record, Corrupt, SessionInv, TypeOK, RecordsKnown
    <3> QED
        BY <1>1, <2>1, <2>4, <3>1, InvokeKeeps
  <2> QED
      BY <1>3, <2>2, <2>3, <2>4 DEF deleteShare
<1>4. CASE removeOrphanByPath(f)
  <2>1. op[f].kind = "removeOrphan" /\ op[f].unit \in Units \cup {None}
      BY <1>1, <1>4 DEF removeOrphanByPath, GetsUserLock, Op
  <2>2. CASE EndEarly(f)
      BY <1>1, <2>2, EndEarlyKeeps
  <2>3. CASE Invoke(f, "undefine", op[f].unit)
      BY <1>1, <2>1, <2>3, InvokeKeeps
  <2> QED
      BY <1>4, <2>2, <2>3 DEF removeOrphanByPath
<1>5. CASE removeOrphanedRecord(f)
  <2>1. /\ op[f].kind = "removeRecord" /\ userLock' = f
        /\ op' = [op EXCEPT ![f].step = "store"]
        /\ UNCHANGED <<disk, record, calls, list>>
      BY <1>5 DEF removeOrphanedRecord, GetsUserLock, GoTo
  <2>2. [op[f] EXCEPT !.step = "store"] \in Op
      BY <1>1 DEF Op
  <2>3. op' \in [FrontEnds -> Op] /\ op'[f] = [op[f] EXCEPT !.step = "store"]
      BY <2>1, <2>2 DEF SessionInv, TypeOK
  <2>4. \A g \in FrontEnds \ {f} : op'[g] = op[g]
      BY <2>1 DEF SessionInv, TypeOK
  <2>5. FilesKnown' /\ Stable
      BY <2>1, FilesFrame DEF SessionInv
  <2>6. TypeOK'
      BY <2>1, <2>3 DEF SessionInv, TypeOK, disk, list
  <2>7. RequestKnown(f)'
      BY <1>1, <2>1, <2>3 DEF RequestKnown, Op
  <2>8. Calls'
      BY <1>1, <2>1, <2>4, <2>5, OthersWait DEF SessionInv, Calls, disk
  <2>9. RecordsKnown' /\ OneCall' /\ ListsKnown'
      BY <2>1, <2>5 DEF SessionInv, RecordsKnown, OneCall, ListsKnown, ListKnown, list, Stable, HomeIs
  <2> QED
      BY <2>4, <2>5, <2>6, <2>7, <2>8, <2>9, RequestsFrame DEF SessionInv
<1> QED
    BY <1>2, <1>3, <1>4, <1>5 DEF RequestStart

\* The Store's part: an add records where its definition was made, a removal
\* takes a record away.
LEMMA RequestEndKeeps ==
    ASSUME SessionInv, NEW f \in FrontEnds, RequestEnd(f)
    PROVE  SessionInv'
<1>1. /\ op[f] \in Op /\ op[f].step = "store" /\ RequestKnown(f)
      /\ op[f].kind \in {"add", "delete", "removeRecord"}
    BY DEF SessionInv, TypeOK, Requests, RequestEnd, commitShare, removeShare
<1>2. Finish(f) /\ UNCHANGED <<disk, calls>> /\ overlapped' \subseteq Lists
    BY DEF RequestEnd, commitShare, removeShare, Overlap, SessionInv, TypeOK
<1>3. UNCHANGED <<usedIds, Where>>
    BY <1>2 DEF disk, Where, HasHalf
<1>4. record \in [Ids -> Record \cup Corrupt \cup {None}]
    BY DEF SessionInv, TypeOK
<1> DEFINE i == op[f].id
           new == [unit |-> op[f].unit, auth |-> op[f].auth]
<1>5. op[f].kind = "add" => new \in Record /\ HomeIs(i, new.unit)
    BY <1>1 DEF RequestKnown, Op, Record
<1>6. \/ record' = record
      \/ op[f].kind = "add" /\ record' = [record EXCEPT ![i] = new]
      \/ record' = [record EXCEPT ![i] = None]
    BY DEF RequestEnd, commitShare, removeShare, StoreOutcome
<1>7. record' \in [Ids -> Record \cup Corrupt \cup {None}]
    BY <1>4, <1>5, <1>6
<1>8. \A j \in Ids : record'[j] \in {record[j], None} \/ (j = i /\ op[f].kind = "add" /\ record'[j] = new)
    BY <1>4, <1>6
<1>9. \A j \in Ids : /\ record'[j] # None => j \in usedIds
                     /\ record'[j] # None /\ record'[j].unit \in Units => j \in usedIds /\ Where[j] \subseteq {record'[j].unit}
    BY <1>5, <1>8, SessionConstants DEF SessionInv, RecordsKnown, HomeIs, Record
<1>10. RecordsKnown'
    BY <1>3, <1>9 DEF RecordsKnown, HomeIs
<1> QED
    BY <1>1, <1>2, <1>7, <1>10, EndKeeps

\* The requests a user makes: from a form, from a row with an id, or for a record.
LEMMA RequestsKeep ==
    ASSUME SessionInv, NEW f \in FrontEnds,
           \/ \E u \in Units, a \in AddAuths : SubmitAdd(f, u, a)
           \/ f \in Lists /\ \E row \in view[f] : SubmitRemoval(f, row)
           \/ \E i \in Ids : SubmitExisting(f, i)
    PROVE  SessionInv'
<1>1. NoOp \in Op
    BY DEF NoOp, Op, Auths
<1>2. ASSUME NEW u \in Units, NEW a \in AddAuths, SubmitAdd(f, u, a)
      PROVE  SessionInv'
  <2> DEFINE request == [NoOp EXCEPT !.kind = "add", !.unit = u, !.auth = a]
  <2>1. request \in Op /\ request.kind = "add" /\ request.unit = u
      BY <1>1, SessionConstants DEF Op
  <2>2. Submit(f, request)
      BY <1>2 DEF SubmitAdd
  <2> QED
      BY <2>1, <2>2, SubmitKeeps
<1>3. ASSUME f \in Lists, NEW row \in view[f], SubmitRemoval(f, row)
      PROVE  SessionInv'
  <2>1. row \in ShownRow /\ (row.kind \in {"delete", "removeRecord"} => row.id \in Ids)
      BY <1>3 DEF SessionInv, TypeOK, ListsKnown, ListKnown
  <2>2. PICK request \in Op :
            /\ Submit(f, request)
            /\ request.kind # "add"
            /\ request.kind \in {"delete", "removeRecord"} => request.id \in Ids
    <3>1. CASE row.kind = "removeOrphan"
      <4> DEFINE request == [NoOp EXCEPT !.kind = row.kind, !.unit = row.unit]
      <4>1. request \in Op /\ request.kind = "removeOrphan"
          BY <1>1, <2>1, <3>1 DEF Op, ShownRow, RemovalKinds
      <4>2. Submit(f, request)
          BY <1>3, <3>1 DEF SubmitRemoval
      <4> QED
          BY <4>1, <4>2
    <3>2. CASE row.kind \in {"delete", "removeRecord"}
      <4> DEFINE request == [NoOp EXCEPT !.kind = row.kind, !.id = row.id]
      <4>1. request \in Op /\ request.kind = row.kind /\ request.id = row.id
          BY <1>1, <2>1, <3>2 DEF Op, ShownRow, RemovalKinds
      <4>2. Submit(f, request)
          BY <1>3, <3>2 DEF SubmitRemoval
      <4> QED
          BY <2>1, <3>2, <4>1, <4>2
    <3> QED
        BY <1>3, <3>1, <3>2 DEF SubmitRemoval
  <2> QED
      BY <2>2, SubmitKeeps
<1>4. ASSUME NEW i \in Ids, SubmitExisting(f, i)
      PROVE  SessionInv'
  <2> DEFINE request == [NoOp EXCEPT !.kind = "delete", !.id = i]
  <2>1. request \in Op /\ request.kind = "delete" /\ request.id = i
      BY <1>1 DEF Op, RemovalKinds
  <2>2. Submit(f, request)
      BY <1>4 DEF SubmitExisting
  <2> QED
      BY <2>1, <2>2, SubmitKeeps
<1> QED
    BY <1>2, <1>3, <1>4

\* A front end that dies leaves its call to run for nobody.
LEMMA CrashKeeps ==
    ASSUME SessionInv, NEW f \in FrontEnds, FrontEndCrash(f)
    PROVE  SessionInv'
<1> DEFINE left(c) == IF c.from = f THEN [c EXCEPT !.from = None] ELSE c
<1>1. /\ op' = [op EXCEPT ![f] = NoOp] /\ userLock' \in {userLock, None}
      /\ calls' = {left(c) : c \in calls}
      /\ scan' = [g \in Lists |-> IF g = f THEN FreshScan ELSE scan[g]]
      /\ view' = [g \in Lists |-> IF g = f THEN {} ELSE view[g]]
      /\ UNCHANGED <<disk, record, overlapped>>
    BY DEF FrontEndCrash, Restart
<1>2. NoOp \in Op /\ FreshScan \in Scan
    BY DEF NoOp, Op, Auths, FreshScan, Scan
<1>3. /\ op' \in [FrontEnds -> Op] /\ op'[f] = NoOp
      /\ \A g \in FrontEnds \ {f} : op'[g] = op[g]
    BY <1>1, <1>2 DEF SessionInv, TypeOK
<1>4. FilesKnown' /\ Stable
    BY <1>1, FilesFrame DEF SessionInv
<1>5. \A c \in calls :
          /\ c \in Call /\ CallKnown(c) /\ left(c) \in Call
          /\ left(c).from = (IF c.from = f THEN None ELSE c.from)
          /\ left(c).step = c.step /\ left(c).kind = c.kind
          /\ left(c).unit = c.unit /\ left(c).id = c.id
    BY DEF SessionInv, TypeOK, Calls, Call
<1>6. ASSUME NEW c \in calls
      PROVE  CallKnown(left(c))'
  <2>1. c.from # None => c.from \in FrontEnds
      BY <1>5 DEF Call
  <2>2. left(c).from # None => op'[left(c).from] = op[left(c).from]
      BY <1>3, <1>5, <2>1
  <2> HIDE DEF left
  <2>3. CallKnown(left(c))
      BY <1>5 DEF CallKnown
  <2> QED
      BY <1>1, <1>4, <1>5, <2>2, <2>3, CallStays DEF disk
<1>7. Calls' /\ calls' \subseteq Call
    BY <1>1, <1>5, <1>6 DEF Calls
<1>8. OneCall'
  <2>1. \A c, d \in calls :
            \/ c = d
            \/ /\ left(c).from # left(d).from \/ left(c).from = None
               /\ left(c).step = "sent" \/ left(d).step = "sent"
      BY <1>5 DEF SessionInv, OneCall
  <2> HIDE DEF left
  <2> QED
      BY <1>1, <2>1 DEF OneCall
<1>9. TypeOK'
  <2>1. scan' \in [Lists -> Scan] /\ view' \in [Lists -> SUBSET ShownRow]
      BY <1>1, <1>2 DEF SessionInv, TypeOK
  <2> QED
      BY <1>1, <1>3, <1>7, <2>1 DEF SessionInv, TypeOK, disk
<1>10. RequestKnown(f)'
    BY <1>3 DEF RequestKnown, NoOp
<1>11. RecordsKnown'
    BY <1>1, <1>4 DEF SessionInv, RecordsKnown, Stable, HomeIs
<1>12. ListsKnown'
    BY <1>1 DEF SessionInv, ListsKnown, ListKnown, FreshScan
<1> QED
    BY <1>3, <1>4, <1>7, <1>8, <1>9, <1>10, <1>11, <1>12, RequestsFrame DEF SessionInv

\* The user edits a record: it keeps its mount point, or names none.
LEMMA EditKeeps ==
    ASSUME SessionInv, NEW i \in Ids, EditRecord(i)
    PROVE  SessionInv'
<1>1. /\ record[i] \in Record /\ UNCHANGED <<disk, front, calls, scan, view>>
      /\ overlapped' \subseteq overlapped \cup Lists
    BY DEF EditRecord, Overlap
<1>2. PICK v \in {[unit |-> u] : u \in {None, record[i].unit}}
                    \cup {[record[i] EXCEPT !.auth = a] : a \in Auths \ {record[i].auth}} :
          record' = [record EXCEPT ![i] = v]
    BY DEF EditRecord
<1>3. v # None /\ v \in Corrupt \cup Record /\ v.unit \in {None, record[i].unit}
    BY <1>1, SessionConstants DEF Record, Corrupt
<1>4. /\ record' \in [Ids -> Record \cup Corrupt \cup {None}] /\ record'[i] = v
      /\ \A j \in Ids \ {i} : record'[j] = record[j]
    BY <1>2, <1>3 DEF SessionInv, TypeOK
<1>5. FilesKnown' /\ Stable
    BY <1>1, FilesFrame DEF SessionInv
<1>6. RecordsKnown'
  <2>1. record[i] # None
      BY <1>1, SessionConstants DEF Record
  <2>2. \A j \in Ids : /\ record'[j] # None => j \in usedIds
                       /\ record'[j] # None /\ record'[j].unit \in Units => j \in usedIds /\ Where[j] \subseteq {record'[j].unit}
      BY <1>1, <1>3, <1>4, <2>1, SessionConstants DEF SessionInv, RecordsKnown, HomeIs, Record
  <2>3. UNCHANGED <<usedIds, Where>>
      BY <1>1 DEF disk, Where, HasHalf
  <2> QED
      BY <2>2, <2>3 DEF RecordsKnown, HomeIs
<1>7. TypeOK'
    BY <1>1, <1>4 DEF SessionInv, TypeOK, disk, front
<1>8. Requests' /\ Calls'
    BY <1>1, <1>5, RequestStays, CallStays DEF SessionInv, TypeOK, Requests, Calls, disk, front
<1>9. OneCall' /\ ListsKnown'
    BY <1>1 DEF SessionInv, OneCall, ListsKnown, ListKnown
<1> QED
    BY <1>5, <1>6, <1>7, <1>8, <1>9 DEF SessionInv

-----------------------------------------------------------------------------
(* A list's rows.                                                            *)

\* What is at a mount point, for this user, has a marker when it is owned.
LEMMA DefinitionKnown ==
    ASSUME NEW m \in UnitFile, NEW a \in UnitFile
    PROVE  /\ inspectDefinition(m, a, Me) \in {"None", "Pair", "Partial", "Tampered", "NotOurs"}
           /\ inspectDefinition(m, a, Me) \in {"Pair", "Partial"} =>
                  /\ definitionMarker(m, a) \in Marker
                  /\ definitionMarker(m, a) \in {m, a}
<1>1. \A x \in UnitFile : SideState(x, Me) \in {"NotPresent", "NoMarker", "Broken", "Valid"}
    BY DEF SideState
<1>2. \A x \in UnitFile : x \in Marker \/ SideState(x, Me) \in {"NotPresent", "NoMarker", "Broken"}
    BY DEF SideState, UnitFile
<1>3. ASSUME m \notin Marker, a \notin Marker
      PROVE  inspectDefinition(m, a, Me) \notin {"Pair", "Partial"}
    BY <1>2, <1>3 DEF inspectDefinition
<1>4. inspectDefinition(m, a, Me) \in {"None", "Pair", "Partial", "Tampered", "NotOurs"}
    BY DEF inspectDefinition
<1> QED
    BY <1>3, <1>4 DEF definitionMarker

\* What the scan finds has a mount point, a marker and a state.
LEMMA ScannedKnown ==
    ASSUME TypeOK, NEW d \in enumerateManagedUnits(mountUnit, automountUnit)
    PROVE  d.unit \in Units /\ d.marker \in Marker /\ d.state \in {"Pair", "Partial", "Tampered"}
<1> DEFINE State(u) == pairState(mountUnit[u], automountUnit[u])
           Mark(u) == definitionMarker(scannedHalf(mountUnit[u]), scannedHalf(automountUnit[u]))
<1>1. DOMAIN mountUnit = Units
    BY DEF TypeOK
<1>2. PICK u \in Units : /\ State(u) # "None" /\ d.unit = u /\ d.marker = Mark(u)
                         /\ d.state \in {"Tampered", State(u)}
    BY <1>1 DEF enumerateManagedUnits
<1>3. State(u) \in {"None", "Pair", "Partial", "Tampered"}
    BY DEF pairState
<1>4. Mark(u) \in Marker
    BY <1>2, SentinelsDistinct DEF pairState, scannedHalf, definitionMarker
<1> QED
    BY <1>2, <1>3, <1>4

\* A row's class is one of the classes.
LEMMA ClassKnown ==
    ASSUME NEW in \in RowInput
    PROVE  classifyRow(in) \in RowClass
<1>1. PairState(in) \in {"MissingCredentials", "Mounted", "Armed", "Inactive"}
    BY DEF PairState
<1>2. in.hasRecord \in BOOLEAN
    BY DEF RowInput
<1>3. \A st \in {"Inactive", "Armed", "Mounted", "MissingCredentials", "Broken", "Busy"},
         x, y, z \in BOOLEAN : Class(st, x, y, z) \in RowClass
    BY DEF Class, RowClass
<1>4. CASE in.definition \in {"None", "Tampered", "NotOurs"}
    BY <1>2, <1>3, <1>4 DEF classifyRow
<1>5. CASE in.definition \in {"Pair", "Partial"}
  <2>1. \/ classifyRow(in) = Class("Broken", FALSE, TRUE, FALSE)
        \/ classifyRow(in) = Class("Busy", FALSE, FALSE, FALSE)
        \/ classifyRow(in) = Class("Broken", FALSE, FALSE, TRUE)
        \/ classifyRow(in) = Class("Broken", TRUE, FALSE, FALSE)
        \/ classifyRow(in) = Class(PairState(in), TRUE, FALSE, FALSE)
      BY <1>5 DEF classifyRow
  <2> QED
      BY <1>1, <1>3, <2>1
<1> QED
    BY <1>4, <1>5, Definitions

RecordSpared(k) ==
    k.definition \in {"Pair", "Partial"} /\ ~k.drift /\ ~k.corrupt => ~k.class.canRecord

\* The row k is what r was but for its class, which agrees with the helper and
\* leaves the record of a sound definition alone.
IsClassified(k, r) ==
    /\ k \in Row /\ k.id = r.id /\ k.unit = r.unit
    /\ k.hasRecord = r.hasRecord /\ k.hasFiles = r.hasFiles
    /\ k.corrupt = r.corrupt /\ k.drift = r.drift
    /\ k.definition = r.definition /\ k.auth = r.auth
    /\ k.class.canDefinition <=> HelperAccepts(k)
    /\ RecordSpared(k)

\* Classifying a row does that.
LEMMA ClassifiedRow ==
    ASSUME NEW r \in Row, NEW applicable \in BOOLEAN, NEW healthy \in BOOLEAN,
           NEW hasRecord \in BOOLEAN,
           NEW k, k = Classified(r, applicable, healthy, hasRecord)
    PROVE  IsClassified(k, r)
<1> DEFINE in == ClassInput(r, applicable, healthy, hasRecord)
           class == classifyRow(in)
<1>1. in \in RowInput
    BY DEF ClassInput, RowInput, Row
<1>2. class \in RowClass /\ (class.canDefinition <=> HelperAccepts(in))
    BY <1>1, ClassKnown, ListAgreesWithHelper
<1>3. in.definition = r.definition /\ in.drift = r.drift /\ in.corrupt = r.corrupt /\ in.runtime = r.runtime
    BY DEF ClassInput
<1>4. k = [r EXCEPT !.class = class]
    BY DEF Classified
<1> HIDE DEF in, class
<1>5. /\ k \in Row /\ k.id = r.id /\ k.unit = r.unit /\ k.hasRecord = r.hasRecord
      /\ k.corrupt = r.corrupt /\ k.drift = r.drift /\ k.definition = r.definition
      /\ k.auth = r.auth /\ k.hasFiles = r.hasFiles /\ k.runtime = r.runtime /\ k.class = class
    BY <1>2, <1>4 DEF Row
<1>6. HelperAccepts(k) <=> HelperAccepts(in)
    BY <1>3, <1>5 DEF HelperAccepts
<1>7. in.definition \in {"Pair", "Partial"} /\ ~in.drift /\ ~in.corrupt => ~class.canRecord
    BY <1>1, GateDecides DEF class
<1> QED
    BY <1>2, <1>3, <1>5, <1>6, <1>7 DEF IsClassified, RecordSpared

\* A row that is not yet classified, and one without a runtime, are rows.
LEMMA NoClassKnown == NoClass \in RowClass /\ NoSnapshot \in Snapshot
BY DEF NoClass, RowClass, NoSnapshot, Snapshot

\* The row of a definition the scan found.
LEMMA UnitRowKnown ==
    ASSUME TypeOK, NEW d \in enumerateManagedUnits(mountUnit, automountUnit), NEW rt \in Snapshot,
           NEW r, r = UnitRow(d, rt)
    PROVE  /\ r \in Row /\ RowKnown(r) /\ r.unit = d.unit /\ r.definition = d.state
           /\ RecordSpared(r)
           /\ d.state \in {"Pair", "Partial"} => r.id = d.marker.id /\ r.auth = d.marker.auth
           /\ ~r.drift /\ ~r.corrupt /\ ~r.hasRecord /\ r.hasFiles
<1> DEFINE known == d.state \in {"Pair", "Partial"}
           q == [id |-> IF known THEN d.marker.id ELSE None, unit |-> d.unit,
                 definition |-> d.state,
                 auth |-> IF known THEN d.marker.auth ELSE "Credentials",
                 runtime |-> IF known THEN rt ELSE NoSnapshot,
                 hasFiles |-> TRUE, hasRecord |-> FALSE, corrupt |-> FALSE,
                 drift |-> FALSE, class |-> NoClass]
<1>1. /\ d.unit \in Units /\ d.state \in {"Pair", "Partial", "Tampered"}
      /\ d.marker.id \in Ids /\ d.marker.auth \in Auths
    BY ScannedKnown DEF Marker
<1>2. q \in Row
    BY <1>1, NoClassKnown DEF Row, Auths
<1>3. r = Classified(q, FALSE, TRUE, FALSE)
    BY DEF UnitRow
<1>4. /\ q.unit = d.unit /\ q.definition = d.state /\ (known => q.id = d.marker.id /\ q.auth = d.marker.auth)
      /\ ~q.drift /\ ~q.corrupt /\ ~q.hasRecord /\ q.hasFiles
    OBVIOUS
<1> HIDE DEF q
<1>5. IsClassified(r, q)
    BY <1>2, <1>3, ClassifiedRow
<1> QED
    BY <1>4, <1>5 DEF RowKnown, IsClassified

\* A row of the scan after its record has been read.
LEMMA MergedKnown ==
    ASSUME NEW r \in Row, RowKnown(r), ~r.drift, ~r.corrupt, r.id \in Ids,
           NEW rec \in Record \cup Corrupt, NEW k, k = Merged(r, rec)
    PROVE  /\ k \in Row /\ RowKnown(k) /\ k.id = r.id /\ k.unit = r.unit
           /\ k.hasRecord /\ k.hasFiles = r.hasFiles /\ k.definition = r.definition
           /\ k.corrupt <=> rec \in Corrupt
           /\ k.drift <=> rec \notin Corrupt /\ storeDefinitionDrift(rec, r)
           /\ ~r.class.canRecord => RecordSpared(k)
<1> DEFINE bad == rec \in Corrupt
           off == ~bad /\ storeDefinitionDrift(rec, r)
           m == [r EXCEPT !.hasRecord = TRUE, !.corrupt = bad, !.drift = off]
<1>0. /\ bad \in BOOLEAN /\ off \in BOOLEAN
      /\ bad <=> rec \in Corrupt
      /\ off <=> rec \notin Corrupt /\ storeDefinitionDrift(rec, r)
    OBVIOUS
<1>2. k = IF m.corrupt \/ m.drift THEN Classified(m, FALSE, TRUE, TRUE) ELSE m
    BY DEF Merged
<1> HIDE DEF bad, off
<1>1. /\ m \in Row /\ m.id = r.id /\ m.unit = r.unit /\ m.hasRecord /\ m.hasFiles = r.hasFiles
      /\ m.definition = r.definition /\ m.class = r.class /\ m.runtime = r.runtime
      /\ m.corrupt <=> rec \in Corrupt
      /\ m.drift <=> rec \notin Corrupt /\ storeDefinitionDrift(rec, r)
    BY <1>0 DEF Row
<1> HIDE DEF m
<1>3. CASE m.corrupt \/ m.drift
  <2>1. k = Classified(m, FALSE, TRUE, TRUE)
      BY <1>2, <1>3
  <2>2. IsClassified(k, m)
      BY <1>1, <2>1, ClassifiedRow
  <2> QED
      BY <1>1, <2>2 DEF RowKnown, IsClassified
<1>4. CASE ~(m.corrupt \/ m.drift)
  <2>1. HelperAccepts(m) <=> HelperAccepts(r)
      BY <1>1, <1>4 DEF HelperAccepts
  <2> QED
      BY <1>1, <1>2, <1>4, <2>1 DEF RowKnown, RecordSpared
<1> QED
    BY <1>3, <1>4

\* The row of a record alone.
LEMMA RecordRowKnown ==
    ASSUME TypeOK, NEW i \in Ids, NEW rec \in Record \cup Corrupt,
           NEW k, k = RecordRow(i, rec)
    PROVE  /\ k \in Row /\ RowKnown(k) /\ k.id = i /\ k.hasRecord
           /\ k.definition \in {"Pair", "Partial"} => k.drift
           /\ k.corrupt <=> rec \in Corrupt
           /\ rec \notin Corrupt => /\ k.unit = rec.unit
                               /\ k.definition = DefinitionAt(rec.unit)
                               /\ k.drift <=> Owned(rec.unit)
<1> DEFINE bad == rec \in Corrupt
           there == IF rec.unit = None THEN "None" ELSE DefinitionAt(rec.unit)
           other == there \in {"Pair", "Partial"}
           q == [id |-> i, unit |-> rec.unit,
                 definition |-> there,
                 auth |-> IF other THEN MarkerAt(rec.unit).auth ELSE "Credentials",
                 runtime |-> NoSnapshot, hasFiles |-> there # "None",
                 hasRecord |-> TRUE, corrupt |-> bad,
                 drift |-> other, class |-> NoClass]
<1>0. bad \in BOOLEAN /\ (bad <=> rec \in Corrupt)
    OBVIOUS
<1>3. k = Classified(q, FALSE, TRUE, TRUE)
    BY DEF RecordRow
<1> HIDE DEF bad
<1>1. /\ there \in {"None", "Pair", "Partial", "Tampered", "NotOurs"}
      /\ other => MarkerAt(rec.unit).auth \in Auths
      /\ rec.unit \in Units \cup {None}
      /\ rec \notin Corrupt => rec.unit # None
  <2>1. rec.unit \in Units \cup {None} /\ (rec \notin Corrupt => rec.unit # None)
      BY SessionConstants DEF Record, Corrupt
  <2>2. CASE rec.unit = None
      BY <2>1, <2>2
  <2>3. CASE rec.unit # None
    <3>1. rec.unit \in Units /\ mountUnit[rec.unit] \in UnitFile /\ automountUnit[rec.unit] \in UnitFile
        BY <2>1, <2>3 DEF TypeOK
    <3> QED
        BY <2>1, <2>3, <3>1, DefinitionKnown DEF DefinitionAt, MarkerAt, Marker
  <2> QED
      BY <2>2, <2>3
<1>2. q \in Row
    BY <1>0, <1>1, NoClassKnown DEF Row, Auths
<1>4. /\ q.id = i /\ q.hasRecord /\ (q.corrupt <=> rec \in Corrupt)
      /\ rec \notin Corrupt => /\ q.unit = rec.unit
                          /\ q.definition = DefinitionAt(rec.unit)
                          /\ q.drift <=> Owned(rec.unit)
      /\ q.definition \in {"Pair", "Partial"} => q.drift
  <2>1. q.id = i /\ q.hasRecord /\ q.unit = rec.unit /\ q.definition = there
      OBVIOUS
  <2>2. q.corrupt = bad /\ q.drift = other
      OBVIOUS
  <2>3. rec \notin Corrupt => there = DefinitionAt(rec.unit)
      BY <1>1
  <2> HIDE DEF q, there
  <2> QED
      BY <1>0, <2>1, <2>2, <2>3 DEF Owned
<1> HIDE DEF q
<1>5. IsClassified(k, q)
    BY <1>2, <1>3, ClassifiedRow
<1> QED
    BY <1>4, <1>5 DEF RowKnown, IsClassified

\* Steps of a refresh change nothing but the list.
LEMMA ListStepKeeps ==
    ASSUME SessionInv, UNCHANGED <<disk, record, front, calls>>,
           scan' \in [Lists -> Scan], view' \in [Lists -> SUBSET ShownRow],
           overlapped' \subseteq Lists, ListsKnown'
    PROVE  SessionInv'
<1>1. FilesKnown' /\ Stable
    BY FilesFrame DEF SessionInv
<1>2. TypeOK'
    BY DEF SessionInv, TypeOK, disk, front
<1>3. Requests' /\ Calls'
    BY <1>1, RequestStays, CallStays DEF SessionInv, TypeOK, Requests, Calls, disk, front
<1>4. RecordsKnown' /\ OneCall'
    BY <1>1 DEF SessionInv, RecordsKnown, OneCall, Stable, HomeIs
<1> QED
    BY <1>1, <1>2, <1>3, <1>4 DEF SessionInv

\* A list starts its refresh again.
LEMMA RefreshKeeps ==
    ASSUME SessionInv, NEW f \in Lists, Refresh(f)
    PROVE  SessionInv'
<1>1. /\ scan' = [g \in Lists |-> IF g = f THEN FreshScan ELSE scan[g]]
      /\ UNCHANGED <<disk, record, front, calls, view, overlapped>>
    BY DEF Refresh, Restart
<1>2. scan' \in [Lists -> Scan]
    BY <1>1 DEF SessionInv, TypeOK, FreshScan, Scan
<1>3. ListsKnown'
    BY <1>1 DEF SessionInv, ListsKnown, ListKnown, FreshScan
<1> QED
    BY <1>1, <1>2, <1>3, ListStepKeeps DEF SessionInv, TypeOK

\* The scan of the units.
LEMMA ScanKeeps ==
    ASSUME SessionInv, NEW f \in Lists, ScanUnits(f)
    PROVE  SessionInv'
<1> DEFINE found == enumerateManagedUnits(mountUnit, automountUnit)
<1>1. PICK rt \in [Units -> Runtimes] :
          scan' = [scan EXCEPT ![f] =
                     [step |-> "store", rows |-> {UnitRow(d, rt[d.unit]) : d \in found}]]
    BY DEF ScanUnits
<1> DEFINE rows == {UnitRow(d, rt[d.unit]) : d \in found}
<1>2. \A r \in rows : r \in Row /\ RowKnown(r) /\ ~r.drift /\ ~r.corrupt
    BY UnitRowKnown, ScannedKnown, SessionConstants DEF SessionInv
<1> HIDE DEF rows
<1>3. [step |-> "store", rows |-> rows] \in Scan
    BY <1>2 DEF Scan
<1>4. /\ scan' \in [Lists -> Scan] /\ scan'[f] = [step |-> "store", rows |-> rows]
      /\ \A g \in Lists \ {f} : scan'[g] = scan[g]
    BY <1>1, <1>3 DEF SessionInv, TypeOK, rows
<1>5. UNCHANGED <<disk, record, front, calls, view>> /\ overlapped' \subseteq overlapped
    BY DEF ScanUnits
<1>6. ListsKnown'
    BY <1>2, <1>4, <1>5 DEF SessionInv, ListsKnown, ListKnown
<1> QED
    BY <1>4, <1>5, <1>6, ListStepKeeps DEF SessionInv, TypeOK

\* The reading of the Store.
LEMMA ReadStoreKeeps ==
    ASSUME SessionInv, NEW f \in Lists, ReadStore(f)
    PROVE  SessionInv'
<1> DEFINE found == scan[f].rows
           recorded == {i \in Ids : record[i] # None}
           matched == {i \in recorded : \E r \in found : r.id = i}
           rows == {IF r.id \in matched THEN Merged(r, record[r.id]) ELSE r : r \in found}
                   \cup {RecordRow(i, record[i]) : i \in recorded \ matched}
<1>1. /\ scan[f].step = "store"
      /\ scan' = [scan EXCEPT ![f] = [step |-> "inventory", rows |-> rows]]
      /\ UNCHANGED <<disk, record, front, calls, view, overlapped>>
    BY DEF ReadStore
<1>2. \A r \in found : r \in Row /\ RowKnown(r) /\ ~r.drift /\ ~r.corrupt
    BY <1>1 DEF SessionInv, TypeOK, Scan, ListsKnown, ListKnown
<1>3. \A i \in recorded : i \in Ids /\ record[i] \in Record \cup Corrupt
    BY DEF SessionInv, TypeOK
<1>4. \A r \in found : r.id \in matched =>
          Merged(r, record[r.id]) \in Row /\ RowKnown(Merged(r, record[r.id]))
    BY <1>2, <1>3, MergedKnown
<1>5. \A i \in recorded : RecordRow(i, record[i]) \in Row /\ RowKnown(RecordRow(i, record[i]))
    BY <1>3, RecordRowKnown DEF SessionInv
<1>6. \A r \in rows : r \in Row /\ RowKnown(r)
    BY <1>2, <1>4, <1>5
<1> HIDE DEF rows
<1>7. [step |-> "inventory", rows |-> rows] \in Scan
    BY <1>6 DEF Scan
<1>8. /\ scan' \in [Lists -> Scan] /\ scan'[f] = [step |-> "inventory", rows |-> rows]
      /\ \A g \in Lists \ {f} : scan'[g] = scan[g]
    BY <1>1, <1>7 DEF SessionInv, TypeOK
<1>9. ListsKnown'
    BY <1>1, <1>6, <1>8 DEF SessionInv, ListsKnown, ListKnown
<1> QED
    BY <1>1, <1>8, <1>9, ListStepKeeps DEF SessionInv, TypeOK

\* A row is shown with a removal of its own record only when it has one.
LEMMA ShownKnown ==
    ASSUME NEW r \in Row, r.hasRecord => r.id \in Ids
    PROVE  /\ Shown(r) \in ShownRow
           /\ Shown(r).kind \in {"delete", "removeRecord"} => Shown(r).id \in Ids
<1>1. rowRemoval(r.class, r.hasRecord, r.hasFiles) \in RemovalKinds
    BY DEF rowRemoval, RemovalKinds
<1>2. rowRemoval(r.class, r.hasRecord, r.hasFiles) \in {"delete", "removeRecord"} => r.hasRecord
    BY DEF rowRemoval
<1> QED
    BY <1>1, <1>2 DEF Shown, ShownRow, Row

\* The result becomes the list.
LEMMA PublishKeeps ==
    ASSUME SessionInv, NEW f \in Lists, Publish(f)
    PROVE  SessionInv'
<1>1. PICK rows \in {scan[f].rows} \cup {WithInventory(scan[f].rows, h) : h \in SUBSET InventoryIds} :
          view' = [view EXCEPT ![f] = {Shown(r) : r \in rows}]
    BY DEF Publish
<1>2. \A r \in scan[f].rows : r \in Row /\ (r.hasRecord => r.id \in Ids)
    BY DEF SessionInv, TypeOK, Scan, ListsKnown, ListKnown, RowKnown
<1>3. \A h \in SUBSET InventoryIds : \A r \in WithInventory(scan[f].rows, h) :
          r \in Row /\ (r.hasRecord => r.id \in Ids)
  <2> SUFFICES ASSUME NEW h \in SUBSET InventoryIds, NEW k \in WithInventory(scan[f].rows, h)
               PROVE  k \in Row /\ (k.hasRecord => k.id \in Ids)
      OBVIOUS
  <2>1. PICK r \in scan[f].rows : k = r \/ k = Classified(r, TRUE, r.id \in h, FALSE)
      BY DEF WithInventory
  <2> DEFINE healthy == r.id \in h
  <2>2. healthy \in BOOLEAN
      OBVIOUS
  <2> HIDE DEF healthy
  <2>3. ASSUME k = Classified(r, TRUE, healthy, FALSE)
        PROVE  IsClassified(k, r)
      BY <1>2, <2>2, <2>3, ClassifiedRow
  <2> QED
      BY <1>2, <2>1, <2>3 DEF healthy, IsClassified
<1>4. \A r \in rows : r \in Row /\ (r.hasRecord => r.id \in Ids)
    BY <1>1, <1>2, <1>3
<1> DEFINE shown == {Shown(r) : r \in rows}
<1>5. \A row \in shown : row \in ShownRow /\ (row.kind \in {"delete", "removeRecord"} => row.id \in Ids)
    BY <1>4, ShownKnown
<1> HIDE DEF shown
<1>6. /\ view' \in [Lists -> SUBSET ShownRow] /\ view'[f] = shown
      /\ \A g \in Lists \ {f} : view'[g] = view[g]
    BY <1>1, <1>5 DEF SessionInv, TypeOK, shown
<1>7. /\ scan' = [scan EXCEPT ![f] = NoScan] /\ overlapped' \subseteq overlapped
      /\ UNCHANGED <<disk, record, front, calls>>
    BY DEF Publish
<1>8. scan' \in [Lists -> Scan]
    BY <1>7 DEF SessionInv, TypeOK, NoScan, Scan
<1>9. ListsKnown'
    BY <1>5, <1>6, <1>7 DEF SessionInv, TypeOK, ListsKnown, ListKnown, NoScan
<1> QED
    BY <1>6, <1>7, <1>8, <1>9, ListStepKeeps DEF SessionInv, TypeOK

-----------------------------------------------------------------------------
(* The theorems.                                                             *)

\* The invariant holds before anything was asked for.
LEMMA InitHolds == Init => SessionInv
<1> SUFFICES ASSUME Init PROVE SessionInv
    OBVIOUS
<1>1. \A i : \A u \in Units : ~HasHalf(u, i)
    BY SentinelsDistinct DEF Init, HasHalf
<1>2. \A i \in Ids : Where[i] = {}
    BY <1>1 DEF Where
<1>3. FilesKnown
    BY <1>2, SentinelsDistinct DEF Init, FilesKnown
<1>4. NoOp \in Op /\ FreshScan \in Scan
    BY DEF NoOp, Op, Auths, FreshScan, Scan
<1>5. TypeOK
    BY <1>4 DEF Init, TypeOK, UnitFile
<1>6. RecordsKnown
    BY SessionConstants DEF Init, RecordsKnown, Record
<1>7. Requests /\ Calls /\ OneCall /\ ListsKnown
    BY DEF Init, NoOp, FreshScan, Requests, RequestKnown, Calls, OneCall, ListsKnown, ListKnown
<1> QED
    BY <1>3, <1>5, <1>6, <1>7 DEF SessionInv

\* Nothing changes.
LEMMA StutterKeeps == SessionInv /\ UNCHANGED vars => SessionInv'
<1> SUFFICES ASSUME SessionInv, UNCHANGED vars PROVE SessionInv'
    OBVIOUS
<1>1. UNCHANGED <<disk, record, front, calls, scan, view, overlapped>>
    BY DEF vars, list
<1>2. ListsKnown'
    BY <1>1 DEF SessionInv, ListsKnown, ListKnown
<1> QED
    BY <1>1, <1>2, ListStepKeeps DEF SessionInv, TypeOK

\* Every step keeps it.
LEMMA StepKeeps == SessionInv /\ [Next]_vars => SessionInv'
<1> SUFFICES ASSUME SessionInv, [Next]_vars PROVE SessionInv'
    OBVIOUS
<1>1. ASSUME NEW f \in FrontEnds,
             \/ \E u \in Units, a \in AddAuths : SubmitAdd(f, u, a)
             \/ UserLockUnavailable(f)
             \/ RequestStart(f) \/ RequestEnd(f) \/ FrontEndCrash(f)
      PROVE  SessionInv'
  <2>1. CASE UserLockUnavailable(f)
      BY <2>1, EndEarlyKeeps DEF UserLockUnavailable
  <2> QED
      BY <1>1, <2>1, RequestsKeep, RequestStartKeeps, RequestEndKeeps, CrashKeeps
<1>2. ASSUME NEW f \in Lists, ListStep(f)
      PROVE  SessionInv'
  <2>1. f \in FrontEnds
      BY DEF FrontEnds
  <2>2. CASE \E row \in view[f] : SubmitRemoval(f, row)
      BY <2>1, <2>2, RequestsKeep
  <2> QED
      BY <1>2, <2>2, RefreshKeeps, ScanKeeps, ReadStoreKeeps, PublishKeeps DEF ListStep
<1>3. ASSUME NEW f \in Dialogs, NEW i \in Ids, SubmitExisting(f, i)
      PROVE  SessionInv'
    BY <1>3, RequestsKeep DEF FrontEnds
<1>4. ASSUME NEW c \in calls, HelperStep(c) \/ ReplyLost(c) \/ HelperDies(c)
      PROVE  SessionInv'
    BY <1>4, RepliesKeep, DefineMountUnitKeeps, CallMovesKeep DEF HelperStep
<1>5. ASSUME NEW i \in Ids, EditRecord(i)
      PROVE  SessionInv'
    BY <1>5, EditKeeps
<1>6. CASE Next
    BY <1>1, <1>2, <1>3, <1>4, <1>5, <1>6 DEF Next
<1> QED
    BY <1>6, StutterKeeps

\* The user's own files, records, requests and lists, and the helper's calls, are
\* what the front ends and the helper take them for, whatever the order of their
\* steps, and whichever replies are lost, processes die or records are edited.
THEOREM SessionKnown == Spec => []SessionInv
BY InitHolds, StepKeeps, PTL DEF Spec

\* Every variable has its type, for any front ends, mount points and faults.
THEOREM SessionTypes == Spec => []TypeOK
<1>1. SessionInv => TypeOK
    BY DEF SessionInv
<1> QED
    BY <1>1, SessionKnown, PTL

\* A row, whatever scan, merge and inventory made of it, lets its definition be
\* removed exactly when the helper's own gate would accept that (classifyRow and
\* evaluateStopPrecheck are written apart).
THEOREM RowsAgree == Spec => []OffersWhatHelperAccepts
<1>1. SessionInv => OffersWhatHelperAccepts
    BY DEF SessionInv, ListsKnown, ListKnown, RowKnown, OffersWhatHelperAccepts
<1> QED
    BY <1>1, SessionKnown, PTL

\* A half of a definition that carries an id is where the id lives.
LEMMA DefinesHalf ==
    ASSUME TypeOK, NEW u \in Units, NEW i \in Ids, Defines(u, i)
    PROVE  u \in Where[i]
<1>1. /\ MarkerAt(u) \in Marker /\ MarkerAt(u) \in {mountUnit[u], automountUnit[u]}
      /\ MarkerAt(u).id = i
    BY DefinitionKnown DEF TypeOK, Defines, Owned, DefinitionAt, MarkerAt
<1> QED
    BY <1>1 DEF Where, HasHalf

\* deleteShare takes a record away only when no definition with its id is left,
\* whatever became of the helper's reply.
THEOREM DeletesKeepRecords == Spec => DeleteKeepsRecord
<1>1. ASSUME SessionInv, NEW f \in FrontEnds, Unrecords(f, "delete")
      PROVE  ~ \E u \in Units : Defines(u, op[f].id)
  <2>1. op[f].id \in Ids /\ NoHalf(op[f].id)
      BY <1>1 DEF Unrecords, SessionInv, Requests, RequestKnown
  <2>2. TypeOK
      BY <1>1 DEF SessionInv
  <2>3. ASSUME NEW u \in Units, Defines(u, op[f].id)
        PROVE  FALSE
    <3>1. u \in Where[op[f].id]
        BY <2>1, <2>2, <2>3, DefinesHalf
    <3> QED
        BY <2>1, <3>1 DEF NoHalf
  <2> QED
      BY <2>3
<1>2. SessionInv => \A f \in FrontEnds : Unrecords(f, "delete") =>
                        ~ \E u \in Units : Defines(u, op[f].id)
    BY <1>1
<1> QED
    BY <1>2, SessionKnown, PTL DEF DeleteKeepsRecord

-----------------------------------------------------------------------------
(* What a refresh shows when nothing changes under it.                       *)

\* The row of a definition the user has.
UnitsRow(r) ==
    /\ r.unit \in Units /\ Owned(r.unit) /\ r.id = MarkerAt(r.unit).id
    /\ r.definition \in {"Pair", "Partial"}

\* What a row says is so of the files and records as they are now: a definition
\* without a record, one with its record, or a record whose mount point has no
\* definition with its id.
RowTrue(r) ==
    /\ RecordSpared(r)
    /\ \/ UnitsRow(r) /\ ~r.hasRecord /\ ~Recorded(r.id)
       \/ /\ UnitsRow(r) /\ r.hasRecord /\ Recorded(r.id)
          /\ r.corrupt <=> record[r.id] \in Corrupt
          /\ ~r.corrupt => (r.drift <=> \/ record[r.id].unit # r.unit
                                        \/ record[r.id].auth # MarkerAt(r.unit).auth)
       \/ /\ r.hasRecord /\ r.id \in Ids /\ Recorded(r.id)
          /\ r.definition \in {"Pair", "Partial"} => r.drift
          /\ record[r.id] \in Corrupt \/ ~Defines(record[r.id].unit, r.id)

\* The rows have every definition of the user, and every record.
HasUnits(rows) == \A u \in Units : Owned(u) => \E r \in rows : r.unit = u /\ r.id = MarkerAt(u).id
HasRecords(rows) == \A i \in Ids : Recorded(i) => \E r \in rows : r.id = i

\* What the scan, and then the Store, has put together is so, unless something
\* changed meanwhile.
ScanTrue(f) ==
    f \notin overlapped =>
       /\ scan[f].step = "store" =>
             /\ HasUnits(scan[f].rows)
             /\ \A r \in scan[f].rows :
                   /\ UnitsRow(r) /\ r.auth = MarkerAt(r.unit).auth
                   /\ ~r.hasRecord /\ ~r.class.canRecord
       /\ scan[f].step = "inventory" =>
             /\ HasUnits(scan[f].rows) /\ HasRecords(scan[f].rows)
             /\ \A r \in scan[f].rows : RowTrue(r)

ScansTrue == \A f \in Lists : ScanTrue(f)

\* No file and no record changes under a refresh without being noted.
Undisturbed(f) ==
    \/ /\ scan'[f] = scan[f] /\ UNCHANGED <<mountUnit, automountUnit, record>>
       /\ f \in overlapped => f \in overlapped'
    \/ /\ scan'[f] = scan[f]
       /\ scan[f].step \in {"store", "inventory"} => f \in overlapped'
    \/ scan'[f] = FreshScan

\* A request that ends leaves a refresh alone, or starts it again.
LEMMA FinishUndisturbed ==
    ASSUME TypeOK, NEW g \in FrontEnds, Finish(g), NEW f \in Lists
    PROVE  scan'[f] = scan[f] \/ scan'[f] = FreshScan
BY DEF Finish, Restart

\* Requests, from their making to their end, disturb no refresh unnoticed.
LEMMA FrontUndisturbed ==
    ASSUME SessionInv, NEW f \in Lists, NEW g \in FrontEnds,
           \/ \E u \in Units, a \in AddAuths : SubmitAdd(g, u, a)
           \/ \E row : SubmitRemoval(g, row)
           \/ \E i \in Ids : SubmitExisting(g, i)
           \/ UserLockUnavailable(g)
           \/ RequestStart(g) \/ RequestEnd(g) \/ FrontEndCrash(g)
    PROVE  Undisturbed(f)
<1>1. TypeOK
    BY DEF SessionInv
<1>2. ASSUME NEW request, Submit(g, request)
      PROVE  Undisturbed(f)
    BY <1>2 DEF Submit, Undisturbed, disk, list
<1>3. ASSUME EndEarly(g)
      PROVE  Undisturbed(f)
    BY <1>1, <1>3, FinishUndisturbed DEF EndEarly, Undisturbed, disk
<1>4. ASSUME NEW kind, NEW u, Invoke(g, kind, u)
      PROVE  Undisturbed(f)
    BY <1>4 DEF Invoke, Undisturbed, disk, list
<1>5. CASE \/ \E u \in Units, a \in AddAuths : SubmitAdd(g, u, a)
           \/ \E row : SubmitRemoval(g, row)
           \/ \E i \in Ids : SubmitExisting(g, i)
    BY <1>2, <1>5 DEF SubmitAdd, SubmitRemoval, SubmitExisting
<1>6. CASE UserLockUnavailable(g)
    BY <1>3, <1>6 DEF UserLockUnavailable
<1>7. CASE addShare(g) \/ deleteShare(g) \/ removeOrphanByPath(g)
    BY <1>3, <1>4, <1>7 DEF addShare, deleteShare, removeOrphanByPath
<1>8. CASE removeOrphanedRecord(g)
    BY <1>8 DEF removeOrphanedRecord, Undisturbed, disk, list
<1>9. CASE RequestEnd(g)
  <2>1. Finish(g) /\ Overlap
      BY <1>9 DEF RequestEnd, commitShare, removeShare
  <2>2. scan[f].step \in {"store", "inventory"} => f \in overlapped'
      BY <2>1 DEF Overlap
  <2> QED
      BY <1>1, <2>1, <2>2, FinishUndisturbed DEF Undisturbed
<1>10. CASE FrontEndCrash(g)
    BY <1>1, <1>10 DEF FrontEndCrash, Restart, Undisturbed, disk
<1> QED
    BY <1>5, <1>6, <1>7, <1>8, <1>9, <1>10 DEF RequestStart

\* Neither do the helper's calls.
LEMMA HelperUndisturbed ==
    ASSUME SessionInv, NEW f \in Lists, NEW c \in calls,
           HelperStep(c) \/ ReplyLost(c) \/ HelperDies(c)
    PROVE  Undisturbed(f)
<1>1. TypeOK /\ c \in Call
    BY DEF SessionInv, TypeOK
<1>2. ASSUME NEW outcome, Deliver(c, outcome), UNCHANGED <<disk, record>>
      PROVE  Undisturbed(f)
  <2>1. c.from # None => c.from \in FrontEnds
      BY <1>1 DEF Call
  <2>2. CASE UNCHANGED list
      BY <1>2, <2>2 DEF list, disk, Undisturbed
  <2>3. CASE c.from # None /\ Finish(c.from) /\ UNCHANGED overlapped
      BY <1>1, <1>2, <2>1, <2>3, FinishUndisturbed DEF disk, Undisturbed
  <2> QED
      BY <1>2, <2>2, <2>3 DEF Deliver
<1>3. ASSUME NEW d, NEW m, NEW a, Advance(c, d, m, a)
      PROVE  Undisturbed(f)
    BY <1>3 DEF Advance, Overlap, Undisturbed
<1>4. CASE Refuse(c) \/ Complete(c) \/ Incomplete(c) \/ HelperDies(c) \/ ReplyLost(c)
    BY <1>2, <1>4 DEF Refuse, Complete, Incomplete, HelperDies, ReplyLost, Reply
<1>5. CASE \/ DefineMountUnit(c) \/ DefineAutomountUnit(c)
           \/ DefineFails(c) \/ DefineCleanup(c)
           \/ UndefineMountUnit(c) \/ UndefineAutomountUnit(c)
    BY <1>3, <1>5 DEF DefineMountUnit, DefineAutomountUnit, DefineFails, DefineCleanup,
           UndefineMountUnit, UndefineAutomountUnit
<1> QED
    BY <1>4, <1>5 DEF HelperStep

\* Only the refresh's own three steps do anything else to it.
LEMMA ListMoves ==
    ASSUME SessionInv, [Next]_vars, NEW f \in Lists
    PROVE  Undisturbed(f) \/ ScanUnits(f) \/ ReadStore(f) \/ Publish(f)
<1>1. ASSUME NEW g \in FrontEnds,
             \/ \E u \in Units, a \in AddAuths : SubmitAdd(g, u, a)
             \/ UserLockUnavailable(g)
             \/ RequestStart(g) \/ RequestEnd(g) \/ FrontEndCrash(g)
      PROVE  Undisturbed(f)
    BY <1>1, FrontUndisturbed
<1>2. ASSUME NEW g \in Lists, ListStep(g)
      PROVE  Undisturbed(f) \/ ScanUnits(f) \/ ReadStore(f) \/ Publish(f)
  <2>1. TypeOK /\ g \in FrontEnds
      BY DEF SessionInv, FrontEnds
  <2>2. CASE \E row \in view[g] : SubmitRemoval(g, row)
      BY <2>1, <2>2, FrontUndisturbed
  <2>3. CASE Refresh(g)
      BY <2>1, <2>3 DEF Refresh, Restart, Undisturbed, disk
  <2>4. CASE ScanUnits(g) /\ f # g
      BY <2>1, <2>4 DEF TypeOK, ScanUnits, Undisturbed, disk
  <2>5. CASE ReadStore(g) /\ f # g
      BY <2>1, <2>5 DEF TypeOK, ReadStore, Undisturbed, disk
  <2>6. CASE Publish(g) /\ f # g
      BY <2>1, <2>6 DEF TypeOK, Publish, Undisturbed, disk
  <2> QED
      BY <1>2, <2>2, <2>3, <2>4, <2>5, <2>6 DEF ListStep
<1>3. ASSUME NEW g \in Dialogs, NEW i \in Ids, SubmitExisting(g, i)
      PROVE  Undisturbed(f)
    BY <1>3, FrontUndisturbed DEF FrontEnds
<1>4. ASSUME NEW c \in calls, HelperStep(c) \/ ReplyLost(c) \/ HelperDies(c)
      PROVE  Undisturbed(f)
    BY <1>4, HelperUndisturbed
<1>5. ASSUME NEW i \in Ids, EditRecord(i)
      PROVE  Undisturbed(f)
    BY <1>5 DEF EditRecord, Overlap, Undisturbed
<1>6. CASE UNCHANGED vars
    BY <1>6 DEF vars, list, disk, Undisturbed
<1> QED
    BY <1>1, <1>2, <1>3, <1>4, <1>5, <1>6 DEF Next

\* The files and records being as they were, so is what is said of them.
LEMMA SameShares ==
    ASSUME UNCHANGED <<mountUnit, automountUnit, record>>
    PROVE  /\ \A u : (Owned(u)' <=> Owned(u)) /\ MarkerAt(u)' = MarkerAt(u)
           /\ \A u, i : Defines(u, i)' <=> Defines(u, i)
           /\ \A i : Recorded(i)' <=> Recorded(i)
BY DEF Owned, DefinitionAt, MarkerAt, Defines, Recorded

\* What a refresh has put together stays so while nothing disturbs it unnoticed.
LEMMA ScanStays ==
    ASSUME NEW f \in Lists, ScanTrue(f), Undisturbed(f)
    PROVE  ScanTrue(f)'
<1>1. CASE /\ scan'[f] = scan[f] /\ UNCHANGED <<mountUnit, automountUnit, record>>
           /\ f \in overlapped => f \in overlapped'
  <2>1. HasUnits(scan[f].rows) => HasUnits(scan[f].rows)'
      BY <1>1, SameShares DEF HasUnits
  <2>2. HasRecords(scan[f].rows) => HasRecords(scan[f].rows)'
      BY <1>1, SameShares DEF HasRecords
  <2>3. \A r : (UnitsRow(r)' <=> UnitsRow(r)) /\ (RowTrue(r) => RowTrue(r)')
      BY <1>1, SameShares DEF UnitsRow, RowTrue, RecordSpared
  <2>4. \A r : MarkerAt(r.unit)' = MarkerAt(r.unit)
      BY <1>1, SameShares
  <2> QED
      BY <1>1, <2>1, <2>2, <2>3, <2>4 DEF ScanTrue, HasUnits, HasRecords
<1>2. CASE /\ scan'[f] = scan[f]
           /\ scan[f].step \in {"store", "inventory"} => f \in overlapped'
    BY <1>2 DEF ScanTrue
<1>3. CASE scan'[f] = FreshScan
    BY <1>3 DEF ScanTrue, FreshScan
<1> QED
    BY <1>1, <1>2, <1>3 DEF Undisturbed

\* The scan finds the user's definitions, all of them and nothing else: there is
\* no half of another user's here, and no id at two mount points.
LEMMA FoundOwned ==
    ASSUME TypeOK, FilesKnown
    PROVE  LET found == enumerateManagedUnits(mountUnit, automountUnit) IN
           /\ \A d \in found : /\ Owned(d.unit) /\ d.marker = MarkerAt(d.unit)
                               /\ d.state \in {"Pair", "Partial"}
           /\ \A u \in Units : Owned(u) => \E d \in found : d.unit = u
<1> DEFINE found == enumerateManagedUnits(mountUnit, automountUnit)
           State(u) == pairState(mountUnit[u], automountUnit[u])
           Mark(u) == definitionMarker(scannedHalf(mountUnit[u]), scannedHalf(automountUnit[u]))
           Paired == {u \in DOMAIN mountUnit : State(u) \in {"Pair", "Partial"}}
           Collides(u) == \E v \in Paired \ {u} : Mark(v).id = Mark(u).id
<1>1. DOMAIN mountUnit = Units
    BY DEF TypeOK
<1>2. found = {[unit |-> u, marker |-> Mark(u),
                state |-> IF u \in Paired /\ Collides(u) THEN "Tampered" ELSE State(u)] :
                  u \in {v \in Units : State(v) # "None"}}
    BY <1>1 DEF enumerateManagedUnits
<1>3. \A u \in Units : State(u) \in {"None", "Pair", "Partial"}
    BY SentinelsDistinct DEF pairState, scannedHalf, FilesKnown
<1>4. \A u \in Units : State(u) # "None" =>
          Owned(u) /\ Mark(u) = MarkerAt(u)
  <2> SUFFICES ASSUME NEW u \in Units, State(u) # "None"
               PROVE  Owned(u) /\ Mark(u) = MarkerAt(u)
      OBVIOUS
  <2>1. CASE mountUnit[u] \in Marker
    <3>1. SideState(mountUnit[u], Me) = "Valid"
        BY <2>1, SentinelsDistinct DEF SideState, FilesKnown
    <3>2. automountUnit[u] = None \/ automountUnit[u] = mountUnit[u]
        BY <2>1, SentinelsDistinct DEF FilesKnown
    <3> QED
        BY <2>1, <3>1, <3>2, SentinelsDistinct
        DEF Owned, DefinitionAt, inspectDefinition, SideState, MarkerAt, definitionMarker, scannedHalf
  <2>2. CASE mountUnit[u] \notin Marker
    <3>1. automountUnit[u] \in Marker /\ mountUnit[u] = None
        BY <2>2, SentinelsDistinct DEF pairState, scannedHalf, FilesKnown
    <3>2. SideState(automountUnit[u], Me) = "Valid" /\ SideState(mountUnit[u], Me) = "NotPresent"
        BY <3>1, SentinelsDistinct DEF SideState, FilesKnown
    <3> QED
        BY <2>2, <3>1, <3>2, SentinelsDistinct
        DEF Owned, DefinitionAt, inspectDefinition, MarkerAt, definitionMarker, scannedHalf
  <2> QED
      BY <2>1, <2>2
<1>5. \A u \in Units : Owned(u) => State(u) # "None"
  <2> SUFFICES ASSUME NEW u \in Units, Owned(u) PROVE State(u) # "None"
      OBVIOUS
  <2>1. MarkerAt(u) \in Marker /\ MarkerAt(u) \in {mountUnit[u], automountUnit[u]}
      BY DefinitionKnown DEF TypeOK, Owned, DefinitionAt, MarkerAt
  <2> QED
      BY <2>1, SentinelsDistinct DEF pairState, scannedHalf
<1>6. \A u \in Units : State(u) # "None" => u \in Where[Mark(u).id] /\ Mark(u).id \in Ids
  <2> SUFFICES ASSUME NEW u \in Units, State(u) # "None"
               PROVE  u \in Where[Mark(u).id] /\ Mark(u).id \in Ids
      OBVIOUS
  <2>1. MarkerAt(u) \in Marker /\ Owned(u) /\ Mark(u) = MarkerAt(u)
      BY <1>4, DefinitionKnown DEF TypeOK, Owned, DefinitionAt, MarkerAt
  <2>2. Mark(u).id \in Ids /\ Defines(u, Mark(u).id)
      BY <2>1 DEF Marker, Defines
  <2> QED
      BY <2>2, DefinesHalf
<1>7. \A u \in Units : State(u) # "None" => ~Collides(u)
    BY <1>1, <1>6 DEF FilesKnown, HomeIs
<1> HIDE DEF State, Mark, Collides
<1>8. \A d \in found : \E u \in Units :
          State(u) # "None" /\ d.unit = u /\ d.marker = Mark(u) /\ d.state = State(u)
    BY <1>2, <1>7
<1>9. \A d \in found : /\ Owned(d.unit) /\ d.marker = MarkerAt(d.unit)
                       /\ d.state \in {"Pair", "Partial"}
    BY <1>3, <1>4, <1>8
<1>10. \A u \in Units : Owned(u) => \E d \in found : d.unit = u
  <2> SUFFICES ASSUME NEW u \in Units, Owned(u) PROVE \E d \in found : d.unit = u
      OBVIOUS
  <2>1. State(u) # "None"
      BY <1>5
  <2>2. PICK d \in found : d = [unit |-> u, marker |-> Mark(u),
            state |-> IF u \in Paired /\ Collides(u) THEN "Tampered" ELSE State(u)]
      BY <1>2, <2>1
  <2> QED
      BY <2>2
<1> QED
    BY <1>9, <1>10

\* The scan puts together what is so.
LEMMA ScanUnitsTrue ==
    ASSUME SessionInv, NEW f \in Lists, ScanUnits(f)
    PROVE  ScanTrue(f)'
<1> DEFINE found == enumerateManagedUnits(mountUnit, automountUnit)
<1>1. PICK rt \in [Units -> Runtimes] :
          scan' = [scan EXCEPT ![f] =
                     [step |-> "store", rows |-> {UnitRow(d, rt[d.unit]) : d \in found}]]
    BY DEF ScanUnits
<1> DEFINE rows == {UnitRow(d, rt[d.unit]) : d \in found}
<1>2. scan'[f] = [step |-> "store", rows |-> rows]
    BY <1>1 DEF SessionInv, TypeOK
<1>3. UNCHANGED <<mountUnit, automountUnit, record>>
    BY DEF ScanUnits, disk
<1>4. \A d \in found : Owned(d.unit) /\ d.marker = MarkerAt(d.unit) /\ d.state \in {"Pair", "Partial"}
    BY FoundOwned DEF SessionInv
<1>5. \A u \in Units : Owned(u) => \E d \in found : d.unit = u
    BY FoundOwned DEF SessionInv
<1>6. ASSUME NEW d \in found
      PROVE  LET r == UnitRow(d, rt[d.unit]) IN
             /\ UnitsRow(r) /\ r.unit = d.unit /\ r.auth = MarkerAt(r.unit).auth
             /\ ~r.hasRecord /\ ~r.class.canRecord
  <2>1. d.unit \in Units /\ rt[d.unit] \in Snapshot
      BY ScannedKnown, SessionConstants DEF SessionInv
  <2>2. PICK r : r = UnitRow(d, rt[d.unit])
      OBVIOUS
  <2>3. /\ r.unit = d.unit /\ r.definition = d.state /\ RecordSpared(r)
        /\ r.id = d.marker.id /\ r.auth = d.marker.auth
        /\ ~r.drift /\ ~r.corrupt /\ ~r.hasRecord
      BY <1>4, <2>1, <2>2, UnitRowKnown DEF SessionInv
  <2> QED
      BY <1>4, <2>1, <2>2, <2>3 DEF UnitsRow, RecordSpared
<1>7. HasUnits(rows)
    BY <1>5, <1>6 DEF HasUnits, UnitsRow
<1>8. \A r \in rows : /\ UnitsRow(r) /\ r.auth = MarkerAt(r.unit).auth
                      /\ ~r.hasRecord /\ ~r.class.canRecord
    BY <1>6
<1> HIDE DEF rows
<1>9. \A u \in Units : Owned(u)' => \E r \in rows : r.unit = u /\ r.id = MarkerAt(u)'.id
    BY <1>3, <1>7, SameShares DEF HasUnits
<1>10. \A r \in rows : /\ UnitsRow(r)' /\ r.auth = MarkerAt(r.unit)'.auth
                       /\ ~r.hasRecord /\ ~r.class.canRecord
    BY <1>3, <1>8, SameShares DEF UnitsRow
<1>11. scan'[f].step = "store" /\ scan'[f].rows = rows
    BY <1>2
<1> QED
    BY <1>9, <1>10, <1>11 DEF ScanTrue, HasUnits

\* So does the reading of the Store.
LEMMA ReadStoreTrue ==
    ASSUME SessionInv, NEW f \in Lists, ScanTrue(f), ReadStore(f)
    PROVE  ScanTrue(f)'
<1> DEFINE found == scan[f].rows
           recorded == {i \in Ids : record[i] # None}
           matched == {i \in recorded : \E r \in found : r.id = i}
           rows == {IF r.id \in matched THEN Merged(r, record[r.id]) ELSE r : r \in found}
                   \cup {RecordRow(i, record[i]) : i \in recorded \ matched}
<1>1. /\ scan[f].step = "store"
      /\ scan' = [scan EXCEPT ![f] = [step |-> "inventory", rows |-> rows]]
      /\ UNCHANGED <<mountUnit, automountUnit, record, overlapped>>
    BY DEF ReadStore, disk
<1>2. scan'[f].step = "inventory" /\ scan'[f].rows = rows
    BY <1>1 DEF SessionInv, TypeOK
<1>3. SUFFICES ASSUME f \notin overlapped PROVE ScanTrue(f)'
    BY <1>1 DEF ScanTrue
<1>4. \A r \in found : r \in Row /\ RowKnown(r) /\ ~r.drift /\ ~r.corrupt
    BY <1>1 DEF SessionInv, TypeOK, Scan, ListsKnown, ListKnown
<1>5. /\ HasUnits(found)
      /\ \A r \in found : /\ UnitsRow(r) /\ r.auth = MarkerAt(r.unit).auth
                          /\ ~r.hasRecord /\ ~r.class.canRecord
    BY <1>1, <1>3 DEF ScanTrue
<1>6. \A i \in recorded : i \in Ids /\ Recorded(i) /\ record[i] \in Record \cup Corrupt
    BY DEF SessionInv, TypeOK, Recorded
<1>7. \A i \in Ids : Recorded(i) => i \in recorded
    BY DEF Recorded
<1>8. ASSUME NEW r \in found, r.id \in matched
      PROVE  /\ Merged(r, record[r.id]).id = r.id /\ Merged(r, record[r.id]).unit = r.unit
             /\ RowTrue(Merged(r, record[r.id]))
  <2>1. PICK k : k = Merged(r, record[r.id])
      OBVIOUS
  <2>2. r.id \in Ids /\ Recorded(r.id) /\ record[r.id] \in Record \cup Corrupt
      BY <1>6, <1>8
  <2>3. /\ k.id = r.id /\ k.unit = r.unit /\ k.hasRecord /\ k.definition = r.definition
        /\ k.corrupt <=> record[r.id] \in Corrupt
        /\ k.drift <=> record[r.id] \notin Corrupt /\ storeDefinitionDrift(record[r.id], r)
        /\ RecordSpared(k)
      BY <1>4, <1>5, <2>1, <2>2, MergedKnown
  <2>4. UnitsRow(k)
      BY <1>5, <2>3 DEF UnitsRow
  <2>5. ~k.corrupt => (k.drift <=> \/ record[k.id].unit # k.unit
                                   \/ record[k.id].auth # MarkerAt(k.unit).auth)
      BY <1>5, <2>3 DEF storeDefinitionDrift
  <2>6. RowTrue(k)
      BY <2>2, <2>3, <2>4, <2>5 DEF RowTrue
  <2> QED
      BY <2>1, <2>3, <2>6
<1>9. ASSUME NEW r \in found, r.id \notin matched
      PROVE  RowTrue(r)
  <2>1. r.id \in Ids
    <3>1. r.unit \in Units /\ Owned(r.unit) /\ r.id = MarkerAt(r.unit).id
        BY <1>5 DEF UnitsRow
    <3> QED
        BY <3>1, DefinitionKnown DEF SessionInv, TypeOK, Owned, DefinitionAt, MarkerAt, Marker
  <2>2. ~Recorded(r.id)
      BY <1>7, <1>9, <2>1
  <2> QED
      BY <1>5, <2>2 DEF RowTrue, RecordSpared
<1>10. ASSUME NEW i \in recorded \ matched
       PROVE  RecordRow(i, record[i]).id = i /\ RowTrue(RecordRow(i, record[i]))
  <2>1. PICK k : k = RecordRow(i, record[i])
      OBVIOUS
  <2>2. i \in Ids /\ Recorded(i) /\ record[i] \in Record \cup Corrupt
      BY <1>6
  <2>3. /\ k.id = i /\ k.hasRecord
        /\ k.definition \in {"Pair", "Partial"} => k.drift
      BY <2>1, <2>2, RecordRowKnown DEF SessionInv
  <2>4. ASSUME record[i] \notin Corrupt, Defines(record[i].unit, i)
        PROVE  FALSE
    <3>1. record[i].unit \in Units
        BY <2>2, <2>4 DEF Record
    <3>2. PICK r \in found : r.unit = record[i].unit /\ r.id = i
        BY <1>5, <2>4, <3>1 DEF HasUnits, Defines
    <3> QED
        BY <3>2
  <2>5. RowTrue(k)
      BY <2>2, <2>3, <2>4 DEF RowTrue, RecordSpared
  <2> QED
      BY <2>1, <2>3, <2>5
<1>11. HasUnits(rows)
  <2> SUFFICES ASSUME NEW u \in Units, Owned(u)
               PROVE  \E k \in rows : k.unit = u /\ k.id = MarkerAt(u).id
      BY DEF HasUnits
  <2>1. PICK r \in found : r.unit = u /\ r.id = MarkerAt(u).id
      BY <1>5 DEF HasUnits
  <2>2. CASE r.id \in matched
    <3>1. Merged(r, record[r.id]) \in rows
        BY <2>2
    <3> QED
        BY <1>8, <2>1, <2>2, <3>1
  <2>3. CASE r.id \notin matched
    <3>1. r \in rows
        BY <2>3
    <3> QED
        BY <2>1, <3>1
  <2> QED
      BY <2>2, <2>3
<1>12. HasRecords(rows)
  <2> SUFFICES ASSUME NEW i \in Ids, Recorded(i)
               PROVE  \E k \in rows : k.id = i
      BY DEF HasRecords
  <2>1. CASE i \in matched
    <3>1. PICK r \in found : r.id = i
        BY <2>1
    <3>2. Merged(r, record[r.id]) \in rows
        BY <2>1, <3>1
    <3> QED
        BY <1>8, <2>1, <3>1, <3>2
  <2>2. CASE i \notin matched
    <3>1. i \in recorded \ matched
        BY <1>7, <2>2
    <3>2. RecordRow(i, record[i]) \in rows
        BY <3>1
    <3> QED
        BY <1>10, <3>1, <3>2
  <2> QED
      BY <2>1, <2>2
<1>13. \A r \in rows : RowTrue(r)
    BY <1>8, <1>9, <1>10
<1> HIDE DEF rows
<1>14. \A u \in Units : Owned(u)' => \E r \in rows : r.unit = u /\ r.id = MarkerAt(u)'.id
    BY <1>1, <1>11, SameShares DEF HasUnits
<1>15. \A i \in Ids : Recorded(i)' => \E r \in rows : r.id = i
    BY <1>1, <1>12, SameShares DEF HasRecords
<1>16. \A r \in rows : RowTrue(r)'
    BY <1>1, <1>13, SameShares DEF RowTrue, UnitsRow, RecordSpared
<1> QED
    BY <1>2, <1>14, <1>15, <1>16 DEF ScanTrue, HasUnits, HasRecords

\* So every step keeps what the refreshes have put together.
LEMMA ViewStep ==
    SessionInv /\ ScansTrue /\ [Next]_vars => ScansTrue'
<1> SUFFICES ASSUME SessionInv, ScansTrue, [Next]_vars, NEW f \in Lists PROVE ScanTrue(f)'
    BY DEF ScansTrue
<1>1. ScanTrue(f)
    BY DEF ScansTrue
<1>2. CASE Publish(f)
  <2>1. scan'[f] = NoScan
      BY <1>2 DEF Publish, SessionInv, TypeOK
  <2> QED
      BY <2>1 DEF ScanTrue, NoScan
<1> QED
    BY <1>1, <1>2, ListMoves, ScanStays, ScanUnitsTrue, ReadStoreTrue

\* A true row, classified again or not, offers a removal that fits.
LEMMA TrueRowOffers ==
    ASSUME SessionInv, NEW r \in Row, RowTrue(r), r.class.canDefinition <=> HelperAccepts(r)
    PROVE  Truthful(Shown(r))
<1> DEFINE row == Shown(r)
<1>1. row.id = r.id /\ row.unit = r.unit /\ row.kind = rowRemoval(r.class, r.hasRecord, r.hasFiles)
    BY DEF Shown
<1>2. /\ RecordSpared(r)
      /\ \/ UnitsRow(r) /\ ~r.hasRecord /\ ~Recorded(r.id)
         \/ /\ UnitsRow(r) /\ r.hasRecord /\ Recorded(r.id)
            /\ r.corrupt <=> record[r.id] \in Corrupt
            /\ ~r.corrupt => (r.drift <=> \/ record[r.id].unit # r.unit
                                          \/ record[r.id].auth # MarkerAt(r.unit).auth)
         \/ /\ r.hasRecord /\ r.id \in Ids /\ Recorded(r.id)
            /\ r.definition \in {"Pair", "Partial"} => r.drift
            /\ record[r.id] \in Corrupt \/ ~Defines(record[r.id].unit, r.id)
    BY DEF RowTrue
<1>3. UnitsRow(r) => r.id \in Ids /\ r.unit \in Where[r.id] /\ Defines(r.unit, r.id)
  <2> SUFFICES ASSUME UnitsRow(r)
               PROVE  r.id \in Ids /\ r.unit \in Where[r.id] /\ Defines(r.unit, r.id)
      OBVIOUS
  <2>1. TypeOK /\ r.unit \in Units /\ Owned(r.unit) /\ r.id = MarkerAt(r.unit).id
      BY DEF SessionInv, UnitsRow
  <2>2. r.id \in Ids
      BY <2>1, DefinitionKnown DEF TypeOK, Owned, DefinitionAt, MarkerAt, Marker
  <2> QED
      BY <2>1, <2>2, DefinesHalf DEF Defines
<1>4. \A i \in Ids : record[i] # None => record[i] \in Corrupt \/ record[i] \in Record
    BY DEF SessionInv, TypeOK
<1>5. CASE row.kind = "delete"
  <2>1. r.hasRecord /\ HelperAccepts(r)
      BY <1>1, <1>5 DEF rowRemoval
  <2>2. r.definition \in {"Pair", "Partial"} /\ ~r.drift /\ ~r.corrupt
      BY <2>1 DEF HelperAccepts
  <2>3. /\ UnitsRow(r) /\ Recorded(r.id) /\ record[r.id] \notin Corrupt
        /\ record[r.id].unit = r.unit
      BY <1>2, <2>1, <2>2
  <2>4. record[r.id] \in Record
      BY <1>3, <1>4, <2>3 DEF Recorded
  <2> QED
      BY <1>1, <1>3, <1>5, <2>3, <2>4 DEF Truthful
<1>6. CASE row.kind = "removeOrphan"
  <2>1. ~r.hasRecord
      BY <1>1, <1>6 DEF rowRemoval
  <2>2. UnitsRow(r) /\ ~Recorded(r.id)
      BY <1>2, <2>1
  <2>3. Owned(row.unit) /\ ~Recorded(MarkerAt(row.unit).id)
      BY <1>1, <2>2 DEF UnitsRow
  <2> QED
      BY <1>6, <2>3 DEF Truthful
<1>7. CASE row.kind = "removeRecord"
  <2>1. r.hasRecord /\ r.class.canRecord
      BY <1>1, <1>7 DEF rowRemoval
  <2>2. Recorded(r.id)
      BY <1>2, <2>1
  <2>3. \/ record[r.id] \in Corrupt
        \/ ~Defines(record[r.id].unit, r.id)
        \/ record[r.id].auth # MarkerAt(record[r.id].unit).auth
    <3>1. CASE UnitsRow(r) /\ ~r.corrupt
      <4>1. r.drift
          BY <1>2, <2>1, <3>1 DEF UnitsRow, RecordSpared
      <4>2. \/ record[r.id] \in Corrupt
            \/ ~Defines(record[r.id].unit, r.id)
            \/ record[r.id].unit # r.unit \/ record[r.id].auth # MarkerAt(r.unit).auth
          BY <1>2, <2>1, <3>1, <4>1
      <4>3. ASSUME record[r.id] \notin Corrupt, record[r.id].unit # r.unit
            PROVE  ~Defines(record[r.id].unit, r.id)
        <5>1. record[r.id] \in Record
            BY <1>3, <1>4, <2>2, <3>1, <4>3 DEF Recorded
        <5>2. record[r.id].unit \in Units /\ Where[r.id] \subseteq {r.unit}
            BY <1>3, <3>1, <5>1 DEF Record, SessionInv, FilesKnown, HomeIs
        <5> QED
            BY <1>3, <3>1, <4>3, <5>2, DefinesHalf DEF SessionInv
      <4> QED
          BY <4>2, <4>3
    <3>2. CASE ~(UnitsRow(r) /\ ~r.corrupt)
        BY <1>2, <2>1, <3>2
    <3> QED
        BY <3>1, <3>2
  <2> QED
      BY <1>1, <1>7, <2>2, <2>3 DEF Truthful
<1>8. CASE row.kind \notin {"delete", "removeOrphan", "removeRecord"}
    BY <1>8 DEF Truthful
<1> QED
    BY <1>5, <1>6, <1>7, <1>8

\* What the inventory adds to the rows changes none of that.
LEMMA InventoryKeepsTruth ==
    ASSUME NEW rows \in SUBSET Row, NEW h \in SUBSET InventoryIds,
           \A r \in rows : RowTrue(r) /\ (r.class.canDefinition <=> HelperAccepts(r))
    PROVE  LET with == WithInventory(rows, h) IN
           /\ \A k \in with : /\ k \in Row /\ RowTrue(k)
                              /\ k.class.canDefinition <=> HelperAccepts(k)
           /\ \A r \in rows : \E k \in with : k.id = r.id /\ k.unit = r.unit
<1> DEFINE again(r) == Classified(r, TRUE, r.id \in h, FALSE)
           of(r) == IF r.id \in InventoryIds /\ ~r.corrupt /\ ~r.drift THEN again(r) ELSE r
<1>1. WithInventory(rows, h) = {of(r) : r \in rows}
    BY DEF WithInventory
<1>2. ASSUME NEW r \in rows
      PROVE  IsClassified(again(r), r)
  <2> DEFINE healthy == r.id \in h
  <2>1. healthy \in BOOLEAN
      OBVIOUS
  <2>2. again(r) = Classified(r, TRUE, healthy, FALSE)
      OBVIOUS
  <2> HIDE DEF healthy, again
  <2> QED
      BY <2>1, <2>2, ClassifiedRow
<1>3. ASSUME NEW r \in rows
      PROVE  /\ again(r) \in Row /\ RowTrue(again(r))
             /\ again(r).class.canDefinition <=> HelperAccepts(again(r))
             /\ again(r).id = r.id /\ again(r).unit = r.unit
  <2> HIDE DEF again
  <2>1. IsClassified(again(r), r)
      BY <1>2
  <2> QED
      BY <2>1 DEF IsClassified, RowTrue, UnitsRow
<1> HIDE DEF again
<1>4. \A r \in rows : /\ of(r) \in Row /\ RowTrue(of(r))
                      /\ of(r).class.canDefinition <=> HelperAccepts(of(r))
                      /\ of(r).id = r.id /\ of(r).unit = r.unit
    BY <1>3
<1> HIDE DEF of
<1> QED
    BY <1>1, <1>4

\* MountModel::computeRefresh and the merge of its sources: a refresh under which
\* nothing changes shows every definition of the user and every record, and every
\* row offers the removal that fits, whatever the runtimes and the inventory say.
THEOREM ViewsAreFaithful == Spec => ViewFaithful
<1> DEFINE Faithful(f) ==
               scan[f].step = "inventory" /\ scan'[f].step = "none" /\ f \notin overlapped =>
                  /\ \A u \in Units : Owned(u) =>
                        \E row \in view'[f] : row.unit = u /\ row.id = MarkerAt(u).id
                  /\ \A i \in Ids : Recorded(i) => \E row \in view'[f] : row.id = i
                  /\ \A row \in view'[f] : Truthful(row)
<1>1. Init => ScansTrue
    BY DEF Init, FreshScan, ScansTrue, ScanTrue
<1>2. Spec => []ScansTrue
    BY <1>1, SessionKnown, ViewStep, PTL DEF Spec
<1>3. ASSUME SessionInv, ScansTrue, [Next]_vars, NEW f \in Lists
      PROVE  Faithful(f)
  <2> SUFFICES ASSUME scan[f].step = "inventory", scan'[f].step = "none", f \notin overlapped
               PROVE  /\ \A u \in Units : Owned(u) =>
                            \E row \in view'[f] : row.unit = u /\ row.id = MarkerAt(u).id
                      /\ \A i \in Ids : Recorded(i) => \E row \in view'[f] : row.id = i
                      /\ \A row \in view'[f] : Truthful(row)
      OBVIOUS
  <2>1. Publish(f)
      BY <1>3, ListMoves DEF Undisturbed, FreshScan, ScanUnits, ReadStore
  <2>2. PICK rows \in {scan[f].rows} \cup {WithInventory(scan[f].rows, h) : h \in SUBSET InventoryIds} :
            view' = [view EXCEPT ![f] = {Shown(r) : r \in rows}]
      BY <2>1 DEF Publish
  <2>3. /\ scan[f].rows \in SUBSET Row /\ HasUnits(scan[f].rows) /\ HasRecords(scan[f].rows)
        /\ \A r \in scan[f].rows : RowTrue(r) /\ (r.class.canDefinition <=> HelperAccepts(r))
      BY <1>3 DEF SessionInv, TypeOK, Scan, ListsKnown, ListKnown, RowKnown, ScansTrue, ScanTrue
  <2>4. /\ \A k \in rows : k \in Row /\ RowTrue(k) /\ (k.class.canDefinition <=> HelperAccepts(k))
        /\ \A r \in scan[f].rows : \E k \in rows : k.id = r.id /\ k.unit = r.unit
      BY <2>2, <2>3, InventoryKeepsTruth
  <2>5. view'[f] = {Shown(r) : r \in rows}
      BY <1>3, <2>2 DEF SessionInv, TypeOK
  <2>6. \A r \in rows : Shown(r).id = r.id /\ Shown(r).unit = r.unit
      BY DEF Shown
  <2>7. \A u \in Units : Owned(u) => \E k \in rows : k.unit = u /\ k.id = MarkerAt(u).id
      BY <2>3, <2>4 DEF HasUnits
  <2>8. \A i \in Ids : Recorded(i) => \E k \in rows : k.id = i
      BY <2>3, <2>4 DEF HasRecords
  <2>9. \A row \in view'[f] : Truthful(row)
      BY <1>3, <2>4, <2>5, TrueRowOffers
  <2> QED
      BY <2>5, <2>6, <2>7, <2>8, <2>9
<1>4. SessionInv /\ ScansTrue /\ [Next]_vars => [\A f \in Lists : Faithful(f)]_vars
    BY <1>3
<1> QED
    BY <1>2, <1>4, SessionKnown, PTL DEF Spec, ViewFaithful

=============================================================================
