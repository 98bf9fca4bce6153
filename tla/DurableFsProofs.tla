--------------------------- MODULE DurableFsProofs ---------------------------
(* Proofs about DurableFs, for any names, contents and faults: TypeOK, FsInv *)
(* and AckDurable hold in every reachable state, and every step is a step of *)
(* DurableStore or leaves it alone.                                          *)
EXTENDS DurableFs, TLAPS

\* FsInv is inductive only together with the types and with what an
\* acknowledgement means, which the last step of a call establishes.
Inv == TypeOK /\ FsInv /\ AckDurable

-----------------------------------------------------------------------------
(* Facts about the operators.                                               *)

\* A call that goes on changes its step only.
LEMMA GotoFacts ==
  ASSUME NEW s \in Steps, call \in Call, Goto(s)
  PROVE  /\ call # None /\ call' # None /\ call' \in Call
         /\ call'.step = s /\ call'.op = call.op /\ call'.name = call.name
         /\ call'.data = call.data /\ call'.temp = call.temp
BY DurableFsAssumption DEF Goto, Call

\* What power loss makes of nothing, of a flushed file and of another.
LEMMA OnDiskFacts ==
  /\ OnDisk(None) = {None}
  /\ \A c \in Contents : OnDisk([data |-> c, synced |-> TRUE]) = {c}
  /\ \A c \in Contents : OnDisk([data |-> c, synced |-> FALSE]) = {c, Torn}
<1>1. \A c \in Contents, b \in BOOLEAN : [data |-> c, synced |-> b] # None
  BY DurableFsAssumption DEF File
<1> QED
  BY <1>1 DEF OnDisk

\* One entry changes; its earlier values may still come back.
LEMMA ShowFacts ==
  ASSUME TypeOK, NEW e \in Entries, NEW f \in File \cup {None}, Show(e, f)
  PROVE  /\ file' \in [Entries -> File \cup {None}]
         /\ kept' \in [Entries -> SUBSET (Contents \cup {None})]
         /\ file'[e] = f /\ kept'[e] = kept[e] \cup OnDisk(f)
         /\ \A x \in Entries \ {e} : file'[x] = file[x] /\ kept'[x] = kept[x]
<1>1. OnDisk(f) \subseteq Contents \cup {None}
  BY DEF OnDisk, File, Contents
<1> QED
  BY <1>1 DEF Show, TypeOK

\* A temporary name is not one of the names.
LEMMA Disjoint == /\ \A t \in Temps : t \in Entries /\ t \notin Names
                  /\ \A n \in Names : n \in Entries /\ n \notin Temps
BY DurableFsAssumption DEF Entries

-----------------------------------------------------------------------------
(* The invariant: one lemma per action.                                     *)

LEMMA MakeDirKeeps == Inv /\ MakeDir => Inv'
<1> SUFFICES ASSUME Inv, MakeDir PROVE Inv'
  OBVIOUS
<1> USE DurableFsAssumption DEF Inv, FsInv, AckDurable
<1>1. call \in Call /\ call # None /\ call.step = "mkdir" /\ call.op \in {"write", "remove"}
  BY DEF MakeDir, TypeOK, At, CallInv, StepsOfOp, Call, Ops
<1>2. CASE dir
  <2>1. Goto(Opened) /\ UNCHANGED <<dir, dirKept, file, kept, lapse>>
    BY <1>2 DEF MakeDir
  <2>2. /\ call' # None /\ call' \in Call
        /\ call'.step = Opened /\ call'.op = call.op /\ call'.name = call.name
        /\ call'.data = call.data /\ call'.temp = call.temp
    BY <1>1, <2>1, GotoFacts DEF Opened, Steps
  <2>3. TypeOK'
    BY <2>1, <2>2 DEF TypeOK, Entries
  <2>4. (call # None => StepsOfOp)'
    BY <1>1, <2>1, <2>2 DEF CallInv, StepsOfOp, Opened
  <2>5. (call # None => HasDir)'
    BY <1>1, <1>2, <2>1, <2>2 DEF HasDir, Opened
  <2>6. (call # None => KnowsTemp /\ KnowsResult)'
    BY <1>1, <2>1, <2>2 DEF KnowsTemp, KnowsResult, Opened
  <2>7. AckDurable'
    BY <1>1, <2>2 DEF WriteDurable, RemoveDurable, TreeDurable, At, Opened
  <2>8. DirInv' /\ ShownKept' /\ NeverTorn' /\ NamesSynced'
    BY <2>1 DEF DirInv, ShownKept, NeverTorn, NamesSynced, OnDisk
  <2>9. MkdirWindow' /\ UnlinkWindow'
    BY <1>1, <2>1, <2>2 DEF MkdirWindow, UnlinkWindow, At
  <2> QED
    BY <2>3, <2>4, <2>5, <2>6, <2>7, <2>8, <2>9 DEF CallInv
<1>3. CASE ~dir
  <2>1. Goto("syncParent") /\ dir' = TRUE /\ dirKept' = dirKept \cup {TRUE} /\ UNCHANGED <<file, kept, lapse>>
    BY <1>3 DEF MakeDir
  <2>2. /\ call' # None /\ call' \in Call
        /\ call'.step = "syncParent" /\ call'.op = call.op /\ call'.name = call.name
        /\ call'.data = call.data /\ call'.temp = call.temp
    BY <1>1, <2>1, GotoFacts DEF Steps
  <2>3. TypeOK'
    BY <2>1, <2>2 DEF TypeOK, Entries
  <2>4. (call # None => StepsOfOp)'
    BY <1>1, <2>1, <2>2 DEF CallInv, StepsOfOp
  <2>5. (call # None => HasDir)'
    BY <1>1, <1>3, <2>1, <2>2 DEF HasDir
  <2>6. (call # None => KnowsTemp /\ KnowsResult)'
    BY <1>1, <2>1, <2>2 DEF KnowsTemp, KnowsResult
  <2>7. AckDurable'
    BY <1>1, <2>2 DEF WriteDurable, RemoveDurable, TreeDurable, At
  <2>8. DirInv' /\ ShownKept' /\ NeverTorn' /\ NamesSynced'
    BY <2>1 DEF DirInv, ShownKept, NeverTorn, NamesSynced, OnDisk
  <2>9. MkdirWindow' /\ UnlinkWindow'
    BY <1>1, <2>1, <2>2 DEF MkdirWindow, UnlinkWindow, At
  <2> QED
    BY <2>3, <2>4, <2>5, <2>6, <2>7, <2>8, <2>9 DEF CallInv
<1> QED
  BY <1>2, <1>3
LEMMA CreateTempKeeps == Inv /\ CreateTemp => Inv'
<1> SUFFICES ASSUME Inv, CreateTemp PROVE Inv'
  OBVIOUS
<1> USE DurableFsAssumption DEF Inv, FsInv, AckDurable
<1>1. call \in Call /\ call # None /\ call.step = "temp" /\ call.op = "write" /\ dir /\ call.data \in Data
  BY DEF CreateTemp, HasDir, TypeOK, At, CallInv, StepsOfOp, Call, Ops
<1>2. PICK t \in FreshTemps : /\ Show(t, [data |-> Torn, synced |-> FALSE])
                              /\ call' = [call EXCEPT !.temp = t, !.step = "fill"]
                              /\ UNCHANGED <<dir, dirKept, lapse>>
  BY DEF CreateTemp
<1>3. t \in Temps /\ t \in Entries /\ t \notin Names /\ kept[t] = {None}
  BY Disjoint DEF FreshTemps
<1>4. /\ call' \in Call /\ call' # None /\ call'.step = "fill" /\ call'.temp = t
      /\ call'.op = call.op /\ call'.name = call.name /\ call'.data = call.data
  BY <1>1, <1>2, <1>3 DEF Call, Steps
<1>5. [data |-> Torn, synced |-> FALSE] \in File
  BY DEF File, Contents
<1>6. /\ file' \in [Entries -> File \cup {None}]
      /\ kept' \in [Entries -> SUBSET (Contents \cup {None})]
      /\ file'[t] = [data |-> Torn, synced |-> FALSE] /\ kept'[t] = {None, Torn}
      /\ \A x \in Entries \ {t} : file'[x] = file[x] /\ kept'[x] = kept[x]
  <2> DEFINE f == [data |-> Torn, synced |-> FALSE]
  <2>1. OnDisk(f) = {Torn}
    BY OnDiskFacts DEF Contents
  <2>2. f \in File /\ Show(t, f)
    BY <1>2, <1>5
  <2> HIDE DEF f
  <2>3. /\ file' \in [Entries -> File \cup {None}]
        /\ kept' \in [Entries -> SUBSET (Contents \cup {None})]
        /\ file'[t] = f /\ kept'[t] = {None, Torn}
        /\ \A x \in Entries \ {t} : file'[x] = file[x] /\ kept'[x] = kept[x]
    BY <1>3, <2>1, <2>2, ShowFacts
  <2> QED
    BY <2>3 DEF f
<1>7. TypeOK'
  BY <1>2, <1>4, <1>6 DEF TypeOK
<1>8. CallInv'
  BY <1>1, <1>2, <1>3, <1>4, <1>6 DEF CallInv, StepsOfOp, HasDir, KnowsTemp, KnowsResult
<1>9. AckDurable' /\ DirInv'
  BY <1>1, <1>2, <1>4 DEF WriteDurable, RemoveDurable, TreeDurable, DirInv, At
<1>10. ShownKept'
  BY <1>3, <1>6, OnDiskFacts DEF ShownKept, Contents
<1>11. NeverTorn' /\ NamesSynced'
  BY <1>3, <1>6, Disjoint DEF NeverTorn, NamesSynced
<1>12. MkdirWindow' /\ UnlinkWindow'
  BY <1>1, <1>2, <1>3, <1>4, <1>6, Disjoint DEF MkdirWindow, UnlinkWindow, At
<1> QED
  BY <1>7, <1>8, <1>9, <1>10, <1>11, <1>12

LEMMA FillTempKeeps == Inv /\ FillTemp => Inv'
<1> SUFFICES ASSUME Inv, FillTemp PROVE Inv'
  OBVIOUS
<1> USE DurableFsAssumption DEF Inv, FsInv, AckDurable
<1>1. /\ call \in Call /\ call # None /\ call.step = "fill" /\ call.op = "write" /\ dir /\ call.data \in Data
      /\ call.temp \in Temps /\ kept[call.temp] = {None, Torn}
  BY DEF FillTemp, HasDir, TypeOK, At, CallInv, StepsOfOp, KnowsTemp, Call, Ops
<1>2. Show(call.temp, [data |-> call.data, synced |-> FALSE]) /\ Goto("syncFile") /\ UNCHANGED <<dir, dirKept, lapse>>
  BY DEF FillTemp
<1>3. call.temp \in Entries /\ call.temp \notin Names
  BY <1>1, Disjoint
<1>4. /\ call' \in Call /\ call' # None /\ call'.step = "syncFile" /\ call'.temp = call.temp
      /\ call'.op = call.op /\ call'.name = call.name /\ call'.data = call.data
  BY <1>1, <1>2, GotoFacts DEF Steps
<1>6. /\ file' \in [Entries -> File \cup {None}]
      /\ kept' \in [Entries -> SUBSET (Contents \cup {None})]
      /\ file'[call.temp] = [data |-> call.data, synced |-> FALSE] /\ kept'[call.temp] = {None, Torn, call.data}
      /\ \A x \in Entries \ {call.temp} : file'[x] = file[x] /\ kept'[x] = kept[x]
  <2> DEFINE f == [data |-> call.data, synced |-> FALSE]
  <2>1. OnDisk(f) = {call.data, Torn}
    BY <1>1, OnDiskFacts DEF Contents
  <2>2. f \in File /\ Show(call.temp, f)
    BY <1>1, <1>2 DEF File, Contents
  <2> HIDE DEF f
  <2>3. /\ file' \in [Entries -> File \cup {None}]
        /\ kept' \in [Entries -> SUBSET (Contents \cup {None})]
        /\ file'[call.temp] = f /\ kept'[call.temp] = {None, Torn, call.data}
        /\ \A x \in Entries \ {call.temp} : file'[x] = file[x] /\ kept'[x] = kept[x]
    BY <1>1, <1>3, <2>1, <2>2, ShowFacts
  <2> QED
    BY <2>3 DEF f
<1>7. TypeOK'
  BY <1>2, <1>4, <1>6 DEF TypeOK
<1>8. CallInv'
  BY <1>1, <1>2, <1>3, <1>4, <1>6 DEF CallInv, StepsOfOp, HasDir, KnowsTemp, KnowsResult
<1>9. AckDurable' /\ DirInv'
  BY <1>1, <1>2, <1>4 DEF WriteDurable, RemoveDurable, TreeDurable, DirInv, At
<1>10. ShownKept'
  BY <1>1, <1>3, <1>6, OnDiskFacts DEF ShownKept, Contents
<1>11. NeverTorn' /\ NamesSynced'
  BY <1>3, <1>6, Disjoint DEF NeverTorn, NamesSynced
<1>12. MkdirWindow' /\ UnlinkWindow'
  BY <1>1, <1>2, <1>3, <1>4, <1>6, Disjoint DEF MkdirWindow, UnlinkWindow, At
<1> QED
  BY <1>7, <1>8, <1>9, <1>10, <1>11, <1>12

LEMMA SyncFileKeeps == Inv /\ SyncFile => Inv'
<1> SUFFICES ASSUME Inv, SyncFile PROVE Inv'
  OBVIOUS
<1> USE DurableFsAssumption DEF Inv, FsInv, AckDurable
<1>1. /\ call \in Call /\ call # None /\ call.step = "syncFile" /\ call.op = "write" /\ dir /\ call.data \in Data
      /\ call.temp \in Temps
  BY DEF SyncFile, HasDir, TypeOK, At, CallInv, StepsOfOp, Call, Ops
<1>2. Goto("rename") /\ UNCHANGED <<dir, dirKept, lapse>>
  BY DEF SyncFile
<1>3. call.temp \in Entries /\ call.temp \notin Names
  BY <1>1, Disjoint
<1>4. /\ call' \in Call /\ call' # None /\ call'.step = "rename" /\ call'.temp = call.temp
      /\ call'.op = call.op /\ call'.name = call.name /\ call'.data = call.data
  BY <1>1, <1>2, GotoFacts DEF Steps
<1>6. /\ file' \in [Entries -> File \cup {None}]
      /\ kept' \in [Entries -> SUBSET (Contents \cup {None})]
      /\ file'[call.temp] = [data |-> call.data, synced |-> TRUE] /\ kept'[call.temp] = {None, call.data}
      /\ \A x \in Entries \ {call.temp} : file'[x] = file[x] /\ kept'[x] = kept[x]
  <2>2. [data |-> call.data, synced |-> TRUE] \in File /\ {None, call.data} \subseteq Contents \cup {None}
    BY <1>1 DEF File, Contents
  <2> QED
    BY <1>3, <2>2 DEF SyncFile, TypeOK
<1>7. TypeOK'
  BY <1>2, <1>4, <1>6 DEF TypeOK
<1>8. CallInv'
  BY <1>1, <1>2, <1>3, <1>4, <1>6 DEF CallInv, StepsOfOp, HasDir, KnowsTemp, KnowsResult
<1>9. AckDurable' /\ DirInv'
  BY <1>1, <1>2, <1>4 DEF WriteDurable, RemoveDurable, TreeDurable, DirInv, At
<1>10. ShownKept'
  BY <1>1, <1>3, <1>6, OnDiskFacts DEF ShownKept, Contents
<1>11. NeverTorn' /\ NamesSynced'
  BY <1>3, <1>6, Disjoint DEF NeverTorn, NamesSynced
<1>12. MkdirWindow' /\ UnlinkWindow'
  BY <1>1, <1>2, <1>3, <1>4, <1>6, Disjoint DEF MkdirWindow, UnlinkWindow, At
<1> QED
  BY <1>7, <1>8, <1>9, <1>10, <1>11, <1>12

LEMMA RenameKeeps == Inv /\ Rename => Inv'
<1> SUFFICES ASSUME Inv, Rename PROVE Inv'
  OBVIOUS
<1> USE DurableFsAssumption DEF Inv, FsInv, AckDurable
<1>1. /\ call \in Call /\ call # None /\ call.step = "rename" /\ call.op = "write" /\ dir /\ call.data \in Data
      /\ call.temp \in Temps /\ call.name \in Names
      /\ file[call.temp] = [data |-> call.data, synced |-> TRUE] /\ kept[call.temp] = {None, call.data}
  BY DEF Rename, HasDir, TypeOK, At, CallInv, StepsOfOp, KnowsTemp, Call, Ops
<1>2. Goto("syncDir") /\ UNCHANGED <<dir, dirKept, lapse>>
  BY DEF Rename
<1>3. /\ call.temp \in Entries /\ call.temp \notin Names /\ call.name \in Entries /\ call.name # call.temp
  BY <1>1, Disjoint
<1>4. /\ call' \in Call /\ call' # None /\ call'.step = "syncDir" /\ call'.temp = call.temp
      /\ call'.op = call.op /\ call'.name = call.name /\ call'.data = call.data
  BY <1>1, <1>2, GotoFacts DEF Steps
<1>5. [data |-> call.data, synced |-> TRUE] \in File
  BY <1>1 DEF File, Contents
<1>6. /\ file' \in [Entries -> File \cup {None}]
      /\ kept' \in [Entries -> SUBSET (Contents \cup {None})]
      /\ file'[call.name] = [data |-> call.data, synced |-> TRUE] /\ kept'[call.name] = kept[call.name] \cup {call.data}
      /\ file'[call.temp] = None /\ kept'[call.temp] = {None, call.data}
      /\ \A x \in Entries \ {call.temp, call.name} : file'[x] = file[x] /\ kept'[x] = kept[x]
  <2>1. OnDisk(file[call.temp]) = {call.data}
    BY <1>1, OnDiskFacts DEF Contents
  <2> QED
    BY <1>1, <1>3, <1>5, <2>1 DEF Rename, TypeOK, Contents
<1>7. TypeOK'
  BY <1>2, <1>4, <1>6 DEF TypeOK
<1>8. CallInv'
  BY <1>1, <1>2, <1>3, <1>4, <1>6 DEF CallInv, StepsOfOp, HasDir, KnowsTemp, KnowsResult
<1>9. AckDurable' /\ DirInv'
  BY <1>1, <1>2, <1>4 DEF WriteDurable, RemoveDurable, TreeDurable, DirInv, At
<1>10. ShownKept'
  BY <1>1, <1>3, <1>6, OnDiskFacts DEF ShownKept, Contents
<1>11. NeverTorn' /\ NamesSynced'
  <2> SUFFICES ASSUME NEW n \in Names
               PROVE  /\ file'[n] # None => file'[n].data \in Data /\ file'[n].synced
                      /\ Torn \notin kept'[n]
    BY DEF NeverTorn, NamesSynced
  <2>1. n \in Entries /\ n # call.temp
    BY <1>3, Disjoint
  <2>2. CASE n = call.name
    BY <1>1, <1>6, <2>2 DEF NeverTorn
  <2>3. CASE n # call.name
    BY <1>6, <2>1, <2>3 DEF NeverTorn, NamesSynced
  <2> QED
    BY <2>2, <2>3
<1>12. MkdirWindow'
  BY <1>1, <1>2, <1>4 DEF MkdirWindow, At
<1>13. UnlinkWindow'
  <2> SUFFICES ASSUME NEW n \in Names, file'[n] = None, kept'[n] # {None} PROVE "unlink" \in lapse'
    BY DEF UnlinkWindow
  <2>1. n \in Entries /\ n # call.temp /\ n # call.name
    BY <1>3, <1>5, <1>6, Disjoint
  <2> QED
    BY <1>1, <1>2, <1>6, <2>1 DEF UnlinkWindow, At
<1> QED
  BY <1>7, <1>8, <1>9, <1>10, <1>11, <1>12, <1>13

LEMMA SyncParentKeeps == Inv /\ SyncParent => Inv'
<1> SUFFICES ASSUME Inv, SyncParent PROVE Inv'
  OBVIOUS
<1> USE DurableFsAssumption DEF Inv, FsInv, AckDurable
<1>1. /\ call \in Call /\ call # None /\ call.step = "syncParent" /\ call.op \in Ops
      /\ dir <=> call.op # "tree"
  BY DEF SyncParent, HasDir, TypeOK, At, CallInv, Call
<1>2. /\ Goto(IF call.op = "tree" THEN "ok" ELSE Opened)
      /\ dirKept' = {dir} /\ lapse' = lapse \ {"mkdir"} /\ UNCHANGED <<dir, file, kept>>
  BY DEF SyncParent, Goto
<1>3. /\ call' \in Call /\ call' # None /\ call'.temp = call.temp
      /\ call'.op = call.op /\ call'.name = call.name /\ call'.data = call.data
      /\ call'.step = IF call.op = "tree" THEN "ok" ELSE IF call.op = "write" THEN "temp" ELSE "unlink"
  BY <1>1, <1>2, GotoFacts DEF Steps, Opened
<1>4. TypeOK'
  BY <1>2, <1>3 DEF TypeOK
<1>5. CallInv'
  BY <1>1, <1>2, <1>3 DEF CallInv, StepsOfOp, HasDir, KnowsTemp, KnowsResult, Ops
<1>6. DirInv' /\ ShownKept' /\ NeverTorn' /\ NamesSynced'
  BY <1>2 DEF DirInv, ShownKept, NeverTorn, NamesSynced, OnDisk
<1>7. MkdirWindow'
  BY <1>2 DEF MkdirWindow, TypeOK
<1>8. UnlinkWindow'
  BY <1>1, <1>2, <1>3 DEF UnlinkWindow, At
<1>9. AckDurable'
  BY <1>1, <1>2, <1>3 DEF WriteDurable, RemoveDurable, TreeDurable, DirInv, At
<1> QED
  BY <1>4, <1>5, <1>6, <1>7, <1>8, <1>9

\* A call that ends badly leaves the disk as it is, and owns up to what it
\* left undone.
LEMMA FailKeeps ==
  ASSUME Inv, call # None, Fail, UNCHANGED disk
  PROVE  Inv'
<1> USE DurableFsAssumption DEF Inv, FsInv, AckDurable
<1>1. /\ call' = None /\ lapse \subseteq lapse' /\ lapse' \in SUBSET {"mkdir", "unlink"}
      /\ UNCHANGED <<dir, dirKept, file, kept>>
  BY DEF Fail, Undone, disk, TypeOK
<1>2. TypeOK' /\ CallInv' /\ AckDurable'
  BY <1>1 DEF TypeOK, CallInv, WriteDurable, RemoveDurable, TreeDurable, At
<1>3. DirInv' /\ ShownKept' /\ NeverTorn' /\ NamesSynced'
  BY <1>1 DEF DirInv, ShownKept, NeverTorn, NamesSynced, OnDisk
<1>4. MkdirWindow'
  <2>1. At("syncParent") /\ dir => "mkdir" \in lapse'
    BY DEF At, Fail, Undone, CallInv, HasDir
  <2> QED
    BY <1>1, <2>1 DEF MkdirWindow
<1>5. UnlinkWindow'
  <2>1. At("clear") \/ (At("syncDir") /\ call.op # "write") => "unlink" \in lapse'
    BY DEF Fail, Undone
  <2> QED
    BY <1>1, <2>1 DEF UnlinkWindow
<1> QED
  BY <1>2, <1>3, <1>4, <1>5

LEMMA StepFailsKeeps == Inv /\ StepFails => Inv'
<1> SUFFICES ASSUME Inv, StepFails PROVE Inv'
  OBVIOUS
<1> USE DurableFsAssumption DEF Inv, FsInv, AckDurable
<1>1. CASE Fail
  BY <1>1, FailKeeps DEF StepFails
<1>2. CASE ~Fail
  <2>1. /\ call \in Call /\ call # None /\ call.step \in {"fill", "syncFile", "rename"}
        /\ call.op = "write" /\ call.data \in Data /\ call.temp \in Temps /\ dir
    BY <1>2 DEF StepFails, TypeOK, CallInv, StepsOfOp, HasDir, Call, Ops
  <2>2. Goto("abandon") /\ UNCHANGED <<dir, dirKept, file, kept, lapse>>
    BY <1>2 DEF StepFails, disk
  <2>3. /\ call' \in Call /\ call' # None /\ call'.step = "abandon" /\ call'.temp = call.temp
        /\ call'.op = call.op /\ call'.name = call.name /\ call'.data = call.data
    BY <2>1, <2>2, GotoFacts DEF Steps
  <2>4. TypeOK' /\ CallInv' /\ AckDurable'
    BY <2>1, <2>2, <2>3 DEF TypeOK, CallInv, StepsOfOp, HasDir, KnowsTemp, KnowsResult,
                            WriteDurable, RemoveDurable, TreeDurable, At
  <2>5. DirInv' /\ ShownKept' /\ NeverTorn' /\ NamesSynced' /\ MkdirWindow' /\ UnlinkWindow'
    BY <2>1, <2>2, <2>3 DEF DirInv, ShownKept, NeverTorn, NamesSynced, OnDisk, MkdirWindow, UnlinkWindow, At
  <2> QED
    BY <2>4, <2>5
<1> QED
  BY <1>1, <1>2

LEMMA CallerDiesKeeps == Inv /\ CallerDies => Inv'
BY FailKeeps DEF CallerDies

LEMMA AbandonKeeps == Inv /\ Abandon => Inv'
<1> SUFFICES ASSUME Inv, Abandon PROVE Inv'
  OBVIOUS
<1> USE DurableFsAssumption DEF Inv, FsInv, AckDurable
<1>1. /\ call \in Call /\ call # None /\ call.step = "abandon" /\ call.op = "write" /\ dir
      /\ call.temp \in Temps
  BY DEF Abandon, HasDir, TypeOK, At, CallInv, StepsOfOp, Call, Ops
<1>2. CASE UNCHANGED <<file, kept>>
  BY <1>1, <1>2, FailKeeps DEF Abandon, disk
<1>3. CASE Show(call.temp, None)
  <2>1. call' = None /\ lapse' = lapse /\ UNCHANGED <<dir, dirKept>>
    BY <1>1 DEF Abandon, Fail, Undone, At
  <2>2. call.temp \in Entries /\ call.temp \notin Names
    BY <1>1, Disjoint
  <2>3. /\ file' \in [Entries -> File \cup {None}]
        /\ kept' \in [Entries -> SUBSET (Contents \cup {None})]
        /\ file'[call.temp] = None /\ None \in kept'[call.temp]
        /\ \A x \in Entries \ {call.temp} : file'[x] = file[x] /\ kept'[x] = kept[x]
    BY <1>3, <2>2, ShowFacts, OnDiskFacts
  <2>4. TypeOK' /\ CallInv' /\ AckDurable'
    BY <2>1, <2>3 DEF TypeOK, CallInv, WriteDurable, RemoveDurable, TreeDurable, At
  <2>5. DirInv' /\ MkdirWindow'
    BY <1>1, <2>1 DEF DirInv, MkdirWindow, At
  <2>6. ShownKept'
    BY <2>2, <2>3, OnDiskFacts DEF ShownKept
  <2>7. NeverTorn' /\ NamesSynced' /\ UnlinkWindow'
    BY <1>1, <2>1, <2>2, <2>3, Disjoint DEF NeverTorn, NamesSynced, UnlinkWindow, At
  <2> QED
    BY <2>4, <2>5, <2>6, <2>7
<1> QED
  BY <1>2, <1>3 DEF Abandon

LEMMA UnlinkKeeps == Inv /\ Unlink => Inv'
<1> SUFFICES ASSUME Inv, Unlink PROVE Inv'
  OBVIOUS
<1> USE DurableFsAssumption DEF Inv, FsInv, AckDurable
<1>1. /\ call \in Call /\ call # None /\ call.step = "unlink" /\ call.op = "remove" /\ call.data = None /\ dir
      /\ call.name \in Names /\ call.name \in Entries
  BY Disjoint DEF Unlink, HasDir, TypeOK, At, CallInv, StepsOfOp, Call, Ops
<1>2. UNCHANGED <<dir, dirKept, lapse>>
  BY DEF Unlink
<1>3. CASE file[call.name] = None
  <2>1. Goto("ok") /\ UNCHANGED <<file, kept>>
    BY <1>3 DEF Unlink
  <2>2. /\ call' \in Call /\ call' # None /\ call'.step = "ok" /\ call'.temp = call.temp
        /\ call'.op = call.op /\ call'.name = call.name /\ call'.data = call.data
    BY <1>1, <2>1, GotoFacts DEF Steps
  <2>3. "unlink" \notin lapse => kept[call.name] = {None}
    BY <1>1, <1>3 DEF UnlinkWindow, At
  <2>4. AckDurable'
    BY <1>1, <1>2, <1>3, <2>1, <2>2, <2>3 DEF WriteDurable, RemoveDurable, TreeDurable, Floor, At
  <2>5. TypeOK' /\ CallInv'
    BY <1>1, <1>2, <2>1, <2>2 DEF TypeOK, CallInv, StepsOfOp, HasDir, KnowsTemp, KnowsResult
  <2>6. DirInv' /\ ShownKept' /\ NeverTorn' /\ NamesSynced' /\ MkdirWindow' /\ UnlinkWindow'
    BY <1>1, <1>2, <2>1, <2>2 DEF DirInv, ShownKept, NeverTorn, NamesSynced, OnDisk, MkdirWindow, UnlinkWindow, At
  <2> QED
    BY <2>4, <2>5, <2>6
<1>4. CASE file[call.name] # None
  <2>1. Goto("syncDir") /\ Show(call.name, None)
    BY <1>4 DEF Unlink
  <2>2. /\ call' \in Call /\ call' # None /\ call'.step = "syncDir" /\ call'.temp = call.temp
        /\ call'.op = call.op /\ call'.name = call.name /\ call'.data = call.data
    BY <1>1, <2>1, GotoFacts DEF Steps
  <2>3. /\ file' \in [Entries -> File \cup {None}]
        /\ kept' \in [Entries -> SUBSET (Contents \cup {None})]
        /\ file'[call.name] = None /\ kept'[call.name] = kept[call.name] \cup {None}
        /\ \A x \in Entries \ {call.name} : file'[x] = file[x] /\ kept'[x] = kept[x]
    BY <1>1, <2>1, ShowFacts, OnDiskFacts
  <2>4. TypeOK' /\ AckDurable'
    BY <1>1, <1>2, <2>2, <2>3 DEF TypeOK, WriteDurable, RemoveDurable, TreeDurable, At
  <2>5. CallInv' /\ DirInv'
    BY <1>1, <1>2, <2>2, <2>3 DEF CallInv, StepsOfOp, HasDir, KnowsTemp, KnowsResult, DirInv
  <2>6. ShownKept'
    BY <1>1, <2>3, OnDiskFacts DEF ShownKept
  <2>7. NeverTorn' /\ NamesSynced'
    BY <1>1, <2>3, Disjoint DEF NeverTorn, NamesSynced, Contents
  <2>8. MkdirWindow' /\ UnlinkWindow'
    BY <1>1, <1>2, <2>2, <2>3 DEF MkdirWindow, UnlinkWindow, At
  <2> QED
    BY <2>4, <2>5, <2>6, <2>7, <2>8
<1> QED
  BY <1>3, <1>4

LEMMA OpenTreeKeeps == Inv /\ OpenTree => Inv'
<1> SUFFICES ASSUME Inv, OpenTree PROVE Inv'
  OBVIOUS
<1> USE DurableFsAssumption DEF Inv, FsInv, AckDurable
<1>1. /\ call \in Call /\ call # None /\ call.step = "openTree" /\ call.op = "tree" /\ call.data = None
  BY DEF OpenTree, TypeOK, At, CallInv, StepsOfOp, Call, Ops
<1>2. Goto(IF dir THEN "clear" ELSE "ok") /\ UNCHANGED <<dir, dirKept, file, kept, lapse>>
  BY DEF OpenTree, Goto, disk
<1>3. /\ call' \in Call /\ call' # None /\ call'.temp = call.temp
      /\ call'.op = call.op /\ call'.name = call.name /\ call'.data = call.data
      /\ call'.step = IF dir THEN "clear" ELSE "ok"
  BY <1>1, <1>2, GotoFacts DEF Steps
<1>4. TypeOK' /\ CallInv'
  BY <1>1, <1>2, <1>3 DEF TypeOK, CallInv, StepsOfOp, HasDir, KnowsTemp, KnowsResult
<1>5. AckDurable'
  BY <1>1, <1>2, <1>3 DEF WriteDurable, RemoveDurable, TreeDurable, DirInv, At
<1>6. DirInv' /\ ShownKept' /\ NeverTorn' /\ NamesSynced' /\ MkdirWindow' /\ UnlinkWindow'
  BY <1>1, <1>2, <1>3 DEF DirInv, ShownKept, NeverTorn, NamesSynced, OnDisk, MkdirWindow, UnlinkWindow, At
<1> QED
  BY <1>4, <1>5, <1>6

LEMMA ClearTreeKeeps == Inv /\ ClearTree => Inv'
<1> SUFFICES ASSUME Inv, ClearTree PROVE Inv'
  OBVIOUS
<1> USE DurableFsAssumption DEF Inv, FsInv, AckDurable
<1>1. /\ call \in Call /\ call # None /\ call.step = "clear" /\ call.op = "tree" /\ call.data = None /\ dir
  BY DEF ClearTree, HasDir, TypeOK, At, CallInv, StepsOfOp, Call, Ops
<1>2. UNCHANGED <<dir, dirKept, lapse>>
  BY DEF ClearTree
<1>3. CASE Present = {}
  <2>1. Goto("syncDir") /\ UNCHANGED <<file, kept>>
    BY <1>3 DEF ClearTree
  <2>2. /\ call' \in Call /\ call' # None /\ call'.step = "syncDir" /\ call'.temp = call.temp
        /\ call'.op = call.op /\ call'.name = call.name /\ call'.data = call.data
    BY <1>1, <2>1, GotoFacts DEF Steps
  <2>3. \A e \in Entries : file[e] = None
    BY <1>3 DEF Present
  <2>4. TypeOK' /\ CallInv' /\ AckDurable'
    BY <1>1, <1>2, <2>1, <2>2, <2>3 DEF TypeOK, CallInv, StepsOfOp, HasDir, KnowsTemp, KnowsResult,
                                        WriteDurable, RemoveDurable, TreeDurable, At
  <2>5. DirInv' /\ ShownKept' /\ NeverTorn' /\ NamesSynced' /\ MkdirWindow' /\ UnlinkWindow'
    BY <1>1, <1>2, <2>1, <2>2 DEF DirInv, ShownKept, NeverTorn, NamesSynced, OnDisk, MkdirWindow, UnlinkWindow, At
  <2> QED
    BY <2>4, <2>5
<1>4. CASE Present # {}
  <2>1. PICK e \in Present : Show(e, None)
    BY <1>4 DEF ClearTree
  <2>2. call' = call /\ e \in Entries
    BY <1>4 DEF ClearTree, Present
  <2>3. /\ file' \in [Entries -> File \cup {None}]
        /\ kept' \in [Entries -> SUBSET (Contents \cup {None})]
        /\ file'[e] = None /\ kept'[e] = kept[e] \cup {None}
        /\ \A x \in Entries \ {e} : file'[x] = file[x] /\ kept'[x] = kept[x]
    BY <2>1, <2>2, ShowFacts, OnDiskFacts
  <2>4. TypeOK' /\ CallInv' /\ AckDurable'
    BY <1>1, <1>2, <2>2, <2>3 DEF TypeOK, CallInv, StepsOfOp, HasDir, KnowsTemp, KnowsResult,
                                  WriteDurable, RemoveDurable, TreeDurable, At
  <2>5. DirInv' /\ MkdirWindow' /\ UnlinkWindow'
    BY <1>1, <1>2, <2>2 DEF DirInv, MkdirWindow, UnlinkWindow, At
  <2>6. ShownKept'
    BY <2>2, <2>3, OnDiskFacts DEF ShownKept
  <2>7. NeverTorn' /\ NamesSynced'
    BY <2>2, <2>3, Disjoint DEF NeverTorn, NamesSynced, Contents
  <2> QED
    BY <2>4, <2>5, <2>6, <2>7
<1> QED
  BY <1>3, <1>4

LEMMA SyncDirKeeps == Inv /\ SyncDir => Inv'
<1> SUFFICES ASSUME Inv, SyncDir PROVE Inv'
  OBVIOUS
<1> USE DurableFsAssumption DEF Inv, FsInv, AckDurable
<1>1. /\ call \in Call /\ call # None /\ call.step = "syncDir" /\ call.op \in Ops /\ dir /\ call.name \in Names
      /\ call.name \in Entries
  BY Disjoint DEF SyncDir, HasDir, TypeOK, At, CallInv, Call
<1>2. /\ Goto(IF call.op = "tree" THEN "rmdir" ELSE "ok")
      /\ lapse' = lapse \ {"unlink"} /\ UNCHANGED <<dir, dirKept, file>>
      /\ kept' = [e \in Entries |-> OnDisk(file[e])]
  BY DEF SyncDir, Goto
<1>3. /\ call' \in Call /\ call' # None /\ call'.temp = call.temp
      /\ call'.op = call.op /\ call'.name = call.name /\ call'.data = call.data
      /\ call'.step = IF call.op = "tree" THEN "rmdir" ELSE "ok"
  BY <1>1, <1>2, GotoFacts DEF Steps
<1>4. TypeOK'
  <2>1. \A e \in Entries : OnDisk(file[e]) \in SUBSET (Contents \cup {None})
    BY DEF OnDisk, File, Contents, TypeOK
  <2> QED
    BY <1>2, <1>3, <2>1 DEF TypeOK
<1>5. CallInv'
  <2>1. call.op = "tree" => \A e \in Entries : file'[e] = None /\ kept'[e] = {None}
    BY <1>1, <1>2, OnDiskFacts DEF CallInv, KnowsResult
  <2> QED
    BY <1>1, <1>2, <1>3, <2>1 DEF CallInv, StepsOfOp, HasDir, KnowsTemp, KnowsResult, Ops
<1>6. DirInv' /\ ShownKept' /\ NamesSynced'
  BY <1>1, <1>2 DEF DirInv, ShownKept, NamesSynced, OnDisk
<1>7. NeverTorn'
  <2> SUFFICES ASSUME NEW n \in Names PROVE (file[n] # None => file[n].data \in Data) /\ Torn \notin OnDisk(file[n])
    BY <1>2, Disjoint DEF NeverTorn
  <2> QED
    BY DEF NeverTorn, NamesSynced, OnDisk, Contents
<1>8. MkdirWindow'
  BY <1>1, <1>2 DEF MkdirWindow, At
<1>9. UnlinkWindow'
  BY <1>2, OnDiskFacts, Disjoint DEF UnlinkWindow
<1>10. WriteDurable'
  <2>1. call.op = "write" => kept'[call.name] = {call.data}
    BY <1>1, <1>2, OnDiskFacts DEF CallInv, StepsOfOp, KnowsResult, Contents
  <2>2. "mkdir" \notin lapse' => FALSE \notin dirKept
    BY <1>1, <1>2 DEF MkdirWindow, At
  <2> QED
    BY <1>2, <1>3, <2>1, <2>2 DEF WriteDurable, Floor
<1>11. RemoveDurable' /\ TreeDurable'
  <2>1. call.op = "remove" => file'[call.name] = None /\ kept'[call.name] = {None}
    BY <1>1, <1>2, OnDiskFacts DEF CallInv, KnowsResult
  <2> QED
    BY <1>2, <1>3, <2>1 DEF RemoveDurable, TreeDurable, Floor, At
<1> QED
  BY <1>4, <1>5, <1>6, <1>7, <1>8, <1>9, <1>10, <1>11

LEMMA RemoveDirKeeps == Inv /\ RemoveDir => Inv'
<1> SUFFICES ASSUME Inv, RemoveDir PROVE Inv'
  OBVIOUS
<1> USE DurableFsAssumption DEF Inv, FsInv, AckDurable
<1>1. /\ call \in Call /\ call # None /\ call.step = "rmdir" /\ call.op = "tree" /\ call.data = None
      /\ \A e \in Entries : file[e] = None /\ kept[e] = {None}
  BY DEF RemoveDir, TypeOK, At, CallInv, StepsOfOp, KnowsResult, Call, Ops
<1>2. /\ Goto("syncParent") /\ dir' = FALSE /\ dirKept' = dirKept \cup {FALSE}
      /\ UNCHANGED <<file, kept, lapse>>
  BY DEF RemoveDir
<1>3. /\ call' \in Call /\ call' # None /\ call'.step = "syncParent" /\ call'.temp = call.temp
      /\ call'.op = call.op /\ call'.name = call.name /\ call'.data = call.data
  BY <1>1, <1>2, GotoFacts DEF Steps
<1>4. TypeOK' /\ AckDurable'
  BY <1>2, <1>3 DEF TypeOK, WriteDurable, RemoveDurable, TreeDurable, At
<1>5. CallInv' /\ DirInv'
  BY <1>1, <1>2, <1>3 DEF CallInv, StepsOfOp, HasDir, KnowsTemp, KnowsResult, DirInv
<1>6. ShownKept' /\ NeverTorn' /\ NamesSynced' /\ MkdirWindow' /\ UnlinkWindow'
  BY <1>1, <1>2, Disjoint DEF ShownKept, NeverTorn, NamesSynced, OnDisk, MkdirWindow, UnlinkWindow
<1> QED
  BY <1>4, <1>5, <1>6

LEMMA ReturnKeeps == Inv /\ Return => Inv'
<1> SUFFICES ASSUME Inv, Return PROVE Inv'
  OBVIOUS
<1> USE DurableFsAssumption DEF Inv, FsInv, AckDurable
<1>1. call' = None /\ UNCHANGED <<dir, dirKept, file, kept, lapse>> /\ At("ok")
  BY DEF Return, disk
<1>2. TypeOK' /\ CallInv' /\ AckDurable'
  BY <1>1 DEF TypeOK, CallInv, WriteDurable, RemoveDurable, TreeDurable, At
<1>3. DirInv' /\ ShownKept' /\ NeverTorn' /\ NamesSynced' /\ MkdirWindow' /\ UnlinkWindow'
  BY <1>1 DEF DirInv, ShownKept, NeverTorn, NamesSynced, OnDisk, MkdirWindow, UnlinkWindow, At
<1> QED
  BY <1>2, <1>3

LEMMA BeginKeeps ==
  ASSUME Inv, NEW op \in Ops, NEW n \in Names, NEW d \in Data \cup {None}, NEW s \in {"mkdir", "openTree"},
         Begin(op, n, d, s), op = "write" => d \in Data /\ s = "mkdir",
         op = "remove" => d = None /\ s = "mkdir", op = "tree" => d = None /\ s = "openTree"
  PROVE  Inv'
<1> USE DurableFsAssumption DEF Inv, FsInv, AckDurable
<1>1. /\ call = None /\ UNCHANGED <<dir, dirKept, file, kept, lapse>>
      /\ call' = [op |-> op, name |-> n, data |-> d, temp |-> None, step |-> s]
  BY DEF Begin, disk
<1>2. call' \in Call /\ call' # None /\ call'.op = op /\ call'.data = d /\ call'.step = s
  BY <1>1 DEF Call, Steps
<1>3. TypeOK' /\ CallInv' /\ AckDurable'
  BY <1>1, <1>2 DEF TypeOK, CallInv, StepsOfOp, HasDir, KnowsTemp, KnowsResult, Ops,
                    WriteDurable, RemoveDurable, TreeDurable, At
<1>4. DirInv' /\ ShownKept' /\ NeverTorn' /\ NamesSynced' /\ MkdirWindow' /\ UnlinkWindow'
  BY <1>1, <1>2 DEF DirInv, ShownKept, NeverTorn, NamesSynced, OnDisk, MkdirWindow, UnlinkWindow, At
<1> QED
  BY <1>3, <1>4

LEMMA PowerLossKeeps == Inv /\ PowerLoss => Inv'
<1> SUFFICES ASSUME Inv, PowerLoss PROVE Inv'
  OBVIOUS
<1> USE DurableFsAssumption DEF Inv, FsInv, AckDurable
<1>1. PICK there \in dirKept, left \in [Entries -> Contents \cup {None}] :
        /\ \A e \in Entries : left[e] \in (IF there THEN kept[e] ELSE {None})
        /\ dir' = there /\ dirKept' = {there}
        /\ file' = [e \in Entries |-> Found(left[e])]
        /\ kept' = [e \in Entries |-> {left[e]}]
  BY DEF PowerLoss
<1>2. call' = None /\ lapse' = {} /\ there \in BOOLEAN
  BY DEF PowerLoss, TypeOK
<1>3. \A e \in Entries : /\ file'[e] \in File \cup {None}
                         /\ (file'[e] = None <=> left[e] = None)
                         /\ file'[e] # None => file'[e] = [data |-> left[e], synced |-> TRUE]
                         /\ kept'[e] = {left[e]}
  <2> SUFFICES ASSUME NEW e \in Entries
               PROVE  /\ file'[e] \in File \cup {None}
                      /\ (file'[e] = None <=> left[e] = None)
                      /\ file'[e] # None => file'[e] = [data |-> left[e], synced |-> TRUE]
                      /\ kept'[e] = {left[e]}
    OBVIOUS
  <2>1. file'[e] = Found(left[e]) /\ kept'[e] = {left[e]} /\ left[e] \in Contents \cup {None}
    BY <1>1
  <2>2. left[e] # None => [data |-> left[e], synced |-> TRUE] \in File
    BY <2>1 DEF File
  <2> QED
    BY <2>1, <2>2 DEF Found
<1>4. TypeOK'
  BY <1>1, <1>2, <1>3 DEF TypeOK
<1>5. CallInv' /\ AckDurable' /\ UnlinkWindow' /\ MkdirWindow'
  BY <1>1, <1>2, <1>3, Disjoint DEF CallInv, WriteDurable, RemoveDurable, TreeDurable, UnlinkWindow, MkdirWindow, At
<1>6. DirInv'
  BY <1>1, <1>2, <1>3 DEF DirInv
<1>7. ShownKept'
  BY <1>1, <1>3, OnDiskFacts DEF ShownKept
<1>8. NeverTorn' /\ NamesSynced'
  <2> SUFFICES ASSUME NEW n \in Names
               PROVE  /\ file'[n] # None => file'[n].data \in Data /\ file'[n].synced
                      /\ Torn \notin kept'[n]
    BY DEF NeverTorn, NamesSynced
  <2>1. n \in Entries /\ left[n] \in Data \cup {None}
    BY <1>1, Disjoint DEF NeverTorn, Contents
  <2>2. kept'[n] = {left[n]} /\ (file'[n] # None => file'[n] = [data |-> left[n], synced |-> TRUE] /\ left[n] # None)
    BY <1>3, <2>1
  <2>3. Torn # None
    BY DEF Contents
  <2> QED
    BY <2>1, <2>2, <2>3
<1> QED
  BY <1>4, <1>5, <1>6, <1>7, <1>8

LEMMA InitHolds == Init => Inv
<1> SUFFICES ASSUME Init PROVE Inv
  OBVIOUS
<1> USE DurableFsAssumption DEF Inv, FsInv, AckDurable
<1>1. TypeOK /\ DirInv /\ ShownKept /\ CallInv /\ AckDurable
  BY OnDiskFacts DEF Init, TypeOK, DirInv, ShownKept, CallInv, WriteDurable, RemoveDurable, TreeDurable, At
<1>2. NeverTorn /\ NamesSynced /\ MkdirWindow /\ UnlinkWindow
  BY Disjoint DEF Init, NeverTorn, NamesSynced, MkdirWindow, UnlinkWindow, Contents
<1> QED
  BY <1>1, <1>2

\* Every step of every call, every failure and every power loss keeps the
\* invariant.
LEMMA StepKeeps == Inv /\ [Next]_vars => Inv'
<1> SUFFICES ASSUME Inv, [Next]_vars PROVE Inv'
  OBVIOUS
<1>1. CASE \E n \in Names, d \in Data : Write(n, d)
  BY <1>1, BeginKeeps DEF Write, Ops
<1>2. CASE \E n \in Names : Remove(n)
  BY <1>2, BeginKeeps DEF Remove, Ops
<1>3. CASE RemoveTree
  BY <1>3, BeginKeeps DEF RemoveTree, Ops
<1>4. CASE Steady
  BY <1>4, MakeDirKeeps, SyncParentKeeps, CreateTempKeeps, FillTempKeeps, SyncFileKeeps, RenameKeeps,
     AbandonKeeps, UnlinkKeeps, OpenTreeKeeps, ClearTreeKeeps, SyncDirKeeps, RemoveDirKeeps, ReturnKeeps
     DEF Steady
<1>5. CASE StepFails \/ CallerDies \/ PowerLoss
  BY <1>5, StepFailsKeeps, CallerDiesKeeps, PowerLossKeeps
<1>6. CASE UNCHANGED vars
  <2>1. UNCHANGED <<dir, dirKept, file, kept, call, lapse>>
    BY <1>6 DEF vars
  <2>2. TypeOK' /\ CallInv' /\ AckDurable'
    BY <2>1 DEF Inv, FsInv, TypeOK, CallInv, StepsOfOp, HasDir, KnowsTemp, KnowsResult,
                AckDurable, WriteDurable, RemoveDurable, TreeDurable, Floor, At
  <2>3. DirInv' /\ ShownKept' /\ NeverTorn' /\ NamesSynced' /\ MkdirWindow' /\ UnlinkWindow'
    BY <2>1 DEF Inv, FsInv, DirInv, ShownKept, NeverTorn, NamesSynced, OnDisk, MkdirWindow, UnlinkWindow, At
  <2> QED
    BY <2>2, <2>3 DEF Inv, FsInv
<1> QED
  BY <1>1, <1>2, <1>3, <1>4, <1>5, <1>6 DEF Next

LEMMA InvAlways == Spec => []Inv
BY InitHolds, StepKeeps, PTL DEF Spec

\* durablefs.cpp: every variable keeps its type.
THEOREM TypeCorrect == Spec => []TypeOK
<1>1. Inv => TypeOK
  BY DEF Inv
<1> QED
  BY <1>1, InvAlways, PTL

\* durableReplace: no reader, before or after power loss, finds part of a file.
THEOREM WholeFiles == Spec => []NeverTorn
<1>1. Inv => NeverTorn
  BY DEF Inv, FsInv
<1> QED
  BY <1>1, InvAlways, PTL

\* The knowledge each step relies on.
THEOREM FsInvariant == Spec => []FsInv
<1>1. Inv => FsInv
  BY DEF Inv
<1> QED
  BY <1>1, InvAlways, PTL

\* A call that returned true survives power loss.
THEOREM Durable == Spec => []AckDurable
<1>1. Inv => AckDurable
  BY DEF Inv
<1> QED
  BY <1>1, InvAlways, PTL

-----------------------------------------------------------------------------
(* Every step is a step of DurableStore or leaves it alone.                 *)

LEMMA InstancePresent == Store!Value = Data \cup {None}
BY DEF Store!Value

\* What stays the same when no name and no part of the call changes.
LEMMA SameStore ==
  ASSUME UNCHANGED <<Shown, Floors, Scope, Goal, Cut>>
  PROVE  UNCHANGED Store!vars
BY DEF Store!vars

\* Scope and goal of a call that goes on.
LEMMA SameCall ==
  ASSUME call # None, call' # None, call'.op = call.op, call'.name = call.name, call'.data = call.data
  PROVE  Scope' = Scope /\ Goal' = Goal
BY DEF Scope, Goal

\* Names are shown, and may be left, as they were.
LEMMA SameNames ==
  ASSUME \A n \in Names : file'[n] = file[n] /\ kept'[n] = kept[n],
         FALSE \in dirKept' <=> FALSE \in dirKept
  PROVE  Shown' = Shown /\ Floors' = Floors
BY DEF Shown, Floors, Floor

\* What a name shows may stay, and is whole.
ShownOk ==
    \A n \in Names : Shown[n] \in kept[n] /\ Shown[n] \in Data \cup {None} /\ kept[n] \subseteq Data \cup {None}

LEMMA ShownInKept == Inv => ShownOk
<1> SUFFICES ASSUME Inv, NEW n \in Names
             PROVE  Shown[n] \in kept[n] /\ Shown[n] \in Data \cup {None} /\ kept[n] \subseteq Data \cup {None}
  BY DEF ShownOk
<1>1. n \in Entries /\ OnDisk(file[n]) \subseteq kept[n] /\ kept[n] \subseteq Contents \cup {None} /\ Torn \notin kept[n]
  BY Disjoint DEF Inv, FsInv, ShownKept, NeverTorn, TypeOK
<1>2. Shown[n] \in OnDisk(file[n])
  BY DEF Shown, OnDisk
<1> QED
  BY <1>1, <1>2 DEF Contents

\* A name takes the call's value.
LEMMA ApplyStep ==
  ASSUME Inv, NEW n \in Names, n \in Scope, UNCHANGED <<dirKept, Scope, Goal, Cut>>,
         Shown'[n] = Goal, kept'[n] = kept[n] \cup {Goal},
         \A x \in Names \ {n} : file'[x] = file[x] /\ kept'[x] = kept[x]
  PROVE  Store!Next
<1>1. Shown' = [Shown EXCEPT ![n] = Goal]
  BY DEF Shown
<1>2. Floors' = [Floors EXCEPT ![n] = @ \cup {Goal}]
  BY DEF Floors, Floor
<1> QED
  BY <1>1, <1>2 DEF Store!Next, Store!Apply

LEMMA GiveUpStep ==
  ASSUME Shown' = Shown, Floors' = Floors, call' = None, lapse \subseteq lapse'
  PROVE  Store!Next
<1>1. Scope' = {} /\ Goal' = None /\ Cut' \in {Cut, TRUE}
  BY DEF Scope, Goal, Cut
<1> QED
  BY <1>1 DEF Store!Next, Store!GiveUp

LEMMA BeginStep ==
  ASSUME NEW op \in Ops, NEW n \in Names, NEW d \in Data \cup {None}, NEW s \in {"mkdir", "openTree"},
         Begin(op, n, d, s)
  PROVE  Store!Next
<1> USE DurableFsAssumption
<1>1. /\ call = None /\ UNCHANGED <<dir, dirKept, file, kept, lapse>>
      /\ call' = [op |-> op, name |-> n, data |-> d, temp |-> None, step |-> s]
  BY DEF Begin, disk
<1>2. call' # None /\ call'.op = op /\ call'.name = n /\ call'.data = d
  BY <1>1 DEF Call, Steps
<1>3. Scope = {} /\ Scope' \in (SUBSET Names) \ {{}} /\ Goal' \in Data \cup {None}
  BY <1>1, <1>2 DEF Scope, Goal
<1>4. UNCHANGED <<Shown, Floors, Cut>>
  BY <1>1 DEF Shown, Floors, Floor, Cut
<1> QED
  BY <1>3, <1>4, InstancePresent DEF Store!Next, Store!Begin

LEMMA SettleStep ==
  ASSUME Inv, Inv', UNCHANGED <<file, Scope, Goal>>, Cut' \in {Cut, FALSE},
         \A n \in Names : Floors'[n] \subseteq Floors[n]
  PROVE  Store!Next
<1>1. Shown' = Shown
  BY DEF Shown
<1>2. \A n \in Names : Shown[n] \in Floors'[n] /\ Floors'[n] \subseteq Data \cup {None}
  <2>1. \A n \in Names : Shown'[n] \in kept'[n] /\ kept'[n] \subseteq Data \cup {None}
    <3>1. ShownOk'
      BY ShownInKept, PTL
    <3> QED
      BY <3>1 DEF ShownOk
  <2> QED
    BY <1>1, <2>1 DEF Floors, Floor
<1>3. Floors' \in [Names -> SUBSET (Data \cup {None})]
  BY <1>2 DEF Floors
<1> QED
  BY <1>1, <1>2, <1>3, InstancePresent DEF Store!Next, Store!Settle

LEMMA ReturnStep == Inv /\ Return => Store!Next
<1> SUFFICES ASSUME Inv, Return PROVE Store!Next
  OBVIOUS
<1> USE DurableFsAssumption
<1>1. /\ call \in Call /\ call # None /\ At("ok") /\ call.op \in Ops /\ call.name \in Names
      /\ call' = None /\ UNCHANGED <<dir, dirKept, file, kept, lapse>>
  BY DEF Return, At, Inv, TypeOK, Call, disk
<1>2. \A n \in Scope : n \in Names /\ Shown[n] = Goal /\ (~Cut => Floors[n] = {Goal})
  <2> SUFFICES ASSUME NEW n \in Scope
               PROVE  n \in Names /\ Shown[n] = Goal /\ (~Cut => Floors[n] = {Goal})
    OBVIOUS
  <2>1. n \in Names /\ n \in Entries /\ (call.op # "tree" => n = call.name)
    BY <1>1, Disjoint DEF Scope
  <2>2. Shown[n] \in kept[n] /\ Floors[n] = Floor(n)
    BY <2>1, ShownInKept DEF ShownOk, Floors
  <2>3. CASE call.op = "write"
    BY <1>1, <2>1, <2>2, <2>3 DEF Inv, AckDurable, WriteDurable, Goal, Cut
  <2>4. CASE call.op = "remove"
    BY <1>1, <2>1, <2>2, <2>4 DEF Inv, AckDurable, RemoveDurable, FsInv, CallInv, StepsOfOp, Goal, Cut, Shown
  <2>5. CASE call.op = "tree"
    BY <1>1, <2>1, <2>2, <2>5 DEF Inv, AckDurable, TreeDurable, FsInv, CallInv, StepsOfOp, Goal, Floor
  <2> QED
    BY <1>1, <2>3, <2>4, <2>5 DEF Ops
<1>3. Scope # {} /\ Scope' = {} /\ Goal' = None /\ UNCHANGED <<Shown, Floors, Cut>>
  BY <1>1 DEF Scope, Goal, Shown, Floors, Floor, Cut
<1> QED
  BY <1>2, <1>3 DEF Store!Next, Store!Succeed

LEMMA PowerLossStep == Inv /\ PowerLoss => Store!Next
<1> SUFFICES ASSUME Inv, PowerLoss PROVE Store!Next
  OBVIOUS
<1> USE DurableFsAssumption
<1>1. PICK there \in dirKept, left \in [Entries -> Contents \cup {None}] :
        /\ \A e \in Entries : left[e] \in (IF there THEN kept[e] ELSE {None})
        /\ dir' = there /\ dirKept' = {there}
        /\ file' = [e \in Entries |-> Found(left[e])]
        /\ kept' = [e \in Entries |-> {left[e]}]
  BY DEF PowerLoss
<1>2. call' = None /\ lapse' = {} /\ there \in BOOLEAN
  BY DEF PowerLoss, Inv, TypeOK
<1>3. \A n \in Names : /\ n \in Entries /\ left[n] \in Data \cup {None} /\ left[n] \in Floor(n)
                       /\ Shown'[n] = left[n] /\ Floors'[n] = {left[n]}
  <2> SUFFICES ASSUME NEW n \in Names
               PROVE  /\ n \in Entries /\ left[n] \in Data \cup {None} /\ left[n] \in Floor(n)
                      /\ Shown'[n] = left[n] /\ Floors'[n] = {left[n]}
    OBVIOUS
  <2>1. n \in Entries /\ left[n] \in (IF there THEN kept[n] ELSE {None})
    BY <1>1, Disjoint
  <2>2. left[n] \in Data \cup {None}
    BY <2>1, ShownInKept DEF ShownOk
  <2>3. left[n] \in Floor(n)
    BY <1>1, <1>2, <2>1 DEF Floor
  <2>4. file'[n] = Found(left[n]) /\ kept'[n] = {left[n]}
    BY <1>1, <2>1
  <2>5. left[n] # None => [data |-> left[n], synced |-> TRUE] \in File
    BY <2>2 DEF File, Contents
  <2>6. Shown'[n] = left[n]
    BY <2>4, <2>5 DEF Shown, Found
  <2>7. Floors'[n] = {left[n]}
    BY <1>1, <2>1, <2>4 DEF Floors, Floor
  <2> QED
    BY <2>1, <2>2, <2>3, <2>6, <2>7
<1>4. /\ Shown' \in [Names -> Data \cup {None}]
      /\ \A n \in Names : Shown'[n] \in Floors[n]
      /\ Floors' = [n \in Names |-> {Shown'[n]}]
  BY <1>3 DEF Shown, Floors
<1>5. Scope' = {} /\ Goal' = None /\ Cut' = FALSE
  BY <1>2 DEF Scope, Goal, Cut
<1> QED
  BY <1>4, <1>5, InstancePresent DEF Store!Next, Store!PowerLoss

LEMMA SteadyStep == Inv /\ Inv' /\ Steady => Store!Next \/ UNCHANGED Store!vars
<1> SUFFICES ASSUME Inv, Inv', Steady PROVE Store!Next \/ UNCHANGED Store!vars
  OBVIOUS
<1> USE DurableFsAssumption
<1>1. ASSUME call \in Call, call # None, call' # None, UNCHANGED <<dirKept, lapse>>,
             call'.op = call.op, call'.name = call.name, call'.data = call.data,
             \A n \in Names : file'[n] = file[n] /\ kept'[n] = kept[n]
      PROVE  UNCHANGED Store!vars
  BY <1>1, SameCall, SameNames, SameStore DEF Cut
<1>2. call # None => call \in Call
  BY DEF Inv, TypeOK
<1>3. CASE MakeDir
  <2>1. /\ call # None /\ \E s \in Steps : Goto(s)
        /\ UNCHANGED <<file, kept, lapse>> /\ (FALSE \in dirKept' <=> FALSE \in dirKept)
    BY <1>3 DEF MakeDir, At, Opened, Steps
  <2> QED
    BY <1>2, <2>1, GotoFacts, SameCall, SameNames, SameStore DEF Cut
<1>4. CASE SyncParent
  <2>1. /\ call # None /\ call.step = "syncParent" /\ \E s \in Steps : Goto(s)
        /\ UNCHANGED <<dir, file, kept>> /\ dirKept' = {dir} /\ lapse' = lapse \ {"mkdir"}
    BY <1>4 DEF SyncParent, At, Opened, Steps
  <2>2. dir \in dirKept
    BY DEF Inv, FsInv, DirInv
  <2>3. \A n \in Names : Floors'[n] \subseteq Floors[n]
    BY <2>1, <2>2 DEF Floors, Floor, Inv, TypeOK
  <2>4. Scope' = Scope /\ Goal' = Goal
    BY <1>2, <2>1, GotoFacts, SameCall
  <2> QED
    BY <2>1, <2>3, <2>4, SettleStep DEF Cut
<1>5. CASE CreateTemp
  <2>1. PICK t \in FreshTemps : /\ Show(t, [data |-> Torn, synced |-> FALSE])
                                /\ call' = [call EXCEPT !.temp = t, !.step = "fill"]
    BY <1>5 DEF CreateTemp
  <2>2. call # None /\ UNCHANGED <<dirKept, lapse>> /\ t \in Temps
    BY <1>5 DEF CreateTemp, At, FreshTemps
  <2>3. \A n \in Names : file'[n] = file[n] /\ kept'[n] = kept[n]
    BY <2>1, <2>2, Disjoint DEF Show, Inv, TypeOK
  <2>4. call' \in Call /\ call' # None /\ call'.op = call.op /\ call'.name = call.name /\ call'.data = call.data
    BY <1>2, <2>1, <2>2 DEF Call, Steps
  <2> QED
    BY <1>1, <1>2, <2>2, <2>3, <2>4
<1>6. CASE FillTemp \/ SyncFile
  <2>1. call # None /\ UNCHANGED <<dirKept, lapse>> /\ call.temp \in Temps /\ \E s \in Steps : Goto(s)
    BY <1>6 DEF FillTemp, SyncFile, At, Inv, FsInv, CallInv, StepsOfOp, Steps
  <2>2. \A n \in Names : file'[n] = file[n] /\ kept'[n] = kept[n]
    BY <1>6, <2>1, Disjoint DEF FillTemp, SyncFile, Show, Inv, TypeOK
  <2> QED
    BY <1>1, <1>2, <2>1, <2>2, GotoFacts
<1>7. CASE Rename
  <2>1. /\ call \in Call /\ call # None /\ call.step = "rename" /\ call.op = "write" /\ call.data \in Data
        /\ call.temp \in Temps /\ call.name \in Names
        /\ file[call.temp] = [data |-> call.data, synced |-> TRUE]
        /\ Goto("syncDir") /\ UNCHANGED <<dirKept, lapse>>
    BY <1>7 DEF Rename, Inv, TypeOK, FsInv, At, CallInv, StepsOfOp, KnowsTemp, Call, Ops
  <2>2. call.temp \in Entries /\ call.temp \notin Names /\ call.name \in Entries /\ call.name # call.temp
    BY <2>1, Disjoint
  <2>3. OnDisk(file[call.temp]) = {call.data} /\ [data |-> call.data, synced |-> TRUE] \in File
    BY <2>1, OnDiskFacts DEF Contents, File
  <2>4. /\ file'[call.name] = [data |-> call.data, synced |-> TRUE] /\ kept'[call.name] = kept[call.name] \cup {call.data}
        /\ \A x \in Names \ {call.name} : file'[x] = file[x] /\ kept'[x] = kept[x]
    BY <1>7, <2>1, <2>2, <2>3, Disjoint DEF Rename, Inv, TypeOK
  <2>5. Shown'[call.name] = call.data
    BY <2>1, <2>3, <2>4 DEF Shown
  <2>6. Goal = call.data /\ call.name \in Scope
    BY <2>1 DEF Goal, Scope
  <2>7. Scope' = Scope /\ Goal' = Goal
    BY <2>1, GotoFacts, SameCall DEF Steps
  <2> QED
    BY <2>1, <2>4, <2>5, <2>6, <2>7, ApplyStep DEF Cut
<1>8. CASE Abandon
  <2>1. call # None /\ call.temp \in Temps /\ call' = None /\ lapse \subseteq lapse' /\ UNCHANGED dirKept
    BY <1>8 DEF Abandon, At, Fail, Inv, FsInv, CallInv, StepsOfOp
  <2>2. \A n \in Names : file'[n] = file[n] /\ kept'[n] = kept[n]
    BY <1>8, <2>1, Disjoint DEF Abandon, Show, Inv, TypeOK
  <2> QED
    BY <2>1, <2>2, SameNames, GiveUpStep
<1>9. CASE Unlink
  <2>1. /\ call \in Call /\ call # None /\ call.step = "unlink" /\ call.op = "remove" /\ call.data = None
        /\ call.name \in Names /\ call.name \in Entries /\ UNCHANGED <<dirKept, lapse>> /\ \E s \in Steps : Goto(s)
    BY <1>9, Disjoint DEF Unlink, Inv, TypeOK, FsInv, At, CallInv, StepsOfOp, Call, Ops, Steps
  <2>2. CASE file[call.name] = None
    <3>1. UNCHANGED <<file, kept>>
      BY <1>9, <2>2 DEF Unlink
    <3> QED
      BY <1>1, <2>1, <3>1, GotoFacts
  <2>3. CASE file[call.name] # None
    <3>1. Show(call.name, None)
      BY <1>9, <2>3 DEF Unlink
    <3>2. /\ file'[call.name] = None /\ kept'[call.name] = kept[call.name] \cup {None}
          /\ \A x \in Names \ {call.name} : file'[x] = file[x] /\ kept'[x] = kept[x]
      BY <2>1, <3>1, OnDiskFacts, Disjoint DEF Show, Inv, TypeOK
    <3>3. Shown'[call.name] = None /\ Goal = None /\ call.name \in Scope
      BY <2>1, <3>2 DEF Shown, Goal, Scope
    <3>4. Scope' = Scope /\ Goal' = Goal
      BY <2>1, GotoFacts, SameCall
    <3> QED
      BY <2>1, <3>2, <3>3, <3>4, ApplyStep DEF Cut
  <2> QED
    BY <2>2, <2>3
<1>10. CASE OpenTree
  <2>1. call # None /\ UNCHANGED <<dirKept, file, kept, lapse>> /\ \E s \in Steps : Goto(s)
    BY <1>10 DEF OpenTree, At, Steps, disk
  <2> QED
    BY <1>1, <1>2, <2>1, GotoFacts
<1>11. CASE ClearTree
  <2>1. /\ call \in Call /\ call # None /\ call.op = "tree" /\ call.data = None
        /\ UNCHANGED <<dirKept, lapse>>
    BY <1>11 DEF ClearTree, Inv, TypeOK, FsInv, At, CallInv, StepsOfOp, Call, Ops
  <2>2. CASE Present = {}
    <3>1. UNCHANGED <<file, kept>> /\ \E s \in Steps : Goto(s)
      BY <1>11, <2>2 DEF ClearTree, Steps
    <3> QED
      BY <1>1, <2>1, <3>1, GotoFacts
  <2>3. CASE Present # {}
    <3>1. PICK e \in Present : Show(e, None)
      BY <1>11, <2>3 DEF ClearTree
    <3>2. e \in Entries /\ call' = call
      BY <1>11, <2>3 DEF ClearTree, Present
    <3>3. /\ file'[e] = None /\ kept'[e] = kept[e] \cup {None}
          /\ \A x \in Entries \ {e} : file'[x] = file[x] /\ kept'[x] = kept[x]
      BY <3>1, <3>2, OnDiskFacts DEF Show, Inv, TypeOK
    <3>4. CASE e \in Names
      <4>1. Shown'[e] = None /\ Goal = None /\ e \in Scope /\ Scope' = Scope /\ Goal' = Goal
        BY <2>1, <3>2, <3>3, <3>4 DEF Shown, Goal, Scope
      <4> QED
        BY <2>1, <3>3, <3>4, <4>1, ApplyStep, Disjoint DEF Cut
    <3>5. CASE e \notin Names
      <4>1. \A n \in Names : file'[n] = file[n] /\ kept'[n] = kept[n]
        BY <3>3, <3>5, Disjoint
      <4> QED
        BY <1>1, <2>1, <3>2, <4>1
    <3> QED
      BY <3>4, <3>5
  <2> QED
    BY <2>2, <2>3
<1>12. CASE SyncDir
  <2>1. /\ call # None /\ UNCHANGED <<dirKept, file>> /\ \E s \in Steps : Goto(s)
        /\ kept' = [e \in Entries |-> OnDisk(file[e])] /\ lapse' = lapse \ {"unlink"}
    BY <1>12 DEF SyncDir, At, Steps
  <2>2. \A n \in Names : kept'[n] \subseteq kept[n]
    BY <2>1, Disjoint DEF Inv, FsInv, ShownKept
  <2>3. \A n \in Names : Floors'[n] \subseteq Floors[n]
    BY <2>1, <2>2 DEF Floors, Floor
  <2>4. Scope' = Scope /\ Goal' = Goal
    BY <1>2, <2>1, GotoFacts, SameCall
  <2> QED
    BY <2>1, <2>3, <2>4, SettleStep DEF Cut
<1>13. CASE RemoveDir
  <2>1. /\ call # None /\ UNCHANGED <<file, kept, lapse>> /\ dirKept' = dirKept \cup {FALSE} /\ \E s \in Steps : Goto(s)
        /\ \A e \in Entries : kept[e] = {None}
    BY <1>13 DEF RemoveDir, At, Steps, Inv, FsInv, CallInv, KnowsResult
  <2>2. Shown' = Shown /\ Floors' = Floors
    BY <2>1, Disjoint DEF Shown, Floors, Floor
  <2> QED
    BY <1>2, <2>1, <2>2, GotoFacts, SameCall, SameStore DEF Cut
<1>14. CASE Return
  BY <1>14, ReturnStep
<1> QED
  BY <1>3, <1>4, <1>5, <1>6, <1>7, <1>8, <1>9, <1>10, <1>11, <1>12, <1>13, <1>14 DEF Steady

LEMMA FailureStep == Inv /\ (StepFails \/ CallerDies) => Store!Next \/ UNCHANGED Store!vars
<1> SUFFICES ASSUME Inv, StepFails \/ CallerDies PROVE Store!Next \/ UNCHANGED Store!vars
  OBVIOUS
<1> USE DurableFsAssumption
<1>1. call # None /\ call \in Call /\ UNCHANGED <<dir, dirKept, file, kept>>
  BY DEF StepFails, CallerDies, disk, Inv, TypeOK
<1>2. CASE Fail
  <2>1. call' = None /\ lapse \subseteq lapse'
    BY <1>2 DEF Fail
  <2> QED
    BY <1>1, <2>1, SameNames, GiveUpStep
<1>3. CASE ~Fail
  <2>1. Goto("abandon") /\ UNCHANGED lapse
    BY <1>3 DEF StepFails, CallerDies
  <2> QED
    BY <1>1, <2>1, GotoFacts, SameCall, SameNames, SameStore DEF Steps, Cut
<1> QED
  BY <1>2, <1>3

LEMMA StoreInit == Init => Store!Init
<1> SUFFICES ASSUME Init PROVE Store!Init
  OBVIOUS
<1>1. /\ Shown = [n \in Names |-> None] /\ Floors = [n \in Names |-> {None}]
      /\ Scope = {} /\ Goal = None /\ Cut = FALSE
  BY Disjoint DEF Init, Shown, Floors, Floor, Scope, Goal, Cut
<1> QED
  BY <1>1 DEF Store!Init

LEMMA StoreStep == Inv /\ Inv' /\ [Next]_vars => [Store!Next]_(Store!vars)
<1> SUFFICES ASSUME Inv, Inv', [Next]_vars PROVE Store!Next \/ UNCHANGED Store!vars
  OBVIOUS
<1>1. CASE \E n \in Names, d \in Data : Write(n, d)
  BY <1>1, BeginStep DEF Write, Ops
<1>2. CASE \E n \in Names : Remove(n)
  BY <1>2, BeginStep DEF Remove, Ops
<1>3. CASE RemoveTree
  BY <1>3, BeginStep DEF RemoveTree, Ops
<1>4. CASE Steady
  BY <1>4, SteadyStep
<1>5. CASE StepFails \/ CallerDies
  BY <1>5, FailureStep
<1>6. CASE PowerLoss
  BY <1>6, PowerLossStep
<1>7. CASE UNCHANGED vars
  BY <1>7 DEF vars, Store!vars, Shown, Floors, Floor, Scope, Goal, Cut
<1> QED
  BY <1>1, <1>2, <1>3, <1>4, <1>5, <1>6, <1>7 DEF Next

\* The three calls, with every failure, death and power loss, implement a
\* store of whole values in which an acknowledged change is final.
THEOREM Implements == Spec => ImplementsStore
<1>1. Inv /\ [Next]_vars => Inv'
  BY StepKeeps
<1> QED
  BY <1>1, InvAlways, StoreInit, StoreStep, PTL DEF Spec, ImplementsStore, Store!Spec
==============================================================================
