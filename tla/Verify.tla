-------------------------------- MODULE Verify --------------------------------
(***************************************************************************)
(* The decisions that core/verify and root/arming take over what they have *)
(* read: which definition two unit files amount to, what the mounts at a   *)
(* path say about a share, and whether a runtime snapshot authorises a     *)
(* stop or an arm.  Pure operators; the modules that change state use      *)
(* them.                                                                   *)
(*                                                                         *)
(* A unit file is abstracted to what the code tells apart: absent (None),  *)
(* a file without the nasmount marker (Unmarked), a file that fails a      *)
(* safety, marker or body check (Altered), or a valid half, which is its   *)
(* marker.  The gid, access mode and UNC a marker and body also carry are  *)
(* compared as part of the marker and never inspected on their own.        *)
(***************************************************************************)
CONSTANTS
    Users,      \* uids that own shares
    Ids,        \* share ids: 128-bit random values in the code
    None,       \* the absent file, id, unit or process
    Unmarked,   \* a unit file some other tool wrote
    Altered     \* a managed-looking unit file that fails validation

Auths == {"Guest", "Credentials"}

Marker == [owner : Users, id : Ids, auth : Auths]

UnitFile == Marker \cup {None, Unmarked, Altered}

ASSUME SentinelsDistinct ==
    /\ None \notin Users \cup Ids \cup Marker
    /\ {Unmarked, Altered} \cap Marker = {}
    /\ None # Unmarked /\ None # Altered /\ Unmarked # Altered

-----------------------------------------------------------------------------
(* Definitions on disk.                                                    *)

\* Mutant of SideState: the uid in the marker is not compared.
SideStateAnyOwner(file, uid) ==
    CASE file = None     -> "NotPresent"
      [] file = Unmarked -> "NoMarker"
      [] file = Altered  -> "Broken"
      [] OTHER           -> "Valid"

\* The verdict on one half: a marker naming another uid counts as broken.
SideState(file, uid) ==
    CASE file = None     -> "NotPresent"
      [] file = Unmarked -> "NoMarker"
      [] file = Altered  -> "Broken"
      [] OTHER           -> IF file.owner = uid THEN "Valid" ELSE "Broken"

\* What the two halves amount to for this uid.
inspectDefinition(mountFile, automountFile, uid) ==
    LET sides == {SideState(mountFile, uid), SideState(automountFile, uid)}
    IN  IF "Broken" \in sides THEN "Tampered"
        ELSE IF "NoMarker" \in sides THEN "NotOurs"
        ELSE IF sides = {"NotPresent"} THEN "None"
        ELSE IF sides = {"Valid"}
             THEN IF mountFile = automountFile THEN "Pair" ELSE "Tampered"
        ELSE "Partial"

\* The marker a Pair or Partial definition carries.
definitionMarker(mountFile, automountFile) ==
    IF mountFile \in Marker THEN mountFile ELSE automountFile

\* The scan that enumerates managed units looks only at halves with a
\* complete marker, whoever owns them; every other file is passed over.  (It
\* does not look at bodies: a half altered below an intact marker is listed,
\* and refused by inspectDefinition, which every user of the list calls next.)
scannedHalf(file) == IF file \in Marker THEN file ELSE None

\* One scanned base name, before the collision pass.
pairState(mountFile, automountFile) ==
    LET m == scannedHalf(mountFile)
        a == scannedHalf(automountFile)
    IN  IF m = None /\ a = None THEN "None"
        ELSE IF m # None /\ a # None
             THEN IF m = a THEN "Pair" ELSE "Tampered"
        ELSE "Partial"

\* All scanned base names of mount/automount (functions from units to
\* files), after the pass that demotes two units claiming one id.
enumerateManagedUnits(mount, automount) ==
    LET State(u) == pairState(mount[u], automount[u])
        Mark(u) == definitionMarker(scannedHalf(mount[u]), scannedHalf(automount[u]))
        Paired == {u \in DOMAIN mount : State(u) \in {"Pair", "Partial"}}
        Collides(u) == \E v \in Paired \ {u} : Mark(v).id = Mark(u).id
    IN  {[unit   |-> u,
          marker |-> Mark(u),
          state  |-> IF u \in Paired /\ Collides(u) THEN "Tampered" ELSE State(u)] :
            u \in {v \in DOMAIN mount : State(v) # "None"}}

-----------------------------------------------------------------------------
(* Runtime snapshots.                                                      *)

Snapshot ==
    [mount        : {"Absent", "Present", "Indeterminate"},
     verification : {"NotApplicable", "Match", "Mismatch", "Indeterminate"},
     automount    : {"Active", "Inactive", "Indeterminate"},
     trust        : {"Trusted", "Untrusted"}]

NoSnapshot == [mount |-> "Absent", verification |-> "NotApplicable",
               automount |-> "Inactive", trust |-> "Untrusted"]

\* stack: the mountinfo entries [id, parent, fs, source] at one mount point.
\* The visible entry is the one no other entry there is mounted on.
classifyMountEntries(stack, expectedWhat) ==
    LET Tops == {e \in stack : \A o \in stack \ {e} : o.parent # e.id}
        Top == CHOOSE e \in Tops : TRUE
        Verdict(m, v) == [mount |-> m, verification |-> v]
    IN  IF stack = {} THEN Verdict("Absent", "NotApplicable")
        ELSE IF ~ \E e \in Tops : Tops = {e}
             THEN Verdict("Indeterminate", "Indeterminate")
        ELSE IF Top.fs = "cifs"
             THEN Verdict("Present",
                          IF Top.source = expectedWhat THEN "Match" ELSE "Mismatch")
        ELSE IF Top.fs = "autofs" THEN Verdict("Absent", "NotApplicable")
        ELSE Verdict("Present", "Mismatch")

\* Mutant of evaluateStopPrecheck: what could not be read counts as inactive.
StopPrecheckOptimistic(snap) ==
    IF snap.mount = "Present"
    THEN IF snap.verification = "Match" THEN "ShouldStop" ELSE "CorrelationMismatch"
    ELSE IF snap.automount = "Active"
         THEN IF snap.trust = "Trusted" THEN "ShouldStop" ELSE "CorrelationMismatch"
    ELSE "AlreadyInactive"

evaluateStopPrecheck(snap) ==
    IF "Indeterminate" \in {snap.mount, snap.automount} THEN "Indeterminate"
    ELSE IF snap.mount = "Present"
         THEN IF snap.verification = "Match" THEN "ShouldStop" ELSE "CorrelationMismatch"
    ELSE IF snap.automount = "Active"
         THEN IF snap.trust = "Trusted" THEN "ShouldStop" ELSE "CorrelationMismatch"
    ELSE "AlreadyInactive"

evaluateArmPrecheck(snap) ==
    IF "Indeterminate" \in {snap.mount, snap.automount} THEN "Blocked"
    ELSE IF snap.mount = "Present" THEN "Blocked"
    ELSE IF snap.automount = "Active"
         THEN IF snap.trust = "Trusted" THEN "AlreadyArmed" ELSE "Blocked"
    ELSE "ReadyToArm"
=============================================================================
