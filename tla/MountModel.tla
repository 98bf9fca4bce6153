------------------------------- MODULE MountModel -------------------------------
(***************************************************************************)
(* The pure rules of session/mountmodel: what one row of the list means    *)
(* and which one removal it offers.  A row's definition is Verify's        *)
(* verdict (None, Pair, Partial, Tampered, NotOurs), its runtime Verify's  *)
(* snapshot; texts, labels and severities are left out.                    *)
(***************************************************************************)
EXTENDS Verify

RowInput ==
    [definition  : {"None", "Pair", "Partial", "Tampered", "NotOurs"},
     auth        : Auths,
     runtime     : Snapshot,
     applicable  : BOOLEAN,      \* the inventory reported on this credential
     healthy     : BOOLEAN,
     hasRecord   : BOOLEAN,
     corrupt     : BOOLEAN,      \* the record lacks a required field
     drift       : BOOLEAN]      \* the record contradicts the marker

RowClass ==
    [state         : {"Inactive", "Armed", "Mounted", "MissingCredentials",
                      "Broken", "Busy"},
     canDefinition : BOOLEAN,
     canRecord     : BOOLEAN,
     admin         : BOOLEAN]

RemovalKinds == {"none", "delete", "removeOrphan", "removeRecord"}

Class(state, canDefinition, canRecord, admin) ==
    [state |-> state, canDefinition |-> canDefinition,
     canRecord |-> canRecord, admin |-> admin]

credentialUnhealthy(in) ==
    in.auth = "Credentials" /\ in.applicable /\ ~in.healthy

\* The row of a sound Pair: its runtime state, unless its credential is bad.
PairState(in) ==
    IF credentialUnhealthy(in) THEN "MissingCredentials"
    ELSE IF in.runtime.mount = "Present" THEN "Mounted"
    ELSE IF in.runtime.automount = "Active" THEN "Armed"
    ELSE "Inactive"

\* Mutant of classifyRow: a Partial is offered for removal before the
\* runtime gate has looked at it.
ClassifyPartialFirst(in) ==
    LET rt == in.runtime
    IN  CASE in.definition = "None" -> Class("Broken", FALSE, in.hasRecord, FALSE)
          [] in.definition \in {"Tampered", "NotOurs"} ->
                Class("Broken", FALSE, in.hasRecord, TRUE)
          [] in.definition \in {"Pair", "Partial"} /\ (in.drift \/ in.corrupt) ->
                Class("Broken", FALSE, TRUE, FALSE)
          [] OTHER ->
                IF in.definition = "Partial" THEN Class("Broken", TRUE, FALSE, FALSE)
                ELSE IF "Indeterminate" \in {rt.mount, rt.automount}
                THEN Class("Busy", FALSE, FALSE, FALSE)
                ELSE Class(PairState(in), TRUE, FALSE, FALSE)

\* Definition and record first, then the runtime gate, then the credential.
classifyRow(in) ==
    LET rt == in.runtime
        Unreadable == "Indeterminate" \in {rt.mount, rt.automount}
        Uncorrelated == rt.mount = "Present" /\ rt.verification # "Match"
        Distrusted == /\ rt.mount # "Present" /\ rt.automount = "Active"
                      /\ rt.trust # "Trusted"
    IN  CASE in.definition = "None" -> Class("Broken", FALSE, in.hasRecord, FALSE)
          [] in.definition \in {"Tampered", "NotOurs"} ->
                Class("Broken", FALSE, in.hasRecord, TRUE)
          [] in.definition \in {"Pair", "Partial"} ->
                IF in.drift \/ in.corrupt THEN Class("Broken", FALSE, TRUE, FALSE)
                ELSE IF Unreadable \/ Uncorrelated THEN Class("Busy", FALSE, FALSE, FALSE)
                ELSE IF Distrusted THEN Class("Broken", FALSE, FALSE, TRUE)
                ELSE IF in.definition = "Partial" THEN Class("Broken", TRUE, FALSE, FALSE)
                ELSE Class(PairState(in), TRUE, FALSE, FALSE)

\* The one removal a row offers.
rowRemoval(class, hasRecord, hasFiles) ==
    CASE hasRecord /\ hasFiles /\ class.canDefinition  -> "delete"
      [] ~hasRecord /\ hasFiles /\ class.canDefinition -> "removeOrphan"
      [] hasRecord /\ class.canRecord /\ ~(hasFiles /\ class.canDefinition)
                                                       -> "removeRecord"
      [] OTHER                                         -> "none"

\* What the helper's own gate (safeStop's precheck) would say of the removal of
\* a row's definition, for a record that does not contradict it.
HelperAccepts(r) ==
    /\ r.definition \in {"Pair", "Partial"}
    /\ ~r.drift /\ ~r.corrupt
    /\ evaluateStopPrecheck(r.runtime) \in {"ShouldStop", "AlreadyInactive"}
=============================================================================
