\* The KCM and the dialog; replies are lost and front ends and helpers die.
CONSTANTS
    None = None
    Unmarked = Unmarked
    Altered = Altered
    Lists = {kcm}
    Dialogs = {dialog}
    Users = {me}
    Me = me
    Ids = {i1, i2}
    Units = {u1}
    AddAuths = {"Credentials"}
    Runtimes <- NoRuntime
    MaxCalls = 2
    Faults = {"lost", "crash"}
SYMMETRY Symmetry
SPECIFICATION Spec
INVARIANTS TypeOK
PROPERTIES ViewFaithful DeleteKeepsRecord
