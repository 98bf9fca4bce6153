\* No fault is injected; two shares, one after the other, at one mount point.
CONSTANTS
    None = None
    Unmarked = Unmarked
    Altered = Altered
    Lists = {kcm}
    Dialogs = {dialog}
    Users = {me}
    Me = me
    Ids = {i1, i2}
    Units = {u1}
    AddAuths = {"Credentials"}
    Runtimes <- NoRuntime
    MaxCalls = 1
    Faults = {}
SYMMETRY Symmetry
SPECIFICATION Spec
PROPERTIES DeleteConcernsOneShare
