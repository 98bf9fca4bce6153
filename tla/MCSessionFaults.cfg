\* One share id; every fault, one call outstanding, a runtime gate that may close.
CONSTANTS
    None = None
    Unmarked = Unmarked
    Altered = Altered
    Lists = {kcm}
    Dialogs = {dialog}
    Users = {me}
    Me = me
    Ids = {i1}
    Units = {u1}
    AddAuths = {"Credentials"}
    Runtimes <- GateRuntimes
    MaxCalls = 1
    Faults = {"lost", "crash", "edit", "sync"}
SPECIFICATION FairSpec
INVARIANTS OffersWhatHelperAccepts
PROPERTIES ViewFaithful RequestsFinish
