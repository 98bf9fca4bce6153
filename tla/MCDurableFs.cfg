\* Two credentials, two contents; failures, dead callers and power loss.
CONSTANTS
    Names = {n1, n2}
    Temps = {t1, t2}
    Data = {d1, d2}
    None = None
    Torn = Torn
    Faults = {"io", "kill", "power"}
SYMMETRY Symmetry
SPECIFICATION Spec
INVARIANTS TypeOK NeverTorn AckDurable FsInv
PROPERTIES ImplementsStore
