\* Two mount points of one user: ids, the boot loop and the purge loops.
CONSTANTS
    None = None
    Unmarked = Unmarked
    Altered = Altered
    Users = {alice}
    Ids = {s1, s2}
    Units = {u1, u2}
    Helpers = {helper}
    Boot = boot
    Enclosing = root
    MountIds = {k1, k2, k3, k4}
    InitFiles = {None}
    Requested = {"Credentials"}
    Faults = {"io"}
SYMMETRY Symmetry
SPECIFICATION Spec
INVARIANTS IdsUnique BootArmsOrReports UndefineAck PurgeAck
