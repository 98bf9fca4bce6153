\* Liveness: no symmetry, no crashes; a start job may outlive its systemctl.
CONSTANTS
    None = None
    Unmarked = Unmarked
    Altered = Altered
    Users = {alice}
    Ids = {s1}
    Units = {u1}
    Helpers = {helper}
    Boot = boot
    Enclosing = root
    MountIds = {k1, k2, k3}
    InitFiles = {None}
    Requested = {"Guest"}
    Faults = {"io", "late"}
SPECIFICATION FairSpec
PROPERTIES CallsReturn
