\* One mount point that may hold somebody else's units, two users and an administrator;
\* steps fail, processes die, the machine restarts.
CONSTANTS
    None = None
    Unmarked = Unmarked
    Altered = Altered
    Users = {alice, bob}
    Ids = {s1, s2}
    Units = {u1}
    Helpers = {helper}
    Boot = boot
    Enclosing = root
    MountIds = {k1, k2, k3, k4}
    InitFiles = {None, Unmarked, Altered}
    Requested = {"Credentials"}
    Faults = {"io", "crash", "reboot", "access", "admin"}
SYMMETRY Symmetry
SPECIFICATION Spec
INVARIANTS TypeOK TriggerInv SecretIndexed TriggerBacked DefineAck UndefineAck PurgeAck
PROPERTIES OwnerRemoves UnitFilesRespected
