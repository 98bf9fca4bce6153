\* A purge removes the lock file boot is waiting on.
CONSTANTS
    None = None
    Procs = {helper, boot}
    Purgers = {helper}
    Inodes = {i1, i2, i3, i4, i5}
SPECIFICATION Spec
INVARIANTS MutualExclusion
