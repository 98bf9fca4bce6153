\* The helper may purge; boot may come at any time.
CONSTANTS
    None = None
    Procs = {helper, boot}
    Purgers = {helper}
    Inodes = {i1, i2, i3, i4, i5}
SPECIFICATION FairSpec
INVARIANTS LockInv ExclusiveUntilPurge
PROPERTIES AcquireEnds
