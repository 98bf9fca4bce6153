\* The caller, one other user; calls fail and replies are lost.
CONSTANTS
    None = None
    Users = {alice, bob}
    Caller = alice
    Guests = {bob}
    MaxCalls = 1
    Faults = {"io", "lost", "reboot"}
SPECIFICATION Spec
INVARIANTS TypeOK QuietPurge GuardSound
PROPERTIES CleanupTruthful OthersKept
CHECK_DEADLOCK FALSE
