\* Two shares and accounts, two mount points, two lookup processes.
CONSTANTS
    None = None
    Typed = Typed
    Dying = Dying
    s1 = s1
    s2 = s2
    alice = alice
    bob = bob
    Shares = {s1, s2}
    Accounts = {alice, bob}
    Texts <- MCTexts
    Paths = {p1, p2}
    Children = {c1, c2}
SPECIFICATION Spec
INVARIANTS TypeOK ImportedForShare LookupWanted MountPointCheckCurrent
PROPERTIES AnswersLatest LookupsEnd
