\* One share, picked as one account and as another.
CONSTANTS
    None = None
    Typed = Typed
    Dying = Dying
    s1 = s1
    s2 = s2
    alice = alice
    bob = bob
    Shares = {s1}
    Accounts = {alice, bob}
    Texts <- OneShare
    Paths = {p1}
    Children = {c1, c2}
SPECIFICATION Spec
INVARIANTS TupleWhole
