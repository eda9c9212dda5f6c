\* Two tabs and two sign-ins: a 401 that arrives before the storage event.
SPECIFICATION Spec
CONSTANTS
    None = None
    t1 = t1  t2 = t2  r1 = r1  r2 = r2  alice = alice  bob = bob
    Tabs = {t1, t2}
    Subjects = {alice, bob}
    Powerless = {}
    MaxTokens = 2
    Slots = {r1, r2}
    MaxTurns = 1
SYMMETRY Symmetry
INVARIANTS SignInIsAdopted
CHECK_DEADLOCK FALSE
