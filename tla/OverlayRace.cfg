\* Two map servers race for two rows of Tier 1; one statement fails and one server dies.
SPECIFICATION Spec
CONSTANTS
    None = None
    s1 = s1  s2 = s2  i1 = i1  i2 = i2  i3 = i3  k1 = k1  k2 = k2  c1 = c1  c2 = c2
    Servers = {s1, s2}
    Scripts <- TwoConsumers
    Instances = {i1, i2}
    Chars = {c1}
    Registered = {c1}
    Clients = {k1, k2}
    AskedActions = {"give_item"}
    ForeignActions = {}
    MaxRows = 2
    MaxFaults = 1
    MaxLoads = 2
    MaxCrashes = 1
SYMMETRY RaceSymmetry
INVARIANTS RefusalLeavesGameAlone RepliesStand AtMostOnce
PROPERTIES TerminalIsFinal
CHECK_DEADLOCK FALSE
