\* One map server with both scripts that crashes once and comes back; any one statement fails;
\* c2 is nobody's character.
SPECIFICATION Spec
CONSTANTS
    None = None
    s1 = s1  s2 = s2  i1 = i1  i2 = i2  i3 = i3  k1 = k1  k2 = k2  c1 = c1  c2 = c2
    Servers = {s1}
    Scripts <- OneServer
    Instances = {i1}
    Chars = {c1, c2}
    Registered = {c1}
    Clients = {k1}
    AskedActions = {"give_item", "sync_character"}
    ForeignActions = {"warp"}
    MaxRows = 2
    MaxFaults = 1
    MaxLoads = 2
    MaxCrashes = 1
SYMMETRY Symmetry
INVARIANTS SyncsAreObserved ExecutedIsObserved NoOvertaking QueueIsServed
PROPERTIES ImplementsQueue
CHECK_DEADLOCK FALSE
