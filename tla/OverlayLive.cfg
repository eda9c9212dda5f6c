\* One map server with both scripts, which may die and come back, and rows of another program
\* beside those of the API; no statement fails: what must happen.
SPECIFICATION FairSpec
CONSTANTS
    None = None
    s1 = s1  s2 = s2  i1 = i1  i2 = i2  i3 = i3  k1 = k1  k2 = k2  c1 = c1  c2 = c2
    Servers = {s1}
    Scripts <- OneServer
    Instances = {i1}
    Chars = {c1}
    Registered = {c1}
    Clients = {k1}
    AskedActions = {"give_item", "sync_character"}
    ForeignActions = {"warp"}
    MaxRows = 2
    MaxFaults = 0
    MaxLoads = 2
    MaxCrashes = 1

PROPERTIES EventuallyClaimed EventuallyFinished
CHECK_DEADLOCK FALSE
