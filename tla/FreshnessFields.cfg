\* No write at all and one save at a time: the sync that reads one field back.
SPECIFICATION Spec
CONSTANTS
    None = None
    w1 = w1  w2 = w2
    Writes = {w1}
    Deltas <- GainAndLoss
    MaxZeny = 1
    MaxExp = 1
    Window = 1
    MaxTime = 1
    MaxWire = 1
    MaxFaults = 0
INVARIANTS EveryFieldIsCovered
CHECK_DEADLOCK FALSE
