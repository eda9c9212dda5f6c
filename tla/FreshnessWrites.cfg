\* Two writes and any number of syncs within three seconds; one statement fails.
SPECIFICATION Spec
CONSTANTS
    None = None
    w1 = w1  w2 = w2
    Writes = {w1, w2}
    Deltas <- GainAndLoss
    MaxZeny = 1
    MaxExp = 0
    Window = 1
    MaxTime = 3
    MaxWire = 2
    MaxFaults = 1
SYMMETRY Symmetry
INVARIANTS FreshMeansNotWrittenSince WriteIsOnRecord
CHECK_DEADLOCK FALSE
