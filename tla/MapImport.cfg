SPECIFICATION Spec
CONSTANTS
    Entries <- MCEntries
    Grids <- MCGrids
    Corrupt = Corrupt
    DbPath = "re"
    Shapes <- MCShapes
    Collate <- MCCollate
    NoTable = NoTable
    Before <- MCBefore
    Windows <- MCWindows
    MaxRuns = 1
INVARIANTS MapsAreOfTheFiles AnswersWereTrue
PROPERTIES ImplementsTable ExitIsTrue
