\* A form with a Retry and one without: two presses of its button, two rows.
SPECIFICATION FairSpec
CONSTANTS
    Actions = {"give_item", "sync_character"}
    Ids <- TwoRows
    MaxIntents = 2
    MaxPolls = 3
    Flights <- TwoFlights
INVARIANTS OneRowPerIntent OutcomeIsTrue FormKeepsItsRow
PROPERTIES EveryWaitEnds
CHECK_DEADLOCK FALSE
