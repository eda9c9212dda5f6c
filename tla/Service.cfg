\* Three rows and two seconds for the timeline; four rows for the lists; three changes to
\* what an owner has; one token, one demotion, one invocation at a time for access;
\* two keystrokes; three refreshes of a page.  A page that nobody uses any more stops.
SPECIFICATION Spec
CONSTANTS
    Items = {"potion"}
    ItemDb = {"potion"}
    Limits = {2}
    MaxDate = 1
    MaxRows = 3
    PageSizes = {1, 2}
    Names = {1, 2, 3}
    MaxListed = 4
    MaxDeletes = 1
    MaxChanges = 3
    Groups = {10, 50, 99}
    ScopeSets = {{"accounts.read"}, {"logs.read", "commands.write"}}
    Ttl = 1
    MaxTime = 1
    MaxTokens = 1
    MaxSecrets = 2
    MaxKeys = 2
    MaxRefreshes = 3
    MaxFacts = 1
INVARIANTS PageIsOfItsSources EffectHasItsCause WalkMissesNothing AnswerWasTrue
    GrantWasGiven MeIsEnforced OneWritePerInvocation StatusIsTrue
    QuietShowsTheBox QuietPageIsLatest
PROPERTIES DrawingIsTrue
CHECK_DEADLOCK FALSE
