\* Two tabs and two sign-ins, by the same account or by two, one of them without
\* permissions; and two of: a navigation, a Retry, a request that fails, a token that runs
\* out.
SPECIFICATION Spec
CONSTANTS
    None = None
    t1 = t1  t2 = t2  r1 = r1  r2 = r2  alice = alice  bob = bob
    Tabs = {t1, t2}
    Subjects = {alice, bob}
    Powerless = {bob}
    MaxTokens = 2
    Slots = {r1, r2}
    MaxTurns = 2
SYMMETRY TabSymmetry
INVARIANTS ScreenFollowsSession TabsAgree
PROPERTIES LateAnswersSpareSessions SwitchIsAnnounced
CHECK_DEADLOCK FALSE
