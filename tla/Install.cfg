SPECIFICATION Spec
CONSTANTS
    StalePolls = 1
    MinStale = 1
    Poll <- MCPoll
    MaxItemId = 1
    MaxAmount = 1
    MaxDelta = 1
    Numbers <- MCNumbers
INVARIANTS GuardAsksTheConsumer QueuedIsInRange
PROPERTIES TierReportsAreTrue FallbackIsHonest
