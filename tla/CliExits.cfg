\* One invocation whose answer may be lost.
SPECIFICATION CliSpec
CONSTANTS
    Groups = {10, 99}
    ScopeSets = {{"logs.read", "commands.write"}}
    Ttl = 1
    MaxTime = 1
    MaxTokens = 1
    MaxSecrets = 1
INVARIANTS OneMeansAnswered
