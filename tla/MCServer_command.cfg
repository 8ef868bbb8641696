CONSTANTS
    Kind = "command"
    HighWater = 1
    FileChunks = 0
    MaxOutput = 3
    Scripts <- CommandScripts

SPECIFICATION FairSpec

INVARIANT StatusOnce
INVARIANT NoAbort
INVARIANT FlowControl
PROPERTY ExitFinishes
