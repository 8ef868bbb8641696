CONSTANTS
    Kind = "inject"
    HighWater = 1
    FileChunks = 2
    MaxOutput = 0
    Scripts <- NoScripts
    Faults = {FALSE, TRUE}

SPECIFICATION IFairSpec

INVARIANT ILinkClosed
PROPERTY InjectReturns
