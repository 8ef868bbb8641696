CONSTANTS
    Kind = "extract"
    HighWater = 1
    FileChunks = 3
    MaxOutput = 0
    Scripts <- ExtractScripts

SPECIFICATION FairSpec

INVARIANT StatusOnce
INVARIANT NoAbort
INVARIANT FlowControl
PROPERTY Termination
PROPERTY TransactionContract
