CONSTANTS
    Kind = "inject"
    HighWater = 2
    FileChunks = 0
    MaxOutput = 0
    Scripts <- InjectScripts

SPECIFICATION FairSpec

INVARIANT TypeOK
INVARIANT StatusOnce
INVARIANT NoAbort
PROPERTY InjectDurable
PROPERTY Termination
PROPERTY TransactionContract
