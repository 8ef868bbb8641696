CONSTANTS
    BufSize = 7
    Replies <- AllReplies
    Users <- SomeUsers
    Faults = {FALSE, TRUE}
    SizeGarbage <- SomeGarbage

SPECIFICATION FairSpec

INVARIANT TypeOK
INVARIANT BufferBound
INVARIANT FrameSync
INVARIANT ExtractExact
PROPERTY Completes
