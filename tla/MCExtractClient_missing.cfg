CONSTANTS
    BufSize = 7
    Replies <- MissingReplies
    Users <- ValidUsers
    Faults = {FALSE}
    SizeGarbage <- SomeGarbage

SPECIFICATION Spec

INVARIANT MissingFileReported
