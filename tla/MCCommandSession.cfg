CONSTANTS
    Kind = "command"
    HighWater = 1
    FileChunks = 0
    MaxOutput = 2
    Scripts <- NoScripts
    StdinModes = {"idle"}
    OutputModes = {"screen", "none", "together", "separately"}
    BufChars = 2
    Faults = {FALSE, TRUE}

SPECIFICATION CFairSpec

INVARIANT ResultsMatch
INVARIANT BufferTerminated
INVARIANT ClientCleanup
PROPERTY CommandCompletes
