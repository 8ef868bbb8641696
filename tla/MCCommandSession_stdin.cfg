CONSTANTS
    Kind = "command"
    HighWater = 1
    FileChunks = 0
    MaxOutput = 2
    Scripts <- NoScripts
    StdinModes = {"eof"}
    OutputModes = {"screen"}
    BufChars = 2
    Faults = {FALSE}

SPECIFICATION CFairSpec

PROPERTY StdinEOFForwarded
