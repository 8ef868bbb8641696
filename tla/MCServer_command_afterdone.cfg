CONSTANTS
    Kind = "command"
    HighWater = 1
    FileChunks = 0
    MaxOutput = 2
    Scripts <- CommandScripts

SPECIFICATION Spec

PROPERTY NoFrameAfterDone
