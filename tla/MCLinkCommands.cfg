CONSTANTS
    Calls <- InterruptThenExit
    Faults = {FALSE, TRUE}

SPECIFICATION Spec

INVARIANT LinkBytes
