\* All streams of four bytes in all chunkings over two connections, with a pause, failing handlers and stop().  Ends when the bounds are used up.
SPECIFICATION Spec
CONSTANTS
    Strategies = {"idle", "formfeed"}
    Byte = {"a", "blank", "ff"}
    Failures = TRUE
    MaxBytes = 4
    MaxPauses = 2
    MaxConnections = 2
INVARIANTS TypeOK ChunkingIsIrrelevant NoTextLost SeenPausesSeparate
CHECK_DEADLOCK FALSE
