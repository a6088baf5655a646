\* One client that is there and does not read: the change of the configuration
\* that stop()s the server never comes to an end.
SPECIFICATION FairSpec
CONSTANTS
    Client = {c1}
    Readers = {}
    Address = {"a", "b"}
    Payloads <- MCPayloads
    QueueMax = 2
    Window = 0
    HighWater = 0
    MaxChunks = 2
    MaxSyncs = 2
PROPERTY ApplyEnds
CHECK_DEADLOCK FALSE
