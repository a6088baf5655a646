\* Two clients of which one need not read, two chunks through queues of one, two
\* changes of the configuration and the shutdown.
SPECIFICATION FairSpec
CONSTANTS
    Client = {c1, c2}
    Readers = {c1}
    Address = {"a", "b"}
    Payloads <- MCPayloads
    QueueMax = 1
    Window = 0
    HighWater = 0
    MaxChunks = 2
    MaxSyncs = 2
INVARIANTS TypeOK IdenticalStream RegistryAgrees AppliedIsCurrent
PROPERTIES OnlyOwnFault ReadersGetAll OnlyStragglersHoldStop
CHECK_DEADLOCK FALSE
