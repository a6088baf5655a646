\* Two jobs, both kinds of cloud, one lost connection or restart: what may
\* leave the outbox, and that every end leaves it.  The system stops when
\* everything is reported.
SPECIFICATION FairSpec
CONSTANTS
    JobCount = 2
    Page = {"page"}
    Clouds = {"acking", "old"}
    Busy = {2}
    MaxWire = 1
    MaxWaiting = 2
    MaxDrops = 1
INVARIANTS TypeOK
PROPERTIES OnlyStoredIsReported NoStaleConfirmation PrintingOnlyFromOldReads EveryEndIsReported
CHECK_DEADLOCK FALSE
