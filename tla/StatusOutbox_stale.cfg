\* Expected violation: the resend loop works on rows it read before it
\* waited, so "printing" goes out for a job that became unclear meanwhile.
SPECIFICATION Spec
CONSTANTS
    JobCount = 2
    Page = {}
    Clouds = {"acking"}
    Busy = {2}
    MaxWire = 2
    MaxWaiting = 2
    MaxDrops = 0
PROPERTIES NoPrintingWhileUnclear
CHECK_DEADLOCK FALSE
