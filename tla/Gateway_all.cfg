\* A code of the cloud, which may be in the environment, and a wrong one, two tries
\* per start; two orders with a memory of one, two requests for permission, one
\* connection lost, one crash.
SPECIFICATION FairSpec
CONSTANTS
    Code = {k1, k2}
    NoCode = NoCode
    Valid = {k1}
    EnvCodes = {NoCode, k1}
    MaxTries = 2
    Order = {o1, o2}
    NoOrder = NoOrder
    Syncs = {o1}
    MaxRid = 2
    Answers = {"yes"}
    SeenMax = 1
    MaxWire = 1
    MaxDrops = 1
    MaxCrashes = 1
INVARIANTS TypeOK NoCodeWasted RepetitionsRecognised AckedIsHandled PermissionIsOwn
PROPERTIES EnvCodePairs EveryOrderAcked
CHECK_DEADLOCK FALSE
