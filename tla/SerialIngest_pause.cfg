\* Expected violation: a pause that passes while a datagram is handled is not seen.
SPECIFICATION Spec
CONSTANTS
    Strategies = {"idle"}
    Byte = {"a"}
    Failures = FALSE
    MaxBytes = 3
    MaxPauses = 2
    MaxConnections = 1
INVARIANTS PauseSeparates
CHECK_DEADLOCK FALSE
