\* Four alarms through a ring of two, refusals, lost answers, a restart and a
\* broken parser configuration.  The system stops when the bounds are used up.
SPECIFICATION FairSpec
CONSTANTS
    RingMax = 2
    RegexSets = {"valid", "broken"}
    MaxAlarms = 4
    MaxCrashes = 1
    MaxSyncs = 1
INVARIANTS TypeOK NumbersIdentify
PROPERTIES ImplementsLedger ForwardedWhileLoopLives
CHECK_DEADLOCK FALSE
