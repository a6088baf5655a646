\* Expected violation: a regular expression that does not compile ends the
\* serial task and the forward loop, and alarms stay in the gateway.
SPECIFICATION FairSpec
CONSTANTS
    RingMax = 2
    RegexSets = {"valid", "broken"}
    MaxAlarms = 1
    MaxCrashes = 0
    MaxSyncs = 1
PROPERTIES EveryAlarmForwarded
CHECK_DEADLOCK FALSE
