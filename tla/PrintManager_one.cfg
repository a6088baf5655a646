\* One job and one manager, MAX_ATTEMPTS and MAX_STATUS_FAILURES as in the
\* code, two dispatches by the cloud and two restarts: safety, the abstract
\* specification and liveness.
SPECIFICATION FairSpec
CONSTANTS
    Job = {j1}
    Manager = {m1}
    NoJob = NoJob
    Protocol = {"legacy", "v2"}
    MaxGen = 2
    MaxAttempts = 5
    MaxStatusFailures = 3
    MaxCrashes = 2
INVARIANTS IInv NotSubmittedIsFinal StatusTruth
PROPERTIES VerdictStands ImplementsPrintJob EveryJobSettles
