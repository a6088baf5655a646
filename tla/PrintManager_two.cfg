\* Two managers on one spool, redispatches and permissions: what their
\* interleaved passes may do to one job.
SPECIFICATION Spec
CONSTANTS
    Job = {j1}
    Manager = {m1, m2}
    NoJob = NoJob
    Protocol = {"v2"}
    MaxGen = 2
    MaxAttempts = 2
    MaxStatusFailures = 1
    MaxCrashes = 1
SYMMETRY Symmetry
INVARIANTS AtMostOneHandover SubmittingIsOwned RetryBudget SubmittedWithPermission NoSilentEnd
