\* Expected violation: the copy of a row read before the cloud demanded a
\* permission is printed without one.
SPECIFICATION Spec
CONSTANTS
    Job = {j1}
    Manager = {m1}
    NoJob = NoJob
    Protocol = {"legacy", "v2"}
    MaxGen = 1
    MaxAttempts = 2
    MaxStatusFailures = 1
    MaxCrashes = 0
INVARIANTS SubmittedWithPermission
