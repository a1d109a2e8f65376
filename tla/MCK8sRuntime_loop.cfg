SPECIFICATION Spec
CONSTANTS
    N = 2
    MaxFaults = 2
    Handlers <- OneRequest
INVARIANTS
    ProtectedJobs
    OutcomesAreTrue
    NoOrphanJobs
    NothingUnowned
CHECK_DEADLOCK FALSE
