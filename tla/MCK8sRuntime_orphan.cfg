SPECIFICATION Spec
CONSTANTS
    N = 1
    MaxFaults = 0
    Handlers <- PostProcessing
INVARIANTS
    NoOrphanPostProcessingJobs
CHECK_DEADLOCK FALSE
