SPECIFICATION Spec
CONSTANTS
    N = 1
    MaxFaults = 1
    Handlers <- Cancel
INVARIANTS
    CreatedBenchmarkHasSecret
CHECK_DEADLOCK FALSE
