SPECIFICATION Spec
CONSTANTS
    N = 1
    MaxFaults = 1
    Handlers <- CancelOrDelete
PROPERTIES
    LoopEnds
    JobsGoAway
CHECK_DEADLOCK FALSE
