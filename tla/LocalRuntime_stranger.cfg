SPECIFICATION Spec
CONSTANTS
    Bench = {b1, b2}
    Pids = {p1, p2}
    NoPid = NoPid
    Requests = {"cancel"}
INVARIANTS
    OnlyOwnProcessesKilled
CHECK_DEADLOCK FALSE
