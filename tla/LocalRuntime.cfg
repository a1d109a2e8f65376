SPECIFICATION Spec
CONSTANTS
    Bench = {b1, b2}
    Pids = {p1, p2}
    NoPid = NoPid
    Requests = {"cancel", "hard_delete", "delete_post_processing"}
INVARIANTS
    CancelReachesAll
    CancelIsNoFailure
    NoOrphanDirectory
PROPERTIES
    CancelledJobEnds
CHECK_DEADLOCK FALSE
