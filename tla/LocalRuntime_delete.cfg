SPECIFICATION Spec
CONSTANTS
    Bench = {b1}
    Pids = {p1}
    NoPid = NoPid
    Requests = {"delete_post_processing"}
INVARIANTS
    DeleteIsNoFailure
CHECK_DEADLOCK FALSE
