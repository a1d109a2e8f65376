SPECIFICATION Spec
CONSTANTS
    a = a
    b = b
    z = z
    c1 = c1
    j1 = j1
    j2 = j2
    u1 = u1
    u2 = u2
    Jobs = {j1, j2}
    Updates = {u1, u2}
    Cancels = {k1}
    Collections = {c1}
    Benchmarks = {a, b, z}
    MaxBenchmarks = 2
    Cards = {}
    NoJob = NoJob
    NoCollection = NoCollection
    NoCard = NoCard
    Requests <- MCRequests
    BenchmarkLists <- MCLists
    CollectionKind <- MCKinds
    Submissions <- MCSubmissions
    Catalog = {a, b}
    Callers <- MCCallers
    MaxFaults = 1
    Deliveries <- MCDeliveries
    Withdrawals <- MCWithdrawals
INVARIANTS
    ExperimentInTenantWorkspace
    CardIsFinal
PROPERTIES
    FinishedJobIsExported
CHECK_DEADLOCK FALSE
