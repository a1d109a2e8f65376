SPECIFICATION LockedSpec
CONSTANTS
    a = a
    b = b
    j1 = j1
    j2 = j2
    c1 = c1
    Jobs = {j1}
    Collections = {c1, c2}
    Benchmarks = {a, b}
    MaxBenchmarks = 2
    Cards = {}
    NoJob = NoJob
    NoCollection = NoCollection
    NoCard = NoCard
    Requests <- MCCollectionRequests
    BenchmarkLists <- MCLists
    CollectionKind <- MCKinds
INVARIANTS
    RunCountExact
PROPERTIES
    ImplementsJobStore
CHECK_DEADLOCK FALSE
