SPECIFICATION LockedSpec
CONSTANTS
    a = a
    b = b
    j1 = j1
    j2 = j2
    c1 = c1
    Jobs = {j1, j2}
    Collections = {}
    Benchmarks = {a, b}
    MaxBenchmarks = 2
    Cards = {card1}
    NoJob = NoJob
    NoCollection = NoCollection
    NoCard = NoCard
    Requests <- MCDirectRequests
    BenchmarkLists <- MCNoLists
    CollectionKind <- MCKinds
INVARIANTS
    ResultsMatchStatus
    OverallStateMatchesBenchmarks
    CancelledTogether
    SourceStaysCompleted
    ScoreCoversResults
PROPERTIES
    TerminalJobIsFinal
    FollowsLifecycle
CHECK_DEADLOCK FALSE
