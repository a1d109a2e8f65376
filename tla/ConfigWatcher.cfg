SPECIFICATION WatcherSpec
CONSTANT MaxChanges = 2
INVARIANTS
    NoReloadAfterClose
    QuietMeansLoaded
PROPERTIES
    ChangesSettle
    ShutdownEnds
CHECK_DEADLOCK FALSE
