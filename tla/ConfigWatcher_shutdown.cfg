SPECIFICATION WatcherSpec
CONSTANT MaxChanges = 1
PROPERTY
    ShutdownAlwaysEnds
CHECK_DEADLOCK FALSE
