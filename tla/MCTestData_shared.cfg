SPECIFICATION Spec
CONSTANTS
  b1 = b1
  b2 = b2
  c1 = c1
  c2 = c2
  f1 = f1
  f2 = f2
  NoSHA = NoSHA
  Bench <- MCBench
  Commits = {c1, c2}
  Files = {f1, f2}
  Tree <- MCTree
  Submodules = {c2}
  MaxMoves = 1
  MaxFaults = 1
  MaxRestarts = 1
  MaxEvents = 2
  MaxUnchanged = 1
SYMMETRY Sym
INVARIANT RecordedForItsOwnBenchmark
CHECK_DEADLOCK FALSE
