CONSTANTS
  a = a
  b = b
  c = c
  Ops = {a, b, c}
  Concurrent = {b}
  MayDepend <- Both
  HandStarted = {c}
  Batches = {{a, b}}
  Priorities = {0}
  Counts <- OneOrTwo
  Clients = {p}
  Workers = {w1, w2}
  NoThread = NoThread
  Queue = Queue
  IdleTimeout = TRUE
  LateDependencies = FALSE
SPECIFICATION SafeSpec
INVARIANTS NoOperationLost NoReadinessMissed NoDependencyMissed
  WorkConserving CountsExact RunsOnce
PROPERTY DependenciesFirst
CHECK_DEADLOCK FALSE
SYMMETRY WorkersAlike
