CONSTANTS
  a = a
  b = b
  c = c
  Ops = {a, b}
  Concurrent = {}
  MayDepend <- Pair
  HandStarted = {a}
  Batches = {{a, b}}
  Priorities = {0, 1}
  Counts <- DefaultCount
  Clients = {p}
  Workers = {w1}
  NoThread = NoThread
  Queue = Queue
  IdleTimeout = FALSE
  LateDependencies = TRUE
SPECIFICATION Spec
PROPERTY QueueDrains
CHECK_DEADLOCK FALSE
