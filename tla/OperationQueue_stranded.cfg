CONSTANTS
  a = a
  b = b
  c = c
  Ops = {a, b}
  Concurrent = {}
  MayDepend <- None
  HandStarted = {}
  Batches = {{a, b}}
  Priorities = {0}
  Counts <- DefaultCount
  Clients = {p}
  Workers = {w1, w2}
  NoThread = NoThread
  Queue = Queue
  IdleTimeout = TRUE
  LateDependencies = FALSE
SPECIFICATION Spec
PROPERTY QueueDrains
CHECK_DEADLOCK FALSE
