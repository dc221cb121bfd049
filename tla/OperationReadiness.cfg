CONSTANTS
  a = a
  b = b
  Objects = {a, b, Queue}
  Keys = {"isReady", "isFinished", "isExecuting", "isCancelled", "dependencies",
    "operations"}
  Queue = Queue
  Observers = {a, b, Queue}
  Threads = {s, t}
  MayDepend <- OneDependency
SPECIFICATION Spec
INVARIANTS ReadinessSeen DependencySeen WaitersWoken OnlyKvoDeadlocks FinishedLeave
SYMMETRY ThreadsAlike
CHECK_DEADLOCK FALSE
