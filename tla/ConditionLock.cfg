CONSTANTS
  Threads = {t1, t2, t3}
  Values = {0, 1}
  NoThread = NoThread
  Any = Any
  HalfRange = 2
SPECIFICATION Spec
INVARIANTS MutualExclusion NoLostWakeup
PROPERTY ImplementsLock
