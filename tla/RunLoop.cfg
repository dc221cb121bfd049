CONSTANTS
  Queues = {q}
  Names = {n}
  Objects = {o}
  Modes = {default, modal}
  NoMode = NoMode
  MaskChoices <- Both
  ModeChoices <- AnyModes
  MaxEntries = 1
  MaxPasses = 3
  Fds = {f, g}
  Timers = {t}
  Performers = {p}
  Repeating = {t}
  Order <- OneOrder
  NoTimer = NoTimer
  MaxFrames = 3
  MaxCalls = 3
SPECIFICATION LoopSpec
INVARIANTS PerformedOnce ModeRestored TimerNotReentered TimersHeeded
PROPERTY NoStaleEvent
SYMMETRY DescriptorsAndModesAlike
CHECK_DEADLOCK FALSE
