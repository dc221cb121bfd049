CONSTANTS
  Threads = {main, t}
  Main = main
  quiet = quiet
  Modes = {quiet, loud}
  NoMode = NoMode
  Wanted <- ToOthers
  MaxJobs = 3
  MaxDepth = 2
SPECIFICATION Spec
INVARIANTS ToldTheTruth StrandsTakenOnly
PROPERTIES OrderKept Begun
CHECK_DEADLOCK FALSE
