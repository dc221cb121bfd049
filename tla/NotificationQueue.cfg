CONSTANTS
  Queues = {q1, q2, q3}
  Names = {n}
  Objects = {o, p}
  default = default
  modal = modal
  Modes = {default, modal}
  NoMode = NoMode
  MaskChoices <- NameOrBoth
  ModeChoices <- DefaultOrAll
  MaxEntries = 3
  MaxPasses = 2
SPECIFICATION Spec
INVARIANTS PostedOnce Coalesced
PROPERTIES PassLosesNone PostsOldest PassServesAll
SYMMETRY QueuesAndObjectsAlike
CHECK_DEADLOCK FALSE
