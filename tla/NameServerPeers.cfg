CONSTANTS
  Hosts = {h1, h2}
  All = All
  Unknown = Unknown
  interval = 1
  Silence = 2
  Busy = 4
  MaxFaults = 4
SPECIFICATION Spec
PROPERTIES DropsSilentOnly PeersMeet DeadForgotten
CHECK_DEADLOCK FALSE
