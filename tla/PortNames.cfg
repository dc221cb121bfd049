CONSTANTS
  Processes = {p, q}
  Names = {1, 2}
  Ports = {x, y}
  NoPort = NoPort
  NoName = NoName
  None = None
  Lost = Lost
  MaxFaults = 1
SPECIFICATION Spec
INVARIANTS Findable KnownNamesServed NoStaleNames NothingLeft
CHECK_DEADLOCK FALSE
SYMMETRY Alike
