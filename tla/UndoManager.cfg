CONSTANTS
  Keys = {x}
  Values = {u, v, w}
  Names = {NoName, typing}
  NoName = NoName
  Levels = {0, 1, 2}
  MaxActions = 3
  Calls = {"levels", "byEvent", "group", "remove"}
SPECIFICATION Spec
PROPERTY ImplementsUndo
SYMMETRY KeysAndValuesAlike
CHECK_DEADLOCK FALSE
