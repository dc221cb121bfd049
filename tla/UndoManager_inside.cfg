CONSTANTS
  Keys = {x}
  Values = {u, v}
  Names = {NoName}
  NoName = NoName
  Levels = {0, 1}
  MaxActions = 3
  Calls = {"group", "levels", "byEvent", "remove", "removeTarget", "disable", "raise",
    "removeInside", "loopInside"}
SPECIFICATION Spec
INVARIANTS RedoIsFresh StacksFit
SYMMETRY KeysAndValuesAlike
CHECK_DEADLOCK FALSE
