SPECIFICATION Spec
CONSTANTS
  Menus <- MCMenus
  Start = "start"
  Children <- MCChildren
  Values = {"clear", "set"}
  Cleared = "clear"
  Files = {".config"}
  MaxSteps = 2
  MaxLoops = 3
INVARIANTS
  PageStackIsPath
  MovesHaveTarget
  PageIsFresh
  AskedBeforeLoss
PROPERTY SavedThenExits
CHECK_DEADLOCK FALSE
