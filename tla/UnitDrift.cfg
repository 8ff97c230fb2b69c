CONSTANTS
  NoVersion = NoVersion
  NoCommand = NoCommand
  Preparation = {p1, p2}
  Recipe = {}
  Session = {s1}
  Unit = {g, ml}
  DraftUnit = g
  Dimension = {{g}, {ml}}
  Amount = {1}
  MaxAmount = 1
  MaxNested = 1
  MaxVersions = 1
  MaxCalls = 5
SPECIFICATION Spec
INVARIANT NestedUnitsMatch
CHECK_DEADLOCK FALSE
