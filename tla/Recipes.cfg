CONSTANTS
  NoVersion = NoVersion
  NoCommand = NoCommand
  Preparation = {p1, p2, p3, p4}
  Recipe = {r1}
  Session = {s1, s2}
  Unit = {g, ml}
  DraftUnit = g
  Dimension = {{g}, {ml}}
  Amount = {1}
  MaxAmount = 2
  MaxNested = 2
  MaxVersions = 2
  MaxCalls = 6
SPECIFICATION Spec
INVARIANTS CompositionAcyclic PublishedIsClosed OneDraft  DeadlocksAreOfTwo
PROPERTIES PublishedIsImmutable
CONSTRAINT UnitsDriftLater
SYMMETRY Symmetry
CHECK_DEADLOCK FALSE
