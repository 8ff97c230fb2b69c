CONSTANTS
  NoCost = NoCost
  Position <- MCPosition
  Quantity = {1, 2}
  UnitPrice = {3}
  MaxMovements = 4
  TermLine = {1, 2, 3}
  Amount = {0, 1, 2}
  Basis = {0, 1, 2, 3}
SPECIFICATION Spec
INVARIANTS CarryingIsWhatMovedSinceEmptied ReplayIsDeterministic
PROPERTY IssuesTakeTheirShare
CHECK_DEADLOCK FALSE
