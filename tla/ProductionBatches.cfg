CONSTANTS
  NoCost = NoCost
  NoSession = NoSession
  NoKey = NoKey
  NoBatch = NoBatch
  NoContent = NoContent
  NoActual = NoActual
  Item <- MCItem
  Movement <- MCMovement
  Ingredient <- MCIngredient
  Output = 3
  Planned <- MCPlanned
  Actual <- MCActual
  ProductionPosition <- MCPositions
  Supply <- MCSupply
  Reason = {r1, r2}
  Session = {s1, s2}
  Batch = {b1, b2}
  Key = {k1, k2}
  MaxCalls = 3
  MaxSupplies = 1
SPECIFICATION Spec
INVARIANTS ProducedOnce StockIsSuppliedAndProduced FeedMirrorsProduction
PROPERTIES ImplementsDocuments FinalizedIsImmutable RetriesAreDuplicates
SYMMETRY Symmetry
CHECK_DEADLOCK FALSE
