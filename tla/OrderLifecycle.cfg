CONSTANTS
  NoCost = NoCost
  NoSession = NoSession
  NoKey = NoKey
  NoOrder = NoOrder
  NoPosition = NoPosition
  NoTerms = NoTerms
  Item <- MCItem
  Movement <- MCMovement
  Menu <- MCMenu
  Supply <- MCSupply
  SalePosition <- MCPositions
  Query <- MCQuery
  TermLine = {1, 2}
  Amount = {0, 1, 2}
  Basis = {0, 1, 2, 3}
  Session = {s1, s2}
  Order = {o1}
  Dish = {d1}
  SaleQuantity = {1, 2}
  Price <- MCPrice
  Acceptable <- MCAcceptable
  Key = {k1, k2}
  MaxLines = 2
  MaxCalls = 3
SYMMETRY MCSymmetry
SPECIFICATION Spec
INVARIANTS SoldExactlyOnce SnapshotPricesWhatWasSold SnapshotDiscountAddsUp ReversalRestoresIssue FeedMirrorsSales CogsGrainsAgree
PROPERTIES ImplementsDocuments ClosedOrdersAreFinal RetriesAreDuplicates
CHECK_DEADLOCK FALSE
