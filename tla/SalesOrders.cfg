CONSTANTS
  NoCost = NoCost
  NoSession = NoSession
  NoKey = NoKey
  NoOrder = NoOrder
  NoPosition = NoPosition
  NoTerms = NoTerms
  Item <- MCItem
  Movement <- MCMovement
  Menu <- MCMenu
  Supply <- MCSupply
  SalePosition <- MCLaterOnly
  Query <- MCQuery
  TermLine = {1, 2}
  Amount = {0, 1, 2}
  Basis = {0, 1, 2, 3}
  Session = {s1, s2}
  Order = {o1, o2}
  Dish = {d1}
  SaleQuantity = {1}
  Price <- MCPrice
  Acceptable <- MCAcceptable
  Key = {k1, k2}
  MaxLines = 1
  MaxCalls = 2
SPECIFICATION FairSpec
INVARIANT StockIsSuppliedLessSold
PROPERTY EveryCallReturns
CHECK_DEADLOCK FALSE
