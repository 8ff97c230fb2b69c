CONSTANTS
  NoCost = NoCost
  NoSession = NoSession
  Session = {s1, s2, s3}
  Item <- MCItem
  Movement <- MCMovement
SPECIFICATION FairStreamSpec
INVARIANTS BalanceIsReplay StockIsWhatMoved NoCircleOfPostings
PROPERTIES ImplementsLedger EveryPostingEnds
CHECK_DEADLOCK FALSE
