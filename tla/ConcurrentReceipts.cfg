CONSTANTS
  NoCost = NoCost
  NoSession = NoSession
  NoKey = NoKey
  NoReceipt = NoReceipt
  NoSnapshot = NoSnapshot
  NoFingerprint = NoFingerprint
  Item <- MCItem
  Movement <- MCMovement
  Content <- MCContent
  Session = {s1, s2}
  Key = {k1, k2}
  MaxCalls = 4
SPECIFICATION FairSpec
INVARIANTS TypeOK PostedExactlyOnce FeedMirrorsReceipts PostAnswersAreTrue
PROPERTY EveryCallReturns
CHECK_DEADLOCK FALSE
