CONSTANTS
  NoCost = NoCost
  NoSession = NoSession
  NoKey = NoKey
  NoReceipt = NoReceipt
  NoSnapshot = NoSnapshot
  NoFingerprint = NoFingerprint
  Item <- MCItem
  Movement <- MCMovement
  Content <- MCContent
  Session = {s1, s2}
  Key = {k1}
  MaxCalls = 3
SPECIFICATION Spec
INVARIANT PostingMatchesDocument
CHECK_DEADLOCK FALSE
