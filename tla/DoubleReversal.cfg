CONSTANTS
  NoCost = NoCost
  NoSession = NoSession
  NoKey = NoKey
  NoReceipt = NoReceipt
  NoSnapshot = NoSnapshot
  NoFingerprint = NoFingerprint
  Item <- MCItem
  Movement <- MCMovement
  Content <- MCContent
  Session = {s1, s2}
  Key = {k1, k2}
  MaxCalls = 4
SPECIFICATION Spec
INVARIANT ReversedAtMostOnce
CHECK_DEADLOCK FALSE
