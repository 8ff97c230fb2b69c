CONSTANTS
  NoCost = NoCost
  NoSession = NoSession
  NoKey = NoKey
  NoReceipt = NoReceipt
  NoSnapshot = NoSnapshot
  NoFingerprint = NoFingerprint
  Item <- MCItem
  Movement <- MCMovement
  Content <- MCContent
  Session = {s1}
  Key = {k1, k2}
  MaxCalls = 6
SPECIFICATION Spec
INVARIANTS PostingMatchesDocument PostRetryIsDuplicate
PROPERTIES ImplementsDocuments PostedIsImmutable
CHECK_DEADLOCK FALSE
