SPECIFICATION SyncSpec
CONSTANTS
  Orders <- MCOrders
  Stubs <- MCStubs
  SentQty <- MCSentQty
  PlannedQty <- MCPlannedQty
INVARIANTS
  SyncTypeOK
  LedgerExactlyOnce
  StatusMatchesLedger
  LedgerIsTheBrokers
PROPERTY
  FillsReachLedger
