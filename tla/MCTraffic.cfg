\* One byte is below the threshold, two are not; two requests may fail.
SPECIFICATION FairSpec
CONSTANTS
  a1 = a1
  a2 = a2
  d1 = d1
  d2 = d2
  Accounts <- MCAccounts
  Dests <- MCDests
  Dest <- MCDest
  Threshold = 1
  MaxBytes <- MCMaxBytes
  Revocable = {a1}
  MaxFails = 2
INVARIANTS
  TypeOK
  Accounted
  ExitFlushes
PROPERTIES
  Delivered
  LedgerSpec
CHECK_DEADLOCK FALSE
