SPECIFICATION Spec
CONSTANTS
  s1 = s1
  s2 = s2
  Sends = {s1, s2}
  NumConfirmations = 2
  SafeAbortNonceTooLowCount = 1
  MaxVersions <- MCMaxVersions
  MaxFaults = 1
INVARIANTS
  TxMgrTypeOK
  IncludedOnce
  NoncesDistinct
  ReceiptStays
PROPERTIES
  ReturnsUnlessSkipped
