SPECIFICATION Spec
CONSTANTS
  Txn = {t1}
  Source = {s1}
  Doc = {d1}
  Content = {a, b}
  Proc = {p1}
  NoTxn = NoTxn
  None = None
  Torn = Torn
  QuiescentAuthor = FALSE
  MaxEdits = 2
  MaxDrifts = 0
  MaxFaults = 0
CHECK_DEADLOCK FALSE
PROPERTIES SealedWasVerified
