SPECIFICATION Spec
CONSTANTS
  Txn = {t1,t2}
  Source = {s1, s2}
  Doc = {d1}
  Content = {a, b}
  Proc = {p1}
  NoTxn = NoTxn
  None = None
  Torn = Torn
  QuiescentAuthor = TRUE
  MaxEdits = 2
  MaxDrifts = 2
  MaxFaults = 2
SYMMETRY Sym
CONSTRAINT SeveralOrDrift
CHECK_DEADLOCK FALSE
INVARIANTS TypeOK UnfinishedHoldsLease PreimagesAreBaseline NoPermitOutlivesApply RolledBackIsNotTrusted
  ReceiptsAreBacked
PROPERTIES EndedAtBaseline EndedIsFinal ChangesSerially SealedWasVerified
