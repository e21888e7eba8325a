SPECIFICATION Spec
CONSTANTS
  Txn = {t1,t2}
  Source = {s1}
  Doc = {}
  Content = {a, b}
  Proc = {p1,p2}
  NoTxn = NoTxn
  None = None
  Torn = Torn
  QuiescentAuthor = FALSE
  MaxEdits = 1
  MaxDrifts = 0
  MaxFaults = 1
SYMMETRY Sym
CHECK_DEADLOCK FALSE
INVARIANTS OneCheckoutAtATime ApprovalsBindReview
