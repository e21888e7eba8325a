SPECIFICATION FairSpec
CONSTANTS
  Proc = {p1}
  NoProc = NoProc
  NoEvent = NoEvent
  NoPlan = NoPlan
  Dir = {d1, d2}
  MaxEvents = 4
  MaxFaults = 2
  MaxSeals = 1
  MaxEdits = 3
CHECK_DEADLOCK FALSE
INVARIANTS ObligationCovered OneReview DeletedBytesAreArchived NothingMovedUnplanned
PROPERTIES CheckoutFindsAcknowledged KeepsOneLog OutboxDrains
