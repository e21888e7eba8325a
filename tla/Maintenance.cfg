SPECIFICATION FairMaintenance
CONSTANTS
    Unit = {u1, u2, u3}
    Target = {u1, u2}
    MaxFaults = 3
    MaxEdits = 2
    MaxSeals = 1
    t = t
    nobody = nobody
INVARIANTS
    CandidateIsOwned
    SealedIsVerified
PROPERTIES
    OnlyForwardAfterHeartbeat
    ImplementsSerialChange
    InterruptedApplyEnds
CHECK_DEADLOCK FALSE
