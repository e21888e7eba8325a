SPECIFICATION Spec
CONSTANTS
    MaxLoop = 2
    Grants <- MCGrants
    Editable <- MCEditable
    MaxRev = 3
    MaxPermits = 1
    MaxIncidents = 2
CONSTRAINT Calmer
INVARIANTS SeenIsPromoted
PROPERTIES QuarantineHoldsBack SealIsClosed LoopsAdvance ArchiveIsKept
