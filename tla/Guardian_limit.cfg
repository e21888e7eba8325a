SPECIFICATION MCSpec
CONSTANTS
    Session = {g1}
    Txn = {t1}
    Proc = {p1}
    Path = {a}
    None = None
    Steps <- MCSteps
    MaxPackage = 1
    MaxIncidents = 0
    Question <- MCQuestion
    Kind <- MCKind
    Roots <- MCRoots
    Pass = 1
    MaxRoots = 2
    MaxDepth = 2
    MaxNodes = 4
    MaxChildren = 2
    Out = {o1}
    MaxVersion = 1
CONSTRAINT MCBounded
ACTION_CONSTRAINT TreeAlone
INVARIANT LimitIsSaid
CHECK_DEADLOCK FALSE
