SPECIFICATION MCSpec
CONSTANTS
    Session = {g1, g2}
    Txn = {t1, t2}
    Proc = {p1, p2}
    Path = {a, b}
    None = None
    Steps <- MCSteps
    MaxPackage = 2
    MaxIncidents = 1
    Question <- MCQuestion
    Kind <- MCKind
    Roots <- MCRoots
    Pass = 2
    MaxRoots = 2
    MaxDepth = 2
    MaxNodes = 5
    MaxChildren = 2
    Out = {o1, o2}
    MaxVersion = 2
SYMMETRY Symmetry
CONSTRAINT MCBounded
ACTION_CONSTRAINTS
    ReconcileAfterCrash
    TreeAlone
INVARIANTS
    ScopeConserved
    EvidenceFits
    GuardedLiveTx
    ChainIsAuditable
    TreeAccounts
PROPERTIES
    PublishedWasProven
    ClosedMeansDone
    AppliedWasReviewed
\* An outdated session and a used-up bound leave nothing to do.
CHECK_DEADLOCK FALSE
