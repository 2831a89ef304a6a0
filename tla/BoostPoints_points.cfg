\* Two boosts, an order and the boost cron, with a crash.
SPECIFICATION Spec
CONSTANTS
    Jobs = {j1, j2}
    OwnJobs = {j1, j2}
    OpenJobs = {j1, j2}
    Boosts = {b1, b2}
    Orders = {o1}
    Savers = {}
    Reviews = {}
    Crons = {c1}
    BatchSize = 1
    PointsUsed <- MCPointsUsed
    InitialPoints = 100
    InitialStatus = "ACTIVE"
    PayloadStatuses = {"BLOCKED"}
    MaxCrashes = 1
SYMMETRY MCSymmetry
INVARIANTS
    TypeOK
    PointsBounded
    NoOverdraft
    ChargedHasRow
    PaperTrail
    FlagMatchesRow
    QueuedIsExpired
PROPERTIES
    FullDayOfBoost
    LedgerUnlessTorn
