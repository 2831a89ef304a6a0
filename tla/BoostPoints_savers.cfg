\* The writers of the enterprise row against each other: a boost, an order, a save of the whole row, a review.
SPECIFICATION Spec
CONSTANTS
    Jobs = {j1, j2}
    OwnJobs = {j1}
    OpenJobs = {j1}
    Boosts = {b1}
    Orders = {o1}
    Savers = {s1}
    Reviews = {v1}
    Crons = {}
    BatchSize = 1
    PointsUsed <- MCAllPoints
    InitialPoints = 50
    InitialStatus = "ACTIVE"
    PayloadStatuses = {"BLOCKED"}
    MaxCrashes = 1
INVARIANTS
    PointsExact
    StatusExact
    PremiumHasPoints
CHECK_DEADLOCK FALSE
