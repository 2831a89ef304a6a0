\* Two boosts and the cron under fairness, with a crash, in batches of one.
SPECIFICATION FairSpec
CONSTANTS
    Jobs = {j1, j2}
    OwnJobs = {j1, j2}
    OpenJobs = {j1, j2}
    Boosts = {b1, b2}
    Orders = {}
    Savers = {}
    Reviews = {}
    Crons = {c1}
    BatchSize = 1
    PointsUsed <- MCOnePrice
    InitialPoints = 100
    InitialStatus = "ACTIVE"
    PayloadStatuses = {"BLOCKED"}
    MaxCrashes = 1
PROPERTIES
    BoostsExpire
    RequestsEnd
