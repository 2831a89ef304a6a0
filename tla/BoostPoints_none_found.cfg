\* The cron against the message it logs when its last batch is empty.
SPECIFICATION Spec
CONSTANTS
    Jobs = {j1, j2}
    OwnJobs = {j1, j2}
    OpenJobs = {j1, j2}
    Boosts = {b1, b2}
    Orders = {}
    Savers = {}
    Reviews = {}
    Crons = {c1}
    BatchSize = 1
    PointsUsed <- MCOnePrice
    InitialPoints = 100
    InitialStatus = "ACTIVE"
    PayloadStatuses = {"BLOCKED"}
    MaxCrashes = 0
PROPERTIES
    NoneFoundMeansNone
