\* Updates, closing, reopening and the cron over two jobs.
SPECIFICATION FairSpec
CONSTANTS
    j1 = j1
    j2 = j2
    t1 = t1
    t2 = t2
    Jobs = {j1, j2}
    Absent = Absent
    Relations = {t1, t2}
    Updates = {u1}
    Deletes = {}
    Closes = {c1}
    Opens = {o1}
    Changes = {s1}
    Applies = {}
    Crons = {k1}
    other = {s1}
    Target <- MCTarget
    Choices <- MCOneChoice
    Deadlines <- MCDeadlines
    NoDeadline = NoDeadline
    Verdicts = {"OPEN", "EXPIRED"}
    FirstStatus = "OPEN"
    FirstDeadline = 0
    FirstRelations <- MCFirst
    Promoted = {}
    Visited = {}
    Month = 2
    BatchSize = 1
    LastDay = 1
    MaxCrashes = 1
INVARIANTS
    ExpiredIsPast
PROPERTIES
    ClosedReopens
    JobsExpire
