\* Updates, a deletion, an application and other statements on one job.
SPECIFICATION Spec
CONSTANTS
    j1 = j1
    j2 = j2
    t1 = t1
    t2 = t2
    Jobs = {j1}
    Absent = Absent
    Relations = {t1, t2}
    Updates = {u1, u2}
    Deletes = {d1}
    Closes = {}
    Opens = {}
    Changes = {}
    Applies = {a1}
    Crons = {}
    other = {}
    Target <- MCTarget
    Choices <- MCChoices
    Deadlines <- MCToday
    NoDeadline = NoDeadline
    Verdicts = {"OPEN", "EXPIRED"}
    FirstStatus = "OPEN"
    FirstDeadline = 0
    FirstRelations <- MCFirst
    Promoted = {j1}
    Visited = {j1}
    Month = 2
    BatchSize = 1
    LastDay = 0
    MaxCrashes = 1
SYMMETRY MCSymmetry
INVARIANTS
    TypeOK
    RelationsWhole
    FlagAgrees
    ApplicationsKeepJob
PROPERTIES
    AppliedKeepsRelations
CHECK_DEADLOCK FALSE
