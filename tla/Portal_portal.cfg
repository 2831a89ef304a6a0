\* Any three requests that meet in an entry, a row or a list, or two of any handlers, with one failure.
SPECIFICATION Spec
CONSTANTS
    Requests = {r1, r2, r3}
    None = None
    Old = Old
    Unborn = Unborn
    Removed = Removed
    c1 = c1
    c2 = c2
    c3 = c3
    Categories = {c1, c2, c3}
    FirstParent <- MCFirstParent
    Candidates = {p1, p2}
    Names = {n1, n2}
    Links = {1, 2}
    FirstRows = 2
    MaxRow = 3
    LastPlace = 3
    Take = 2
    RankedJobs = {j1, j2, j3}
    Subject = j1
    Unlisted = {j3}
    Fields = {f1, f2}
    Points = {1, 2}
    Mixes <- MCMixes
    MaxFaults = 1
SYMMETRY MCSymmetry
INVARIANTS
    TypeOK
    StaleOnlyIfRaced
    MajorityFitsIndustry
    WebsitesOfOneRequest
    RelationsKept
    WalkComplete
PROPERTIES
    EstimateNeverFlatters
CHECK_DEADLOCK FALSE
