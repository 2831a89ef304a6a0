\* Any three requests about two jobs, with one failure.
SPECIFICATION Spec
CONSTANTS
    Requests = {r1, r2, r3}
    Old = Old
    None = None
    p1 = p1
    p2 = p2
    Profiles <- MCProfiles
    Cvs = {c1, c2}
    Jobs <- MCJobs
    Employer <- MCEmployer
    Applicant = p1
    Wanted = 2
    Asked = {"PENDING", "APPROVED", "DENIED"}
    Mixes <- MCMixes
    MaxItems = 2
    MaxFaults = 1
    BatchSize = 1
    Rounds = 2
    Processors = {JobExpiredProcessor, BoostJobExpiredProcessor}
SYMMETRY MCSymmetry
INVARIANTS
    TypeOK
    OneApplicationPerJob
    NoticesMatchDecisions
    ExpiryTold
CHECK_DEADLOCK FALSE
