\* One decision that uses the statuses the payload documents.
SPECIFICATION Spec
CONSTANTS
    Requests = {r1}
    Old = Old
    None = None
    p1 = p1
    p2 = p2
    Profiles <- MCProfiles
    Cvs = {c1, c2}
    Jobs <- MCJobs
    Employer <- MCEmployer
    Applicant = p1
    Wanted = 2
    Asked = {"PENDING", "ACCEPTED", "REJECTED", "INTERVIEWING"}
    Mixes <- MCDecisions
    MaxItems = 1
    MaxFaults = 0
    BatchSize = 1
    Rounds = 2
    Processors = {JobExpiredProcessor, BoostJobExpiredProcessor}
PROPERTY
    AcceptedIsNotRejected
CHECK_DEADLOCK FALSE
