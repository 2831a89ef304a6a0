\* A login and its logout.
SPECIFICATION Spec
CONSTANTS
    Requests = {r1}
    Old = Old
    None = None
    Kinds <- AccountKinds
    Verdicts = {"BLOCKED", "ACTIVE"}
    Reviews = {"ACTIVE", "REJECTED"}
    PayloadStatuses = {"ACTIVE"}
    MaxCrashes = 1
PROPERTIES
    LogoutEndsSession
CHECK_DEADLOCK FALSE
