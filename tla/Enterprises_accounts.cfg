\* Any three requests about one address and its enterprise.
SPECIFICATION Spec
CONSTANTS
    Requests = {r1, r2, r3}
    Old = Old
    None = None
    Kinds <- MCKinds
    Verdicts = {"BLOCKED", "ACTIVE"}
    Reviews = {"ACTIVE", "REJECTED"}
    PayloadStatuses = {"ACTIVE"}
    MaxCrashes = 1
SYMMETRY MCSymmetry
INVARIANTS
    TypeOK
    OnceUnlessRaced
    ProfileFollows
    RolesFollowReview
PROPERTIES
    SessionsNeedActive
    RulingHolds
    CancelSparesReviewed
CHECK_DEADLOCK FALSE
