------------------------------ MODULE MCPortal ------------------------------
(***************************************************************************)
(* Instances of Portal for TLC.                                            *)
(***************************************************************************)
EXTENDS Portal, TLC

CONSTANTS c1, c2, c3

(* A category with a child, and one to come.                               *)
MCFirstParent == c1 :> None @@ c2 :> c1 @@ c3 :> Unborn

(* What meets in an entry, in the rows behind it, or in a list.            *)
Meeting == {
    {"getUserByAccountId", "updateUser", "updatePersonalProfile", "updateCandidateProfile",
     "updateRoles", "updateUserStatus", "updateCategory"},
    {"getMe", "updatePartialInfoActive", "updateBoostLimit"},
    {"getMe", "updateRegisterEnterprise", "removeEnterprise", "cancelEnterprise", "removeAddresses",
     "updateCategory"},
    {"findAll", "block", "updateActive", "updateEnterprisePayment"},
    {"findAll", "createEnterprise", "cancelEnterprise", "updateCategory"},
    {"filter", "createJob"},
    {"filter", "updateJob", "changeStatus"},
    {"filter", "updateTag", "removeTag", "removeTags", "updateCategory", "updateAddress",
     "cancelEnterprise", "updateBoostLimit"},
    {"filter", "getJobOfEnterprise", "expireBoosts"},
    {"getJobOfEnterprise", "deleteJob", "changeStatus", "applyJob", "updateApplicationStatus"},
    {"getJobOfEnterprise", "expireJobs", "cancelEnterprise"},
    {"totalJobsByEnterprise", "deleteJob", "removeEnterprise"},
    {"getTokensByAccountId", "createToken", "updateToken", "deleteTokens",
     "deleteTokenWithoutAccountId"},
    {"createCategory", "createChildren", "changeParent", "removeCategory", "removeMany", "profile",
     "saveProfile"},
    {"replaceWebsites", "removeWebsite"},
    {"addWish", "deleteWish"},
    {"createJobWishList", "deleteJobWishList"},
    {"createRecentJob"}, {"createTags"},
    {"review", "postJob"},
    {"estimateRank", "boost", "unboost", "recategorise"}}

(* A walk among two writers; two that may share what the cache kept.       *)
Writers == {"addRows", "removeRows", "moveRows"}
Walking ==
    {[r \in Requests |-> IF r = walker THEN {"walk"} ELSE Writers] : walker \in Requests}
      \cup {[r \in Requests |-> IF r = writer THEN Writers \cup {"clearList"} ELSE {"walk"}] :
               writer \in Requests}

(* All requests run handlers that meet, or all but one any of Caches.      *)
MCMixes ==
    {[r \in Requests |-> S] : S \in Meeting} \cup Walking
      \cup {[r \in Requests |-> IF r = idle THEN {} ELSE DOMAIN Program] : idle \in Requests}

MCSymmetry == Permutations(Requests)
=============================================================================
