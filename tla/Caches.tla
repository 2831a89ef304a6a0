------------------------------- MODULE Caches -------------------------------
(***************************************************************************)
(* What is kept outside the database of what is in it: the entries of      *)
(* CacheService in Redis and the embeddings of the recommendation system.  *)
(*                                                                         *)
(* An entry is modelled by the tables it lacks: those with a write its     *)
(* content does not show.  A handler is the sequence of its steps on       *)
(* tables and entries; one interpreter runs them all.  The process has one *)
(* connection to Redis, which executes commands in the order they are      *)
(* sent: a SET or a DEL takes effect when it is sent, awaited or not.      *)
(***************************************************************************)
EXTENDS Handlers

VARIABLES
    cache,      \* [Entries -> the tables an entry lacks, or None: no entry]
    at,         \* [Requests -> the place of its next step in its program, or 0]
    lacks,      \* [Requests -> the tables that what it holds lacks]
    sweeps,     \* [Requests -> its deletions by prefix that have not ended]
    regranted,  \* the roles were written: tokens issued before carry others
    excused     \* history: <<entry, table>> stale for one of the known reasons

cacheVars == <<cache, at, lacks, sweeps, regranted, excused>>

-----------------------------------------------------------------------------
User == "user-information"
Info == "enterprise:info"
List == "list-enterprise"
Search == "jobfilter"
OfEnterprise == "jobfilter:enterprise"
TotalJob == "enterprise:totaljob"
Fcm == "fcmtoken"
JobEmbedding == "embedding/job"
EnterpriseEmbedding == "embedding/enterprise"

(* The tables an entry shows; "points" is the balance and the premium flag *)
(* of the enterprise, "jobset" which jobs there are.  Of an embedding only *)
(* the row it is named for is followed.                                    *)
Shows == [e \in {User, Info, List, Search, OfEnterprise, TotalJob, Fcm,
                 JobEmbedding, EnterpriseEmbedding} |->
    CASE e = User -> {"profile", "roles", "status", "categories"}
      [] e \in {Info, List} -> {"enterprise", "points", "addresses", "categories"}
      [] e = Search -> {"jobs", "addresses", "categories", "enterprise", "points", "tags", "boosts"}
      [] e = OfEnterprise -> {"jobs", "addresses", "categories", "enterprise", "applications",
                              "tags", "boosts"}
      [] e = TotalJob -> {"jobset"}
      [] e = Fcm -> {"tokens"}
      [] e = JobEmbedding -> {"jobs"}
      [] e = EnterpriseEmbedding -> {"enterprise"}]
Entries == DOMAIN Shows
Tables == UNION {Shows[e] : e \in Entries}

(* The entries a prefix covers: that of the enterprise lists starts with   *)
(* that of the searches.                                                   *)
JobLists == {Search, OfEnterprise}

-----------------------------------------------------------------------------
(* Steps.                                                                  *)
Step(op, of) == <<[op |-> op, of |-> of]>>

Hit(e) == Step("hit", {e})        \* GET: an entry that is there is the answer
Read(T) == Step("read", T)        \* SELECT
Find(T) == Step("find", T)        \* SELECT, and an early return if it will not do
Reread(T) == Step("reread", T)    \* SELECT and SET whose failure passes for no row
Write(T) == Step("write", T)      \* INSERT, UPDATE or DELETE
Fill(e) == Step("fill", {e})      \* SET, of what was read
Claim(e) == Step("claim", {e})    \* SET, with the roles of the caller's token
Drop(e) == Step("drop", {e})      \* DEL of one key
Sweep(E) == Step("sweep", E)      \* removeMultipleCacheWithPrefix is called
Await == Step("await", {})        \* its calls so far have ended

(* The calls of CacheService and EmbeddingService.                         *)
GetUserProfile == Hit(User)
CacheUserProfile == Fill(User)
RemoveUserProfile == Drop(User)
GetEnterpriseInfo == Hit(Info)
CacheEnterpriseInfo == Fill(Info)
DeleteEnterpriseInfo == Drop(Info)
GetListEnterprise == Hit(List)
CacheListEnterprise == Fill(List)
RemoveListEnterprise == Sweep({List})
CacheEnterpriseTotalJob == Fill(TotalJob)
DeleteEnterpriseTotalJob == Drop(TotalJob)
GetCacheJobFilter == Hit(Search)
CacheJobFilterData == Fill(Search)
GetCacheEnterpriseJobFilter == Hit(OfEnterprise)
CacheEnterpriseJobFilterData == Fill(OfEnterprise)
RemoveSearchJobsCache == Sweep(JobLists)
RemoveEnterpriseSearchJobsCache == Sweep({OfEnterprise})
RemoveEnterpriseJobFilterData == Sweep({OfEnterprise})
GetFCMTokens == Hit(Fcm)
CacheFCMToken == Fill(Fcm)
RemoveFCMToken == Drop(Fcm)
RemoveAllFCMTokens == Sweep({Fcm})

FindCategories == Read({"categories"})
CountJobs == Read({"jobset"})
DetailJobById == Read({"jobs"})
FindEnterpriseById == Read({"enterprise"})
CreateJobEmbedding == DetailJobById \o Fill(JobEmbedding)
DeleteOneJobEmbedding == Drop(JobEmbedding)
DeleteManyJobEmbedding == Drop(JobEmbedding)
CreateEnterpriseEmbedding == FindEnterpriseById \o Fill(EnterpriseEmbedding)
DeleteOneEnterpriseEmbedding == Drop(EnterpriseEmbedding)

SweepJobs == RemoveSearchJobsCache \o RemoveEnterpriseSearchJobsCache

-----------------------------------------------------------------------------
(* The handlers, as the steps they take when every check passes.           *)

(* The profile of an account, with its roles, address and status.          *)
UserTables == {"profile", "roles", "status", "categories"}
GetUserByAccountId == GetUserProfile \o Find(UserTables) \o CacheUserProfile
GetUserByProfileId == Find({"profile", "status"}) \o GetUserByAccountId
GetUserByProfileIdAndFavorite == Find({"profile", "status"}) \o GetUserByAccountId
UpdateUser == Find({"profile", "roles"}) \o Write({"profile"}) \o CacheUserProfile
Refreshed == Reread(UserTables) \o CacheUserProfile \o Claim(User)
UpdatePersonalProfile == Find({"profile"}) \o Write({"profile"}) \o Refreshed
UpdateCandidateProfile == Find({"profile"}) \o Find({"categories"}) \o Write({"profile"}) \o Refreshed
MutUpdateRoles == Find({"roles", "status"}) \o Write({"roles"})
UpdateRoles == Find({"roles", "status"}) \o Write({"roles"}) \o RemoveUserProfile
UpdateUserStatus == Find({"profile", "status"}) \o Write({"status"})
UpdateCategory == Find({"categories"}) \o Write({"categories"})

(* An enterprise and the lists it is in.                                   *)
ReadEnterprise == Read({"enterprise", "points", "addresses"}) \o FindCategories
GetMe == GetEnterpriseInfo \o ReadEnterprise \o CacheEnterpriseInfo
FindAll == GetListEnterprise \o ReadEnterprise \o CacheListEnterprise
CreateEnterprise ==
    Find({"enterprise"}) \o Write({"enterprise"}) \o RemoveListEnterprise \o CreateEnterpriseEmbedding
Saved(embedding) ==
    Write({"enterprise"}) \o DeleteEnterpriseInfo \o embedding \o RemoveListEnterprise
UpdatePartialInfoActive ==
    Read({"enterprise"}) \o RemoveListEnterprise \o Await \o Find({})
      \o CreateEnterpriseEmbedding \o Saved(CreateEnterpriseEmbedding) \o DeleteEnterpriseInfo
Review(embedding) ==
    Find({"enterprise"}) \o Find({"enterprise"}) \o Saved(embedding) \o UpdateRoles
      \o RemoveListEnterprise
Approve == Review(CreateEnterpriseEmbedding)
Block == Review(DeleteOneEnterpriseEmbedding)
Update(embedding) == Find({"enterprise"}) \o Saved(embedding)
UpdateActive == Update(CreateEnterpriseEmbedding)       \* the embedding follows the status
UpdateInactive == Update(DeleteOneEnterpriseEmbedding)
RemovedTables == {"enterprise", "jobs", "jobset"}  \* its jobs go with it: ON DELETE CASCADE
RemoveEnterprise ==
    Find({"enterprise"}) \o DeleteEnterpriseInfo \o RemoveListEnterprise \o Await
      \o DeleteOneEnterpriseEmbedding \o Write(RemovedTables)
CancelEnterprise == Find({"enterprise"}) \o Write(RemovedTables)
UpdateRegister(embedding) ==
    Find({"enterprise"}) \o Write({"enterprise"}) \o RemoveListEnterprise \o Await \o embedding
UpdateRegisterActive == UpdateRegister(CreateEnterpriseEmbedding)
UpdateRegisterEnterprise == UpdateRegister(DeleteOneEnterpriseEmbedding)
UpdateCompanyAddress ==
    Find({"addresses"}) \o Write({"addresses"}) \o CreateEnterpriseEmbedding \o DeleteEnterpriseInfo
UpdateAddress == Find({"addresses"}) \o Write({"addresses"})
RemoveAddresses == Find({"addresses"}) \o Write({"addresses"})
UpdateBoostLimit == Find({"points"}) \o Write({"points"})
UpdateEnterprisePayment == Find({"points"}) \o RemoveListEnterprise \o Write({"points"})

(* Jobs and the lists they are in.                                         *)
ListedTables == Shows[Search] \cup Shows[OfEnterprise]
Filter == GetCacheJobFilter \o Read(ListedTables) \o CacheJobFilterData
GetJobOfEnterprise ==
    GetCacheEnterpriseJobFilter \o Read(ListedTables) \o CacheEnterpriseJobFilterData
TotalJobsByEnterprise == CountJobs \o CacheEnterpriseTotalJob
GetEnterpriseByAccountId == Find({"enterprise"})
CreateJob ==
    GetEnterpriseByAccountId \o DeleteEnterpriseTotalJob \o SweepJobs
      \o Write({"jobs", "jobset"}) \o CreateJobEmbedding
UpdateJob == Find({"jobs"}) \o Write({"jobs"}) \o CreateJobEmbedding \o SweepJobs
DeleteJob ==
    Find({"jobs"}) \o Write({"jobs", "jobset"}) \o DeleteOneJobEmbedding \o SweepJobs
      \o DeleteEnterpriseTotalJob
CloseJob == Find({"jobs"}) \o Write({"jobs"}) \o DeleteOneJobEmbedding \o SweepJobs \o Await
ChangeStatus == Find({"jobs"}) \o Write({"jobs"}) \o SweepJobs
OpenJob == Find({"jobs"}) \o Write({"jobs"}) \o CreateJobEmbedding \o SweepJobs
BoostJob ==
    Find({"jobs"}) \o Write({"jobs"}) \o Write({"boosts"}) \o CreateJobEmbedding
      \o RemoveEnterpriseSearchJobsCache \o RemoveSearchJobsCache
ExpireBoosts ==     \* side by side up to Await: the writes may come after the deletions
    Read({"boosts"}) \o RemoveEnterpriseSearchJobsCache \o RemoveSearchJobsCache
      \o DeleteManyJobEmbedding \o Write({"boosts"}) \o Write({"jobs"}) \o Await
      \o CreateJobEmbedding
ExpireJobs ==
    Read({"jobs"}) \o Write({"jobs"}) \o DeleteManyJobEmbedding \o RemoveEnterpriseSearchJobsCache
      \o RemoveSearchJobsCache \o DeleteManyJobEmbedding \o Await \o CreateJobEmbedding
ApplyJob == Find({"applications"}) \o Write({"applications"}) \o RemoveEnterpriseJobFilterData \o Await
UpdateApplicationStatus == Find({"applications"}) \o Write({"applications"})
UpdateTag == Find({"tags"}) \o Write({"tags"})
RemoveTag == Find({"tags"}) \o Write({"tags"})
RemoveTags == Find({"tags"}) \o Write({"tags"})

(* The devices of an account.                                              *)
GetTokensByAccountId == GetFCMTokens \o Read({"tokens"}) \o CacheFCMToken
CreateToken == Find({"tokens"}) \o Write({"tokens"}) \o RemoveFCMToken
UpdateToken == Find({"tokens"}) \o Write({"tokens"}) \o RemoveFCMToken
DeleteTokens == Write({"tokens"}) \o RemoveFCMToken
DeleteTokenWithoutAccountId == Write({"tokens"}) \o RemoveAllFCMTokens

Program == [
    getUserByAccountId |-> GetUserByAccountId, getUserByProfileId |-> GetUserByProfileId,
    getUserByProfileIdAndFavorite |-> GetUserByProfileIdAndFavorite,
    updateUser |-> UpdateUser, updatePersonalProfile |-> UpdatePersonalProfile,
    updateCandidateProfile |-> UpdateCandidateProfile, updateRoles |-> UpdateRoles,
    updateUserStatus |-> UpdateUserStatus, updateCategory |-> UpdateCategory,
    getMe |-> GetMe, findAll |-> FindAll, createEnterprise |-> CreateEnterprise,
    updatePartialInfoActive |-> UpdatePartialInfoActive, approve |-> Approve, block |-> Block,
    updateActive |-> UpdateActive, updateInactive |-> UpdateInactive,
    removeEnterprise |-> RemoveEnterprise, cancelEnterprise |-> CancelEnterprise,
    updateRegisterActive |-> UpdateRegisterActive,
    updateRegisterEnterprise |-> UpdateRegisterEnterprise,
    updateCompanyAddress |-> UpdateCompanyAddress, updateAddress |-> UpdateAddress,
    removeAddresses |-> RemoveAddresses,
    updateBoostLimit |-> UpdateBoostLimit, updateEnterprisePayment |-> UpdateEnterprisePayment,
    filter |-> Filter, getJobOfEnterprise |-> GetJobOfEnterprise,
    totalJobsByEnterprise |-> TotalJobsByEnterprise, createJob |-> CreateJob,
    updateJob |-> UpdateJob, deleteJob |-> DeleteJob, closeJob |-> CloseJob,
    changeStatus |-> ChangeStatus, openJob |-> OpenJob, boostJob |-> BoostJob,
    expireBoosts |-> ExpireBoosts, expireJobs |-> ExpireJobs, applyJob |-> ApplyJob,
    updateApplicationStatus |-> UpdateApplicationStatus, updateTag |-> UpdateTag,
    removeTag |-> RemoveTag, removeTags |-> RemoveTags,
    getTokensByAccountId |-> GetTokensByAccountId, createToken |-> CreateToken,
    updateToken |-> UpdateToken, deleteTokens |-> DeleteTokens,
    deleteTokenWithoutAccountId |-> DeleteTokenWithoutAccountId]

(* The writes no handler follows by a deletion of the entry.               *)
Overlooked ==
    ({"status"} \X {User})
      \cup ({"categories"} \X {User, Info, List, Search, OfEnterprise})
      \cup ({"addresses"} \X {List, Search, OfEnterprise})
      \cup ({"points"} \X {Info, List, Search})
      \cup ({"enterprise", "tags"} \X JobLists)

(* The handlers that delete the entry too early or not at all.             *)
Skipped ==
    ({"createJob"} \X {TotalJob, Search, OfEnterprise})
      \cup ({"removeEnterprise", "cancelEnterprise"} \X
               {Info, List, EnterpriseEmbedding, TotalJob, Search, OfEnterprise, JobEmbedding})
      \cup ({"updateRegisterActive", "updateRegisterEnterprise", "updateAddress",
              "removeAddresses"} \X {Info})
      \cup ({"createEnterprise"} \X {Info})
      \cup ({"expireBoosts"} \X JobLists)
      \cup ({"updateApplicationStatus"} \X {OfEnterprise})
      \cup ({"changeStatus"} \X {JobEmbedding})

-----------------------------------------------------------------------------
NextStep(r) == Program[kind[r]][at[r]]
At(r, op) == pc[r] = "running" /\ NextStep(r).op = op
Of(r) == NextStep(r).of

(* From step i of handler k on: the entries it replaces or removes, and    *)
(* the tables that are of interest in what it holds, as they are stored.   *)
Later(k, i, Ops) ==
    UNION {Program[k][j].of : j \in {x \in i..Len(Program[k]) : Program[k][x].op \in Ops}}
From(F(_, _)) == [k \in DOMAIN Program |-> [i \in 1..(Len(Program[k]) + 1) |-> F(k, i)]]
AheadFrom == From(LAMBDA k, i : Later(k, i, {"fill", "claim", "drop", "sweep"}))
NeededFrom == From(LAMBDA k, i : UNION {Shows[e] : e \in Later(k, i, {"fill", "claim"})})

Ahead(r) == IF at[r] = 0 THEN {} ELSE AheadFrom[kind[r]][at[r]]
Needed(r) == IF at[r] = 0 THEN {} ELSE NeededFrom[kind[r]][at[r]]

CacheInit ==
    /\ cache = [e \in Entries |-> None]
    /\ at = [r \in Requests |-> 0]
    /\ lacks = [r \in Requests |-> {}]
    /\ sweeps = [r \in Requests |-> {}]
    /\ regranted = FALSE /\ excused = {}

Begin(r) ==
    \E k \in mix[r] \cap DOMAIN Program :
       /\ Starts(r, k, "running")
       /\ at' = [at EXCEPT ![r] = 1]
       /\ lacks' = [lacks EXCEPT ![r] = NeededFrom[k][1]]
       /\ UNCHANGED <<cache, sweeps, regranted, excused>>

Answers(r, how) ==
    /\ Ends(r, how)
    /\ at' = [at EXCEPT ![r] = 0]

(* The handler goes on to its next step, with what it holds lacking L, or  *)
(* answers.                                                                *)
Holds(L, r) == lacks' = [lacks EXCEPT ![r] = L \cap NeededFrom[kind[r]][at[r] + 1]]
Advances(r) ==
    IF at[r] = Len(Program[kind[r]]) THEN Answers(r, "done")
    ELSE at' = [at EXCEPT ![r] = @ + 1] /\ Stays

Leaves(r, how) == Answers(r, how) /\ lacks' = [lacks EXCEPT ![r] = {}]

(* An entry of devices that is an empty list counts as none.               *)
GetCached(r) ==
    /\ At(r, "hit")
    /\ \E e \in Of(r) :
          \/ cache[e] # None /\ Leaves(r, "done")
          \/ (cache[e] = None \/ e = Fcm) /\ Advances(r) /\ UNCHANGED lacks
    /\ UNCHANGED <<cache, sweeps, regranted, excused>>

Reads(r) ==
    /\ At(r, "read") \/ At(r, "find") \/ At(r, "reread")
    /\ Advances(r) /\ Holds(lacks[r] \ Of(r), r)
    /\ UNCHANGED <<cache, sweeps, regranted, excused>>

TurnedAway(r) ==
    /\ At(r, "find")
    /\ Leaves(r, "rejected")
    /\ UNCHANGED <<cache, sweeps, regranted, excused>>

(* getUserByAccountId catches every error and answers null: its caller     *)
(* stores an entry without what was not read.                              *)
RereadFails(r) ==
    /\ At(r, "reread") /\ faults < MaxFaults
    /\ faults' = faults + 1
    /\ at' = [at EXCEPT ![r] = @ + 2]
    /\ UNCHANGED <<pc, kind, mix, cache, lacks, sweeps, regranted, excused>>

LeftStale(k, T) == {p \in Entries \X T : <<p[2], p[1]>> \in Overlooked \/ <<k, p[1]>> \in Skipped}

Writes(r) ==
    /\ At(r, "write")
    /\ Advances(r)
    /\ lacks' = [x \in Requests |->
                   IF x = r THEN lacks[x] ELSE lacks[x] \cup (Of(r) \cap Needed(x))]
    /\ cache' = [e \in Entries |->
                   IF cache[e] = None THEN None ELSE cache[e] \cup (Of(r) \cap Shows[e])]
    /\ excused' = excused \cup {p \in LeftStale(kind[r], Of(r)) :
                                  cache[p[1]] # None /\ p[2] \in Shows[p[1]]}
    /\ regranted' = (regranted \/ "roles" \in Of(r))
    /\ UNCHANGED sweeps

Forget(E) == {p \in excused : p[1] \notin E}

(* Entry e is stored lacking L: it is excused for what it lacks at once.   *)
Store(e, L) ==
    /\ cache' = [cache EXCEPT ![e] = L \cap Shows[e]]
    /\ excused' = Forget({e}) \cup ({e} \X (L \cap Shows[e]))

Fills(r) ==
    /\ At(r, "fill")
    /\ \E e \in Of(r) : Store(e, lacks[r])
    /\ Advances(r) /\ Holds(lacks[r], r)
    /\ UNCHANGED <<sweeps, regranted>>

(* The roles of the caller's token replace those read.                     *)
Claims(r) ==
    /\ At(r, "claim")
    /\ \E e \in Of(r), outdated \in {FALSE, regranted} :
          Store(e, (lacks[r] \ {"roles"}) \cup (IF outdated THEN {"roles"} ELSE {}))
    /\ Advances(r) /\ Holds(lacks[r], r)
    /\ UNCHANGED <<sweeps, regranted>>

Remove(E) ==
    /\ cache' = [e \in Entries |-> IF e \in E THEN None ELSE cache[e]]
    /\ excused' = Forget(E)

Drops(r) ==
    /\ At(r, "drop")
    /\ Remove(Of(r))
    /\ Advances(r)
    /\ UNCHANGED <<lacks, sweeps, regranted>>

-----------------------------------------------------------------------------
(* CacheService.removeMultipleCacheWithPrefix: SCAN, then DEL of the keys  *)
(* found; the caller goes on unless it awaits the end.                     *)
SweepStarts(r) ==
    /\ At(r, "sweep")
    /\ sweeps' = [sweeps EXCEPT ![r] = @ \cup
                     {[place |-> at[r], under |-> Of(r), found |-> None]}]
    /\ Advances(r)
    /\ UNCHANGED <<cache, lacks, regranted, excused>>

Found(E) == {e \in E : cache[e] # None}

SweepScan(r) ==
    \E b \in {x \in sweeps[r] : x.found = None} :
       /\ sweeps' = [sweeps EXCEPT ![r] =
                       (@ \ {b}) \cup (IF Found(b.under) = {} THEN {}
                                       ELSE {[b EXCEPT !.found = Found(b.under)]})]
       /\ UNCHANGED <<handlers, cache, at, lacks, regranted, excused>>

SweepDelete(r) ==
    \E b \in {x \in sweeps[r] : x.found # None} :
       /\ Remove(b.found)
       /\ sweeps' = [sweeps EXCEPT ![r] = @ \ {b}]
       /\ UNCHANGED <<handlers, at, lacks, regranted>>

Awaits(r) ==
    /\ At(r, "await") /\ sweeps[r] = {}
    /\ Advances(r)
    /\ UNCHANGED <<cache, lacks, sweeps, regranted, excused>>

(* An entry outlives its time.                                             *)
Expire(e) ==
    /\ cache[e] # None
    /\ Remove({e})
    /\ UNCHANGED <<handlers, at, lacks, sweeps, regranted>>

(* What a failed handler leaves stale is excused.                          *)
HandlerFails(r) ==
    /\ pc[r] = "running"
    /\ Breaks(r)
    /\ at' = [at EXCEPT ![r] = 0]
    /\ lacks' = [lacks EXCEPT ![r] = {}]
    /\ excused' = excused \cup UNION {{e} \X cache[e] : e \in Found(Ahead(r))}
    /\ UNCHANGED <<cache, sweeps, regranted>>

CacheCrash ==
    /\ at' = [r \in Requests |-> 0]
    /\ lacks' = [r \in Requests |-> {}]
    /\ sweeps' = [r \in Requests |-> {}]
    /\ excused' = UNION {{e} \X cache[e] : e \in Found(Entries)}
    /\ UNCHANGED <<cache, regranted>>

CacheSteps(r) ==
    \/ Begin(r) \/ GetCached(r) \/ Reads(r) \/ TurnedAway(r) \/ RereadFails(r) \/ Writes(r)
    \/ Fills(r) \/ Claims(r) \/ Drops(r) \/ SweepStarts(r) \/ SweepScan(r) \/ SweepDelete(r)
    \/ Awaits(r) \/ HandlerFails(r)

-----------------------------------------------------------------------------
CacheTypeOK ==
    /\ \A e \in Entries : cache[e] # None => cache[e] \subseteq Shows[e]
    /\ \A r \in Requests : lacks[r] \subseteq Needed(r)
    /\ \A r \in Requests : \A b \in sweeps[r] : b.found # None => b.found \subseteq b.under
    /\ excused \subseteq Entries \X Tables

(* Something is on its way that removes or replaces entry e.               *)
Coming(e) ==
    \E r \in Requests :
       \/ e \in Ahead(r)
       \/ \E b \in sweeps[r] : e \in b.under /\ (b.found = None \/ e \in b.found)

(* An entry is stale only while its deletion is on the way, or for one of  *)
(* the known reasons: it was stored by a handler that had read the table   *)
(* before the write, or not at all; the write is one the code lets pass;   *)
(* or the writer failed before the deletion.  The deletions of all the     *)
(* handlers of CacheService are complete but for these.                    *)
StaleOnlyIfRaced ==
    \A e \in Entries :
       cache[e] # None => \A t \in cache[e] : <<e, t>> \in excused \/ Coming(e)
=============================================================================
