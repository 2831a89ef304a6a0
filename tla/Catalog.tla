------------------------------ MODULE Catalog -------------------------------
(***************************************************************************)
(* The rows others refer to: the tree of categories and the profile that   *)
(* names two of them, the websites of a profile, what is related to an     *)
(* enterprise - the candidates on its wish list and its jobs - and the     *)
(* rows that are inserted unless there is one: the candidates that keep a  *)
(* job on their list or have viewed it, and the names of tags.  From       *)
(* CategoryService, UserService, WebsiteService, EnterpriseService,        *)
(* JobService, RecentJobService and TagService.                            *)
(*                                                                         *)
(* A row of websites, like a job, is named by the request that inserted it *)
(* or by Old.                                                              *)
(***************************************************************************)
EXTENDS Handlers

CONSTANTS
    Old,
    Categories,  \* ids of categories, those to come included
    FirstParent, \* [Categories -> the parent at the start, None or Unborn]
    Unborn, Removed,
    Candidates,  \* profiles an enterprise may add to its wish list
    Names,       \* names of tags
    Links        \* websites a replacement posts

ASSUME CatalogAssumption ==
    /\ Old \notin Requests
    /\ FirstParent \in [Categories -> Categories \cup {None, Unborn}]
    /\ {None, Unborn, Removed} \cap Categories = {}
    /\ None \notin {Unborn, Removed} /\ Unborn # Removed

VARIABLES
    \* ---- database
    parent,     \* [Categories -> the parent, None, Unborn or Removed]
    profile,    \* [industry, majority : Categories or None]
    websites,   \* rows of "websites" of the profile
    related,    \* [favorites, jobs], related to the enterprise; [wishes, views], to
                \* a job; [tags], the names there are.  A view is <<candidate, request>>
    \* ---- handlers in memory
    asked,      \* [Requests -> the payload, and what was read for it]
    branches,   \* [Requests -> statements of a Promise.all that have not ended]
    \* ---- history variables, read by the properties only
    moved,      \* [Requests -> categories moved since the check of what it will save]
    loose,      \* the majority was moved after the check it was stored on, or the
                \* profile was written in the midst of a save of the whole row
    crowded,    \* replacements that overlapped another, or failed in part
    mingled,    \* the last replacement to end was one of them
    outrun,     \* <<request, relation>>: written by another since it loaded it
    torn,       \* relations saved from a reading that was outrun
    meant       \* as related: what the requests that succeeded asked for

catalogTables == <<parent, profile, websites, related>>
catalogHistory == <<moved, loose, crowded, mingled, outrun, torn, meant>>
catalogVars == <<catalogTables, asked, branches, catalogHistory>>

-----------------------------------------------------------------------------
Exists(c) == c # None /\ parent[c] \notin {Unborn, Removed}
Choice == Categories \cup {None}

Blank == [category |-> None, parent |-> None, doomed |-> {}, candidate |-> None, keys |-> {},
          mine |-> [favorites |-> {}, jobs |-> {}], found |-> [favorites |-> {}, jobs |-> {}],
          row |-> [industry |-> None, majority |-> None]]

CatalogInit ==
    /\ parent = FirstParent
    /\ profile = [industry |-> None, majority |-> None]
    /\ websites = {Old} \X Links
    /\ related = [favorites |-> {}, jobs |-> {Old}, wishes |-> {}, views |-> {}, tags |-> {}]
    /\ asked = [r \in Requests |-> Blank]
    /\ branches = [r \in Requests |-> {}]
    /\ moved = [r \in Requests |-> {}] /\ loose = FALSE
    /\ crowded = {} /\ mingled = FALSE
    /\ outrun = {} /\ torn = {}
    /\ meant = related

Asks(r, a) == asked' = [asked EXCEPT ![r] = a]
(* A request answers, and nothing of it is left in memory.                 *)
Closes(r, how) == Ends(r, how) /\ Asks(r, Blank)

-----------------------------------------------------------------------------
(* Categories.                                                             *)

(* Every category whose chain of parents meets the set: the smallest set   *)
(* with it that is closed under children, a cycle being no obstacle.       *)
Family(C) ==
    LET Closed(D) == C \subseteq D /\ \A c \in Categories : parent[c] \in D => c \in D
    IN  {c \in Categories : \A D \in SUBSET Categories : Closed(D) => c \in D}

MutInUse(C) == {profile.industry} \cap C # {}
InUse(C) == {profile.industry, profile.majority} \cap C # {}

Parented(c, p) == parent' = [parent EXCEPT ![c] = p]

(* Category c moves below p: a check that passed before no longer says     *)
(* where it is.                                                            *)
Relocates(c) ==
    /\ moved' = [r \in Requests |-> IF kind[r] \in {"profile", "saveProfile"}
                                    THEN moved[r] \cup {c} ELSE moved[r]]
    /\ loose' = (loose \/ c = profile.majority)

NothingElse == UNCHANGED <<profile, websites, related, branches, crowded, mingled, outrun, torn, meant>>

(* create: the INSERT meets the foreign key of the parent.                 *)
CreateCategory(r) ==
    /\ MayRun(r, "createCategory")
    /\ \E c \in Categories, p \in Choice :
          /\ parent[c] = Unborn
          /\ \/ (p = None \/ Exists(p)) /\ Parented(c, p) /\ Ends(r, "done")
             \/ p # None /\ ~Exists(p) /\ Ends(r, "failed") /\ UNCHANGED parent
    /\ UNCHANGED <<asked, moved, loose>> /\ NothingElse

ChildrenFind(r) ==
    /\ MayRun(r, "createChildren")
    /\ \E p \in Categories :
          IF Exists(p)
          THEN /\ Starts(r, "createChildren", "childSave")
               /\ Asks(r, [Blank EXCEPT !.parent = p])
          ELSE Closes(r, "rejected")
    /\ UNCHANGED <<parent, moved, loose>> /\ NothingElse

ChildrenSave(r) ==
    /\ pc[r] = "childSave"
    /\ \E c \in Categories :
          /\ parent[c] = Unborn
          /\ \/ Exists(asked[r].parent) /\ Parented(c, asked[r].parent) /\ Closes(r, "done")
             \/ ~Exists(asked[r].parent) /\ Closes(r, "failed") /\ UNCHANGED parent
    /\ UNCHANGED <<moved, loose>> /\ NothingElse

ChangeFind(r) ==
    /\ MayRun(r, "changeParent")
    /\ \E c, p \in Categories :
          /\ c # p /\ Exists(c)
          /\ Starts(r, "changeParent", "changeFindParent")
          /\ Asks(r, [Blank EXCEPT !.category = c, !.parent = p])
    /\ UNCHANGED <<parent, moved, loose>> /\ NothingElse

ChangeFindParent(r) ==
    /\ pc[r] = "changeFindParent"
    /\ IF Exists(asked[r].parent)
       THEN Moves(r, "changeFindParent", "changeSave") /\ UNCHANGED asked
       ELSE Closes(r, "rejected")
    /\ UNCHANGED <<parent, moved, loose>> /\ NothingElse

(* save looks the row up again: one that was removed is inserted anew, or  *)
(* updated in vain when it went in between.                                *)
ChangeSave(r) ==
    /\ pc[r] = "changeSave"
    /\ LET c == asked[r].category
           p == asked[r].parent
       IN  \/ /\ Exists(p)
              /\ Parented(c, p) /\ Relocates(c)
              /\ Closes(r, "done")
           \/ /\ ~Exists(c)
              /\ Closes(r, "done") /\ UNCHANGED <<parent, moved, loose>>
           \/ /\ ~Exists(p)
              /\ Closes(r, "failed") /\ UNCHANGED <<parent, moved, loose>>
    /\ NothingElse

RemoveFind(r) ==
    /\ MayRun(r, "removeCategory")
    /\ \E c \in Categories :
          /\ Exists(c)
          /\ Starts(r, "removeCategory", "removeCategory")
          /\ Asks(r, [Blank EXCEPT !.doomed = {c}])
    /\ UNCHANGED <<parent, moved, loose>> /\ NothingElse

(* removeMany deletes without looking.                                     *)
RemoveMany(r) ==
    /\ MayRun(r, "removeMany")
    /\ \E C \in (SUBSET Categories) \ {{}} :
          /\ Starts(r, "removeMany", "removeCategory")
          /\ Asks(r, [Blank EXCEPT !.doomed = C])
    /\ UNCHANGED <<parent, moved, loose>> /\ NothingElse

(* The DELETE takes the children along, and all or none: a profile that    *)
(* names one of them holds it.                                             *)
RemoveDelete(r) ==
    /\ pc[r] = "removeCategory"
    /\ LET C == Family({c \in asked[r].doomed : Exists(c)})
       IN  \/ InUse(C) /\ Closes(r, "rejected") /\ UNCHANGED parent
           \/ /\ ~InUse(C)
              /\ parent' = [c \in Categories |-> IF c \in C THEN Removed ELSE parent[c]]
              /\ Closes(r, IF C = {} THEN "rejected" ELSE "done")
    /\ UNCHANGED <<moved, loose>> /\ NothingElse

-----------------------------------------------------------------------------
(* UserService.updateCandidateProfile, as far as it is about categories.   *)

MutOfFamily(p, c) == c # None /\ Exists(c)
OfFamily(p, c) == c # None /\ Exists(c) /\ parent[c] = p

ProfileStart(r) ==
    /\ MayRun(r, "profile")
    /\ \E i, m \in Choice :
          /\ m # None => i # None
          /\ Starts(r, "profile", IF m = None THEN "profileSave" ELSE "profileCheck")
          /\ Asks(r, [Blank EXCEPT !.parent = i, !.category = m])
    /\ moved' = [moved EXCEPT ![r] = {}]
    /\ UNCHANGED <<parent, loose>> /\ NothingElse

ProfileCheck(r) ==
    /\ pc[r] = "profileCheck"
    /\ IF OfFamily(asked[r].parent, asked[r].category)
       THEN Moves(r, "profileCheck", "profileSave") /\ UNCHANGED asked
       ELSE Closes(r, "rejected")
    /\ moved' = [moved EXCEPT ![r] = {}]
    /\ UNCHANGED <<parent, loose>> /\ NothingElse

ProfileSave(r) ==
    /\ pc[r] = "profileSave"
    /\ LET named == {asked[r].parent, asked[r].category} \ {None}
       IN  \/ /\ \A c \in named : Exists(c)
              /\ profile' = [industry |-> asked[r].parent, majority |-> asked[r].category]
              /\ loose' = (asked[r].category \in moved[r])
              /\ Closes(r, "done")
           \/ /\ \E c \in named : ~Exists(c)
              /\ Closes(r, "failed") /\ UNCHANGED <<profile, loose>>
    /\ moved' = [moved EXCEPT ![r] = {}]
    /\ UNCHANGED <<parent, websites, related, branches, crowded, mingled, outrun, torn, meant>>

(* activeProfile, updateUser and updatePersonalProfile are about other     *)
(* columns, and save the whole row they read, its categories included.     *)
Held(r) == [industry |-> asked[r].parent, majority |-> asked[r].category]

WholeLoad(r) ==
    /\ Starts(r, "saveProfile", "wholeSelect")
    /\ Asks(r, [Blank EXCEPT !.parent = profile.industry, !.category = profile.majority])
    /\ moved' = [moved EXCEPT ![r] = IF loose THEN {profile.majority} \ {None} ELSE {}]
    /\ UNCHANGED <<parent, loose>> /\ NothingElse

WholeSelect(r) ==
    /\ Moves(r, "wholeSelect", "wholeUpdate")
    /\ Asks(r, [asked[r] EXCEPT !.row = profile])
    /\ UNCHANGED <<parent, moved, loose>> /\ NothingElse

(* The columns that differ from those selected are written; TypeORM may    *)
(* write a relation that does not, as the entity holds a bare id.          *)
WholeUpdate(r) ==
    /\ pc[r] = "wholeUpdate"
    /\ \E C \in SUBSET DOMAIN profile :
          /\ \A c \in DOMAIN profile \ C : Held(r)[c] = asked[r].row[c]
          /\ \/ /\ \A c \in C : Held(r)[c] = None \/ Exists(Held(r)[c])
                /\ profile' = [c \in DOMAIN profile |-> IF c \in C THEN Held(r)[c] ELSE profile[c]]
                /\ loose' = IF C = {} THEN loose
                            ELSE asked[r].category \in moved[r] \/ profile # asked[r].row
                /\ Closes(r, "done")
             \/ /\ \E c \in C : Held(r)[c] # None /\ ~Exists(Held(r)[c])
                /\ Closes(r, "failed") /\ UNCHANGED <<profile, loose>>
    /\ moved' = [moved EXCEPT ![r] = {}]
    /\ UNCHANGED <<parent, websites, related, branches, crowded, mingled, outrun, torn, meant>>

-----------------------------------------------------------------------------
(* Websites.  createWebsitesByProfileId and createWebsiteByEnterpriseId    *)
(* run the DELETE and the transaction of the INSERTs side by side.         *)

OthersAlone ==
    UNCHANGED <<parent, profile, related, moved, loose, outrun, torn, meant>>

Replacing == {r \in Requests : branches[r] # {}}

ReplaceWebsites(r) ==
    /\ Starts(r, "replaceWebsites", "replacing")
    /\ branches' = [branches EXCEPT ![r] = {"delete", "save"}]
    /\ crowded' = crowded \cup (IF Replacing = {} THEN {} ELSE Replacing \cup {r})
    /\ UNCHANGED <<websites, asked, mingled>> /\ OthersAlone

MutSuperseded(r) == {w \in websites : w[1] = r}
Superseded(r) == websites

BranchIsOver(r, b, C) ==
    /\ b \in branches[r]
    /\ branches' = [branches EXCEPT ![r] = @ \ {b}]
    /\ crowded' = C
    /\ mingled' = IF branches[r] = {b} THEN r \in C ELSE mingled
    /\ UNCHANGED asked /\ OthersAlone

BranchEnds(r, b) ==
    /\ BranchIsOver(r, b, crowded)
    /\ IF branches[r] = {b} /\ Live(r) THEN Ends(r, "done") ELSE Stays

(* A rejected branch answers for the request; the other one goes on.       *)
BranchFails(r) ==
    /\ \E b \in branches[r] : BranchIsOver(r, b, crowded \cup {r})
    /\ Breaks(r)
    /\ UNCHANGED websites

DeleteWebsites(r) == BranchEnds(r, "delete") /\ websites' = websites \ Superseded(r)
SaveWebsites(r) == BranchEnds(r, "save") /\ websites' = websites \cup ({r} \X Links)

RemoveWebsite(r) ==
    /\ MayRun(r, "removeWebsite")
    /\ Ends(r, "done")
    /\ \E w \in websites : websites' = websites \ {w}
    /\ UNCHANGED <<asked, branches, crowded, mingled>> /\ OthersAlone

-----------------------------------------------------------------------------
(* What is related to an enterprise.  A handler loads the relation with    *)
(* the row, and save makes the rows of the database those it holds.        *)

Relations == DOMAIN related

RelationsAlone == UNCHANGED <<parent, profile, websites, branches, moved, loose, crowded, mingled>>

Keeps(r) == IF kind[r] = "review" THEN "jobs" ELSE "favorites"
Loads(r) == outrun' = outrun \ ({r} \X Relations)

(* Request r writes relation rel: what others loaded of it is outrun.      *)
Rewrites(r, rel) ==
    /\ outrun' = (outrun \ ({r} \X Relations))
                   \cup {<<x, rel>> : x \in {y \in Requests \ {r} : pc[y] \in {"relate", "relateWrite"} /\ Keeps(y) = rel}}
    /\ torn' = torn \cup (IF <<r, rel>> \in outrun THEN {rel} ELSE {})

WishLoad(r, k, listed, mine) ==
    /\ MayRun(r, k)
    /\ \E p \in Candidates :
       IF (p \in related.favorites) = listed
       THEN /\ Starts(r, k, "relate")
            /\ Asks(r, [Blank EXCEPT !.candidate = p, !.mine.favorites = mine[p]])
       ELSE Closes(r, "rejected")

AddWishLoad(r) ==
    /\ WishLoad(r, "addWish", FALSE, [p \in Candidates |-> related.favorites \cup {p}])
    /\ Loads(r)
    /\ UNCHANGED <<related, torn, meant>> /\ RelationsAlone

DeleteWishLoad(r) ==
    /\ WishLoad(r, "deleteWish", TRUE, [p \in Candidates |-> related.favorites \ {p}])
    /\ Loads(r)
    /\ UNCHANGED <<related, torn, meant>> /\ RelationsAlone

(* update by id saves the jobs it loaded with the enterprise.              *)
ReviewLoad(r) ==
    /\ Starts(r, "review", "relate")
    /\ Asks(r, [Blank EXCEPT !.mine.jobs = related.jobs])
    /\ Loads(r)
    /\ UNCHANGED <<related, torn, meant>> /\ RelationsAlone

RelateSelect(r) ==
    /\ Moves(r, "relate", "relateWrite")
    /\ Asks(r, [asked[r] EXCEPT !.found = related])
    /\ UNCHANGED <<related, outrun, torn, meant>> /\ RelationsAlone

(* Rows that are there and should not be, a junction row being deleted and *)
(* a job losing its enterprise; and rows that should be and are not.       *)
MutSurplus(r, rel) == {}
Surplus(r, rel) == asked[r].found[rel] \ asked[r].mine[rel]
Missing(r, rel) == asked[r].mine[rel] \ asked[r].found[rel]

Meant(r) ==
    CASE kind[r] = "addWish" -> [meant EXCEPT !.favorites = @ \cup {asked[r].candidate}]
      [] kind[r] = "deleteWish" -> [meant EXCEPT !.favorites = @ \ {asked[r].candidate}]
      [] OTHER -> meant

(* A junction row inserted twice meets its primary key.                    *)
RelateWrite(r) ==
    /\ pc[r] = "relateWrite"
    /\ LET rel == Keeps(r)
       IN  IF rel = "favorites" /\ Missing(r, rel) \cap related[rel] # {}
           THEN /\ Closes(r, "failed") /\ Loads(r)
                /\ UNCHANGED <<related, torn, meant>>
           ELSE /\ related' = [related EXCEPT ![rel] = (@ \ Surplus(r, rel)) \cup Missing(r, rel)]
                /\ Rewrites(r, rel)
                /\ meant' = Meant(r)
                /\ Closes(r, "done")
    /\ RelationsAlone

PostJob(r) ==
    /\ MayRun(r, "postJob")
    /\ Closes(r, "done")
    /\ related' = [related EXCEPT !.jobs = @ \cup {r}]
    /\ meant' = [meant EXCEPT !.jobs = @ \cup {r}]
    /\ Rewrites(r, "jobs")
    /\ RelationsAlone

(* Rows that are inserted unless there is one with the same key: a         *)
(* candidate of a job, or the name of a tag.  A handler looks first and    *)
(* inserts later; jobs_recently alone has no unique key.                   *)
Table(k) ==
    CASE k = "createJobWishList" -> "wishes" [] k = "createRecentJob" -> "views" [] k = "createTags" -> "tags"
Keys(k) ==
    IF k = "createTags" THEN (SUBSET Names) \ {{}} ELSE {{p} : p \in Candidates}
Taken(table) ==
    IF table = "views" THEN {v[1] : v \in related.views} ELSE related[table]

IsThere(table, K) == K \cap Taken(table) # {}

(* A view that is there already is no error.                               *)
LookFirst(r, k, found) ==
    /\ MayRun(r, k)
    /\ \E K \in Keys(k) :
          IF IsThere(Table(k), K) THEN Closes(r, found)
          ELSE Starts(r, k, "insert") /\ Asks(r, [Blank EXCEPT !.keys = K])
    /\ UNCHANGED <<related, outrun, torn, meant>> /\ RelationsAlone

CreateJobWishList(r) == LookFirst(r, "createJobWishList", "rejected")
CreateRecentJob(r) == LookFirst(r, "createRecentJob", "done")
CreateTags(r) == LookFirst(r, "createTags", "rejected")

(* The rows of a unique key that meet one fail, all of them.               *)
InsertUnique(r, table) ==
    /\ IF IsThere(table, asked[r].keys)
       THEN Closes(r, "failed") /\ UNCHANGED <<related, meant>>
       ELSE /\ related' = [related EXCEPT ![table] = @ \cup asked[r].keys]
            /\ meant' = [meant EXCEPT ![table] = @ \cup asked[r].keys]
            /\ Closes(r, "done")
    /\ UNCHANGED <<outrun, torn>>

InsertView(r) ==
    /\ related' = [related EXCEPT !.views = @ \cup (asked[r].keys \X {r})]
    /\ meant' = [meant EXCEPT !.views = {v \in @ : v[1] \notin asked[r].keys} \cup (asked[r].keys \X {r})]
    /\ outrun' = outrun \cup {<<x, "views">> : x \in {y \in Requests \ {r} : asked[y].keys = asked[r].keys}}
    /\ torn' = torn \cup (IF <<r, "views">> \in outrun THEN {"views"} ELSE {})
    /\ Closes(r, "done")

InsertRows(r) ==
    /\ pc[r] = "insert"
    /\ IF kind[r] = "createRecentJob" THEN InsertView(r) ELSE InsertUnique(r, Table(kind[r]))
    /\ RelationsAlone

DeleteJobWishList(r) ==
    /\ MayRun(r, "deleteJobWishList")
    /\ \E p \in Candidates :
          /\ related' = [related EXCEPT !.wishes = @ \ {p}]
          /\ meant' = [meant EXCEPT !.wishes = @ \ {p}]
    /\ Closes(r, "done")
    /\ UNCHANGED <<outrun, torn>> /\ RelationsAlone

(* The process ends: what ran side by side is cut short.                   *)
CatalogCrash ==
    /\ asked' = [r \in Requests |-> Blank]
    /\ branches' = [r \in Requests |-> {}]
    /\ mingled' = (mingled \/ Replacing # {})
    /\ UNCHANGED <<catalogTables, moved, loose, crowded, outrun, torn, meant>>

CatalogSteps(r) ==
    \/ CreateCategory(r) \/ ChildrenFind(r) \/ ChildrenSave(r) \/ ChangeFind(r)
    \/ ChangeFindParent(r) \/ ChangeSave(r) \/ RemoveFind(r) \/ RemoveMany(r) \/ RemoveDelete(r)
    \/ ProfileStart(r) \/ ProfileCheck(r) \/ ProfileSave(r)
    \/ WholeLoad(r) \/ WholeSelect(r) \/ WholeUpdate(r)
    \/ ReplaceWebsites(r) \/ DeleteWebsites(r) \/ SaveWebsites(r) \/ BranchFails(r) \/ RemoveWebsite(r)
    \/ AddWishLoad(r) \/ DeleteWishLoad(r) \/ ReviewLoad(r) \/ RelateSelect(r)
    \/ RelateWrite(r) \/ PostJob(r)
    \/ CreateJobWishList(r) \/ CreateRecentJob(r) \/ CreateTags(r) \/ InsertRows(r) \/ DeleteJobWishList(r)

-----------------------------------------------------------------------------
CatalogTypeOK ==
    /\ parent \in [Categories -> Categories \cup {None, Unborn, Removed}]
    /\ profile \in [industry : Choice, majority : Choice]
    /\ websites \subseteq (Requests \cup {Old}) \X Links
    /\ related.favorites \cup related.wishes \subseteq Candidates
    /\ related.jobs \subseteq Requests \cup {Old} /\ related.tags \subseteq Names
    /\ related.views \subseteq Candidates \X Requests
    /\ \A r \in Requests : asked[r].category \in Choice /\ asked[r].parent \in Choice
    /\ \A c \in {profile.industry, profile.majority} \ {None} : Exists(c)

(* The majority of a profile is a child of its industry, as                *)
(* updateCandidateProfile checks, whatever is created, moved and removed   *)
(* around it, and although others save the whole row and bring an old pair *)
(* back: unless the majority was moved after that check, or the row was    *)
(* written between the two statements of a save.                           *)
MajorityFitsIndustry ==
    profile.majority # None => loose \/ parent[profile.majority] = profile.industry

(* Between two replacements the websites are those of one request, of the  *)
(* start or none, although a replacement may delete what it has saved: a   *)
(* mixture takes two that overlapped, or one that failed in part or was    *)
(* cut short by a crash.                                                   *)
WebsitesOfOneRequest ==
    Replacing = {} => mingled \/ \A v, w \in websites : v[1] = w[1]

(* What is related is what the requests that succeeded asked for, although *)
(* a save writes the whole relation and an insert relies on what was read: *)
(* to lose a job or a candidate, or to count a view twice, takes a request *)
(* whose reading was outrun by another write of the relation.              *)
RelationsKept ==
    \A rel \in Relations \ torn : related[rel] = meant[rel]
=============================================================================
