----------------------------- MODULE PortalProofs -----------------------------
(***************************************************************************)
(* Proofs about Portal: where requests are, and the rows of Catalog, for   *)
(* every set of requests, categories and candidates, every choice of       *)
(* handlers and any number of faults.                                      *)
(***************************************************************************)
EXTENDS Portal, FiniteSetTheorems, TLAPS

(* The labels of the handlers of each part.                                *)
CatalogLabels == {"childSave", "changeFindParent", "changeSave", "removeCategory", "profileCheck",
                  "profileSave", "wholeSelect", "wholeUpdate", "replacing", "relate", "relateWrite",
                  "insert"}
CacheLabels == {"running"}
ListingLabels == {"lookup", "fetch", "count", "fill"}
RankingLabels == {"ownTotal", "others"}
Labels == Ended \cup {"new"} \cup CacheLabels \cup CatalogLabels \cup ListingLabels \cup RankingLabels

(* The handler that runs is the one its label belongs to.                  *)
KindFact(label, k) ==
    /\ label \in Ended \cup {"new"} => k = None
    /\ label \in CacheLabels => k \in DOMAIN Program
    /\ label \in {"profileCheck", "profileSave"} => k = "profile"
    /\ label \in {"wholeSelect", "wholeUpdate"} => k = "saveProfile"
    /\ label \in {"relate", "relateWrite"} => k \in {"addWish", "deleteWish", "review"}
    /\ label = "insert" => k \in {"createJobWishList", "createRecentJob", "createTags"}
    /\ label \in ListingLabels => k = "walk"
    /\ label \in RankingLabels => k = "estimateRank"

ControlInv ==
    /\ pc \in [Requests -> Labels] /\ kind = [r \in Requests |-> kind[r]]
    /\ branches \in [Requests -> SUBSET {"delete", "save"}]
    /\ \A r \in Requests :
         /\ KindFact(pc[r], kind[r])
         /\ kind[r] = None \/ kind[r] \in mix[r]
         /\ branches[r] # {} => pc[r] \in Ended \cup {"replacing"}

(* A step of the handlers of one part moves one request, from its start or *)
(* a label of that part to a label of that part or to its end, or none.    *)
Moved(r, labels) ==
    /\ pc[r] \in labels \cup {"new"} /\ pc'[r] \in labels \cup Ended
    /\ pc' = [pc EXCEPT ![r] = pc'[r]] /\ kind' = [kind EXCEPT ![r] = kind'[r]]
    /\ KindFact(pc'[r], kind'[r]) /\ kind'[r] \in mix[r] \cup {None}

StepOf(r, labels) ==
    /\ mix' = mix
    /\ Moved(r, labels) \/ (pc' = pc /\ kind' = kind)

-----------------------------------------------------------------------------
(* Control                                                                 *)

LEMMA StartsMoves ==
  ASSUME ControlInv, NEW r \in Requests, NEW k, NEW l, NEW labels, l \in labels,
         KindFact(l, k), Starts(r, k, l)
  PROVE  StepOf(r, labels)
  BY DEF ControlInv, Starts, MayRun, StepOf, Moved

LEMMA MovesMoves ==
  ASSUME ControlInv, NEW r \in Requests, NEW f, NEW l, NEW labels, f \in labels, l \in labels,
         \A k : KindFact(f, k) => KindFact(l, k), Moves(r, f, l)
  PROVE  StepOf(r, labels)
  BY DEF ControlInv, Moves, StepOf, Moved

LEMMA EndsMoves ==
  ASSUME ControlInv, NEW r \in Requests, NEW labels, pc[r] \in labels \cup {"new"},
         NEW how \in Ended, Ends(r, how)
  PROVE  StepOf(r, labels)
<1>1. KindFact(how, None)
  BY DEF KindFact, Ended, CacheLabels, ListingLabels, RankingLabels
<1> QED
  BY <1>1 DEF ControlInv, Ends, StepOf, Moved

LEMMA BreaksMoves ==
  ASSUME ControlInv, NEW r \in Requests, NEW labels, pc[r] \in labels, Breaks(r)
  PROVE  StepOf(r, labels)
<1>1. KindFact("failed", None)
  BY DEF KindFact, Ended, CacheLabels, ListingLabels, RankingLabels
<1> QED
  BY <1>1 DEF ControlInv, Breaks, StepOf, Moved, Ended


LEMMA CacheControl ==
  ASSUME ControlInv, NEW r \in Requests, CacheSteps(r)
  PROVE  StepOf(r, CacheLabels)
<1>0. "running" \in CacheLabels /\ {"done", "rejected", "failed"} \subseteq Ended
  BY DEF CacheLabels, Ended
<1>1. ASSUME NEW k \in DOMAIN Program, Starts(r, k, "running") PROVE StepOf(r, CacheLabels)
  <2>1. KindFact("running", k)
    BY DEF KindFact, Ended, CacheLabels, ListingLabels, RankingLabels
  <2> QED
    BY <1>0, <1>1, <2>1, StartsMoves
<1>2. ASSUME pc[r] = "running", NEW how \in {"done", "rejected"}, Ends(r, how) PROVE StepOf(r, CacheLabels)
  BY <1>0, <1>2, EndsMoves
<1>3. ASSUME Stays PROVE StepOf(r, CacheLabels)
  BY <1>3 DEF Stays, handlers, StepOf
<1>4. ASSUME pc[r] = "running", Advances(r) PROVE StepOf(r, CacheLabels)
  BY <1>2, <1>3, <1>4 DEF Advances, Answers
<1>5. CASE Begin(r)
  BY <1>1, <1>5 DEF Begin
<1>6. CASE GetCached(r) \/ TurnedAway(r)
  BY <1>2, <1>4, <1>6 DEF GetCached, TurnedAway, Leaves, Answers, At
<1>7. CASE Reads(r) \/ Writes(r) \/ Fills(r) \/ Claims(r) \/ Drops(r) \/ SweepStarts(r) \/ Awaits(r)
  BY <1>4, <1>7 DEF Reads, Writes, Fills, Claims, Drops, SweepStarts, Awaits, At
<1>8. CASE RereadFails(r)
  BY <1>8 DEF RereadFails, StepOf
<1>9. CASE SweepScan(r) \/ SweepDelete(r)
  BY <1>3, <1>9 DEF SweepScan, SweepDelete, Stays
<1>10. CASE HandlerFails(r)
  BY <1>0, <1>10, BreaksMoves DEF HandlerFails
<1> QED
  BY <1>5, <1>6, <1>7, <1>8, <1>9, <1>10 DEF CacheSteps

LEMMA ListingControl ==
  ASSUME ControlInv, NEW r \in Requests, ListingSteps(r)
  PROVE  StepOf(r, ListingLabels)
<1>0. /\ FirstStep \in ListingLabels /\ {"lookup", "fetch", "count", "fill"} \subseteq ListingLabels
      /\ "done" \in Ended
      /\ \A l \in ListingLabels : \A k : KindFact(l, k) <=> k = "walk"
  BY DEF KindFact, CacheLabels, ListingLabels, RankingLabels, Ended, FirstStep
<1>1. ASSUME NEW f \in ListingLabels, NEW l \in ListingLabels, Moves(r, f, l)
      PROVE  StepOf(r, ListingLabels)
  BY <1>0, <1>1, MovesMoves
<1>2. ASSUME pc[r] \in ListingLabels \cup {"new"}, Ends(r, "done")
      PROVE  StepOf(r, ListingLabels)
  BY <1>0, <1>2, EndsMoves
<1>3. ASSUME NEW w, pc[r] \in ListingLabels, Turns(r, w) PROVE StepOf(r, ListingLabels)
  BY <1>0, <1>1, <1>2, <1>3 DEF Turns
<1>4. CASE WalkStart(r)
  BY <1>0, <1>4, StartsMoves DEF WalkStart
<1>5. CASE WalkCached(r) \/ WalkMiss(r)
  <2>1. CASE WalkCached(r)
    BY <1>0, <1>3, <2>1 DEF WalkCached
  <2>2. CASE WalkMiss(r)
    BY <1>0, <1>1, <2>2 DEF WalkMiss
  <2> QED
    BY <1>5, <2>1, <2>2
<1>6. CASE WalkFetch(r) \/ WalkCount(r) \/ WalkFill(r)
  BY <1>0, <1>1, <1>3, <1>6 DEF WalkFetch, WalkCount, WalkFill
<1>7. CASE AddRows(r) \/ RemoveRows(r) \/ MoveRows(r) \/ ClearList(r)
  BY <1>2, <1>7 DEF AddRows, RemoveRows, MoveRows, ClearList, MayRun
<1> QED
  BY <1>4, <1>5, <1>6, <1>7 DEF ListingSteps

LEMMA RankingControl ==
  ASSUME ControlInv, NEW r \in Requests, RankingSteps(r)
  PROVE  StepOf(r, RankingLabels)
<1>0. /\ {"ownTotal", "others"} \subseteq RankingLabels /\ {"done", "failed"} \subseteq Ended
      /\ \A l \in RankingLabels : \A k : KindFact(l, k) <=> k = "estimateRank"
  BY DEF KindFact, CacheLabels, ListingLabels, RankingLabels, Ended
<1>1. CASE EstimateLoad(r)
  BY <1>0, <1>1, StartsMoves DEF EstimateLoad
<1>2. CASE EstimateOwn(r)
  BY <1>0, <1>2, MovesMoves DEF EstimateOwn
<1>3. CASE EstimateAnswer(r)
  BY <1>0, <1>3, EndsMoves DEF EstimateAnswer
<1>4. CASE BoostOfJob(r) \/ BoostEnds(r) \/ Recategorise(r)
  BY <1>0, <1>4, EndsMoves DEF BoostOfJob, BoostEnds, Recategorise, MayRun
<1> QED
  BY <1>1, <1>2, <1>3, <1>4 DEF RankingSteps

LEMMA CatalogLabelFacts ==
  /\ CatalogLabels \cap (Ended \cup {"new"}) = {} /\ {"done", "rejected", "failed", "dead"} = Ended
  /\ \A l \in {"childSave", "changeFindParent", "changeSave", "removeCategory", "replacing"} :
       \A k : KindFact(l, k)
  /\ \A l \in {"profileCheck", "profileSave"} : \A k : KindFact(l, k) <=> k = "profile"
  /\ \A l \in {"wholeSelect", "wholeUpdate"} : \A k : KindFact(l, k) <=> k = "saveProfile"
  /\ \A l \in {"relate", "relateWrite"} :
       \A k : KindFact(l, k) <=> k \in {"addWish", "deleteWish", "review"}
  /\ \A k : KindFact("insert", k) <=> k \in {"createJobWishList", "createRecentJob", "createTags"}
  BY DEF CatalogLabels, KindFact, CacheLabels, ListingLabels, RankingLabels, Ended

(* The branches of a replacement are open only while it runs, or after it  *)
(* was rejected by one of them.                                            *)
BranchFact(r, label, opened) ==
    opened \subseteq {"delete", "save"} /\ (opened # {} => label \in Ended \cup {"replacing"})

LEMMA CatalogControl ==
  ASSUME ControlInv, NEW r \in Requests, CatalogSteps(r)
  PROVE  StepOf(r, CatalogLabels)
<1> USE CatalogLabelFacts
<1>1. ASSUME NEW k, NEW l \in CatalogLabels, KindFact(l, k), Starts(r, k, l) PROVE StepOf(r, CatalogLabels)
  BY <1>1, StartsMoves
<1>2. ASSUME NEW f \in CatalogLabels, NEW l \in CatalogLabels,
             \A k : KindFact(f, k) => KindFact(l, k), Moves(r, f, l)
      PROVE  StepOf(r, CatalogLabels)
  BY <1>2, MovesMoves
<1>3. ASSUME pc[r] \in CatalogLabels \cup {"new"}, NEW how \in Ended, Ends(r, how)
      PROVE  StepOf(r, CatalogLabels)
  BY <1>3, EndsMoves
<1>4. ASSUME Stays PROVE StepOf(r, CatalogLabels)
  BY <1>4 DEF Stays, handlers, StepOf
<1>5. \A l \in {"childSave", "changeFindParent", "changeSave", "removeCategory", "profileCheck",
                "profileSave", "wholeSelect", "wholeUpdate", "replacing", "relate", "relateWrite",
                "insert"} : l \in CatalogLabels
  BY DEF CatalogLabels
<1>6. CASE CreateCategory(r) \/ ChildrenSave(r) \/ ChangeSave(r) \/ RemoveDelete(r) \/ ProfileSave(r)
             \/ WholeUpdate(r) \/ RemoveWebsite(r) \/ PostJob(r) \/ RelateWrite(r)
             \/ DeleteJobWishList(r)
  BY <1>3, <1>5, <1>6
     DEF CreateCategory, ChildrenSave, ChangeSave, RemoveDelete, ProfileSave, WholeUpdate, RemoveWebsite,
         PostJob, RelateWrite, DeleteJobWishList, Closes, MayRun
<1>7. CASE ChildrenFind(r) \/ ChangeFind(r) \/ RemoveFind(r) \/ RemoveMany(r) \/ ReplaceWebsites(r)
             \/ ReviewLoad(r)
  BY <1>1, <1>3, <1>5, <1>7
     DEF ChildrenFind, ChangeFind, RemoveFind, RemoveMany, ReplaceWebsites, ReviewLoad, Closes, MayRun
<1>8. CASE ProfileStart(r) \/ WholeLoad(r)
  BY <1>1, <1>5, <1>8 DEF ProfileStart, WholeLoad
<1>9. CASE ChangeFindParent(r) \/ ProfileCheck(r) \/ RelateSelect(r) \/ WholeSelect(r)
  BY <1>2, <1>3, <1>5, <1>9 DEF ChangeFindParent, ProfileCheck, RelateSelect, WholeSelect, Closes
<1>10. ASSUME NEW b \in branches[r], BranchEnds(r, b) PROVE StepOf(r, CatalogLabels)
  BY <1>3, <1>4, <1>5, <1>10 DEF BranchEnds, ControlInv, Live
<1>11. CASE DeleteWebsites(r) \/ SaveWebsites(r)
  BY <1>10, <1>11 DEF DeleteWebsites, SaveWebsites, BranchEnds, BranchIsOver
<1>12. CASE BranchFails(r)
  <2>1. pc[r] = "replacing" /\ Breaks(r)
    BY <1>12 DEF BranchFails, Breaks, Live, ControlInv, BranchIsOver
  <2> QED
    BY <1>5, <2>1, BreaksMoves
<1>13. CASE AddWishLoad(r) \/ DeleteWishLoad(r)
  BY <1>1, <1>3, <1>5, <1>13 DEF AddWishLoad, DeleteWishLoad, WishLoad, Closes, MayRun
<1>14. CASE CreateJobWishList(r) \/ CreateRecentJob(r) \/ CreateTags(r)
  BY <1>1, <1>3, <1>5, <1>14 DEF CreateJobWishList, CreateRecentJob, CreateTags, LookFirst, Closes, MayRun
<1>15. CASE InsertRows(r)
  BY <1>3, <1>5, <1>15 DEF InsertRows, InsertView, InsertUnique, Closes
<1> QED
  BY <1>6, <1>7, <1>8, <1>9, <1>11, <1>12, <1>13, <1>14, <1>15 DEF CatalogSteps

(* The steps by the rows they are about.                                   *)
CategoryStep(r) ==
    \/ CreateCategory(r) \/ ChildrenFind(r) \/ ChildrenSave(r) \/ ChangeFind(r)
    \/ ChangeFindParent(r) \/ ChangeSave(r) \/ RemoveFind(r) \/ RemoveMany(r) \/ RemoveDelete(r)
    \/ ProfileStart(r) \/ ProfileCheck(r) \/ ProfileSave(r)
    \/ WholeLoad(r) \/ WholeSelect(r) \/ WholeUpdate(r)

RelationStep(r) ==
    \/ AddWishLoad(r) \/ DeleteWishLoad(r) \/ ReviewLoad(r) \/ RelateSelect(r)
    \/ RelateWrite(r) \/ PostJob(r)
    \/ CreateJobWishList(r) \/ CreateRecentJob(r) \/ CreateTags(r) \/ InsertRows(r) \/ DeleteJobWishList(r)

(* The branches are those of the request that steps.                       *)
LEMMA CatalogBranches ==
  ASSUME ControlInv, NEW r \in Requests, CatalogSteps(r)
  PROVE  /\ branches' = [branches EXCEPT ![r] = branches'[r]]
         /\ BranchFact(r, pc'[r], branches'[r])
<1> USE CatalogLabelFacts
<1>1. CASE ReplaceWebsites(r)
  BY <1>1 DEF ReplaceWebsites, Starts, ControlInv, BranchFact
<1>2. CASE DeleteWebsites(r) \/ SaveWebsites(r)
  BY <1>2 DEF DeleteWebsites, SaveWebsites, BranchEnds, BranchIsOver, Ends, Stays, handlers, ControlInv,
              BranchFact, Ended
<1>3. CASE BranchFails(r)
  BY <1>3 DEF BranchFails, BranchIsOver, Breaks, ControlInv, BranchFact, Ended
<1>4. ASSUME branches' = branches, pc[r] \notin Ended \cup {"replacing"}
      PROVE  /\ branches' = [branches EXCEPT ![r] = branches'[r]]
             /\ BranchFact(r, pc'[r], branches'[r])
  BY <1>4 DEF ControlInv, BranchFact
<1>5. CASE CategoryStep(r) \/ RelationStep(r) \/ RemoveWebsite(r)
  <2>1. branches' = branches /\ pc[r] \notin Ended \cup {"replacing"}
    BY <1>5 DEF CategoryStep, RelationStep, CreateCategory, ChildrenFind, ChildrenSave, ChangeFind,
                ChangeFindParent, ChangeSave, RemoveFind, RemoveMany, RemoveDelete, ProfileStart,
                ProfileCheck, ProfileSave, WholeLoad, WholeSelect, WholeUpdate, RemoveWebsite,
                AddWishLoad, DeleteWishLoad, WishLoad,
                ReviewLoad, RelateSelect, RelateWrite, PostJob, CreateJobWishList, CreateRecentJob,
                CreateTags, LookFirst, InsertRows, DeleteJobWishList, NothingElse, RelationsAlone,
                MayRun, Starts, Moves
  <2> QED
    BY <1>4, <2>1
<1> QED
  BY <1>1, <1>2, <1>3, <1>5 DEF CatalogSteps, CategoryStep, RelationStep

LEMMA ControlInit == Init => ControlInv
<1> SUFFICES ASSUME Init PROVE ControlInv
  OBVIOUS
<1>1. KindFact("new", None) /\ "new" \in Labels
  BY DEF KindFact, Labels, Ended, CacheLabels, ListingLabels, RankingLabels
<1> QED
  BY <1>1 DEF Init, HandlersInit, CatalogInit, ControlInv

(* What the steps of a part leave alone.                                   *)
LEMMA LabelsApart ==
  /\ \A S \in {CacheLabels, CatalogLabels, ListingLabels, RankingLabels} :
       S \subseteq Labels /\ S \cap (Ended \cup {"new"}) = {}
  /\ \A S \in {CacheLabels, ListingLabels, RankingLabels} : S \cap CatalogLabels = {}
  /\ "replacing" \in CatalogLabels /\ Ended \subseteq Labels /\ "new" \notin Ended
  BY DEF CacheLabels, CatalogLabels, ListingLabels, RankingLabels, Labels, Ended

LEMMA StepControl ==
  ASSUME ControlInv, NEW r \in Requests, NEW labels \in SUBSET Labels, StepOf(r, labels),
         branches' = [branches EXCEPT ![r] = branches'[r]],
         BranchFact(r, pc'[r], branches'[r])
  PROVE  ControlInv'
<1>0. Ended \subseteq Labels
  BY DEF Labels
<1>1. CASE Moved(r, labels)
  <2>1. /\ pc' \in [Requests -> Labels] /\ kind' = [x \in Requests |-> kind'[x]]
        /\ branches' \in [Requests -> SUBSET {"delete", "save"}]
    BY <1>0, <1>1 DEF ControlInv, Moved, BranchFact
  <2>2. ASSUME NEW x \in Requests
        PROVE  /\ KindFact(pc'[x], kind'[x])
               /\ kind'[x] = None \/ kind'[x] \in mix[x]
               /\ branches'[x] # {} => pc'[x] \in Ended \cup {"replacing"}
    BY <1>1 DEF ControlInv, Moved, BranchFact
  <2> QED
    BY <2>1, <2>2 DEF ControlInv, StepOf
<1>2. CASE pc' = pc /\ kind' = kind
  BY <1>2 DEF ControlInv, BranchFact, StepOf
<1> QED
  BY <1>1, <1>2 DEF StepOf

LEMMA OtherControl ==
  ASSUME ControlInv, NEW r \in Requests, branches' = branches,
         NEW S \in {CacheLabels, ListingLabels, RankingLabels}, StepOf(r, S)
  PROVE  /\ ControlInv'
         /\ \A x \in Requests : pc[x] \in CatalogLabels \/ pc'[x] \in CatalogLabels
              => pc'[x] = pc[x] /\ kind'[x] = kind[x]
         /\ \A x \in Requests : pc'[x] = "new" => pc[x] = "new"
<1>0. /\ S \subseteq Labels /\ S \cap (Ended \cup {"new"}) = {} /\ S \cap CatalogLabels = {}
      /\ "replacing" \notin S
      /\ CatalogLabels \cap (Ended \cup {"new"}) = {} /\ "new" \notin Ended
  BY LabelsApart
<1>1. branches' = [branches EXCEPT ![r] = branches'[r]]
  BY DEF ControlInv
<1>2. BranchFact(r, pc'[r], branches'[r])
  BY <1>0 DEF ControlInv, BranchFact, StepOf, Moved
<1>3. ControlInv'
  BY <1>0, <1>1, <1>2, StepControl
<1>4. CASE Moved(r, S)
  BY <1>0, <1>3, <1>4 DEF Moved, ControlInv
<1> QED
  BY <1>0, <1>3, <1>4 DEF StepOf

LEMMA CrashControl == ControlInv /\ Crash => ControlInv'
<1> SUFFICES ASSUME ControlInv, Crash PROVE ControlInv'
  OBVIOUS
<1>1. /\ \A l \in Ended : KindFact(l, None)
      /\ Ended \subseteq Labels /\ "dead" \in Ended /\ "new" \notin Ended /\ KindFact("new", None)
  BY DEF KindFact, Ended, Labels, CacheLabels, ListingLabels, RankingLabels
<1>2. /\ pc' = [r \in Requests |-> IF Live(r) THEN "dead" ELSE pc[r]]
      /\ kind' = [r \in Requests |-> None] /\ mix' = mix /\ branches' = [r \in Requests |-> {}]
  BY DEF Crash, Crashes, CatalogCrash
<1>3. pc' \in [Requests -> Labels]
  BY <1>1, <1>2 DEF ControlInv
<1>4. \A r \in Requests : KindFact(pc'[r], kind'[r])
  BY <1>1, <1>2 DEF Live
<1> QED
  BY <1>2, <1>3, <1>4 DEF ControlInv

(* Next by the parts it changes.                                           *)
OtherStep(r) ==
    /\ \/ StepOf(r, CacheLabels) /\ UNCHANGED <<listingVars, rankingVars>>
       \/ ListingSteps(r) /\ UNCHANGED <<cacheVars, rankingVars>>
       \/ RankingSteps(r) /\ UNCHANGED <<cacheVars, listingVars>>
    /\ UNCHANGED catalogVars

LEMMA NextCases ==
  ASSUME ControlInv, [Next]_vars
  PROVE  \/ \E r \in Requests : OtherStep(r)
         \/ \E r \in Requests : CatalogSteps(r) /\ UNCHANGED <<cacheVars, listingVars, rankingVars>>
         \/ Crash
         \/ UNCHANGED vars
         \/ UNCHANGED <<handlers, catalogVars, listingVars, rankingVars>>
<1>1. ASSUME NEW r \in Requests, CacheSteps(r), UNCHANGED <<catalogVars, listingVars, rankingVars>>
      PROVE  OtherStep(r)
  BY <1>1, CacheControl DEF OtherStep
<1>2. ASSUME NEW e \in Entries, Expire(e), UNCHANGED <<catalogVars, listingVars, rankingVars>>
      PROVE  UNCHANGED <<handlers, catalogVars, listingVars, rankingVars>>
  BY <1>2 DEF Expire
<1> QED
  BY <1>1, <1>2 DEF Next, OtherStep

LEMMA OtherStepControl ==
  ASSUME ControlInv, NEW r \in Requests, OtherStep(r)
  PROVE  /\ ControlInv'
         /\ \A x \in Requests : pc[x] \in CatalogLabels \/ pc'[x] \in CatalogLabels
              => pc'[x] = pc[x] /\ kind'[x] = kind[x]
         /\ \A x \in Requests : pc'[x] = "new" => pc[x] = "new"
<1>1. \E S \in {CacheLabels, ListingLabels, RankingLabels} : StepOf(r, S)
  BY ListingControl, RankingControl DEF OtherStep
<1>2. branches' = branches
  BY DEF OtherStep, catalogVars
<1> QED
  BY <1>1, <1>2, OtherControl

LEMMA ControlStep == ControlInv /\ [Next]_vars => ControlInv'
<1> SUFFICES ASSUME ControlInv, [Next]_vars PROVE ControlInv'
  OBVIOUS
<1>1. ASSUME NEW r \in Requests, CatalogSteps(r) PROVE ControlInv'
  BY <1>1, CatalogControl, CatalogBranches, StepControl, LabelsApart
<1>2. CASE UNCHANGED vars \/ UNCHANGED <<handlers, catalogVars, listingVars, rankingVars>>
  BY <1>2 DEF vars, handlers, catalogVars, ControlInv
<1> QED
  BY <1>1, <1>2, OtherStepControl, CrashControl, NextCases

LEMMA ControlInvariant == Spec => []ControlInv
  BY ControlInit, ControlStep, PTL DEF Spec

-----------------------------------------------------------------------------
(* Catalog: the shape of what is stored and held                           *)

Loaded == [favorites : SUBSET Candidates, jobs : SUBSET (Requests \cup {Old})]
RelatedRecord == [favorites : SUBSET Candidates, jobs : SUBSET (Requests \cup {Old}),
                  wishes : SUBSET Candidates, views : SUBSET (Candidates \X Requests),
                  tags : SUBSET Names]
ProfileRecord == [industry : Choice, majority : Choice]
AskedRecord == [category : Choice, parent : Choice, doomed : SUBSET Categories,
                candidate : Candidates \cup {None}, keys : SUBSET (Candidates \cup Names),
                mine : Loaded, found : Loaded \cup RelatedRecord, row : ProfileRecord]

(* What a handler that passed its first statement holds.                   *)
AskedFact(r) ==
    /\ pc[r] \in {"changeFindParent", "changeSave"} => asked[r].category \in Categories
    /\ pc[r] \in {"relate", "relateWrite"} /\ kind[r] # "review" => asked[r].candidate \in Candidates
    /\ pc[r] = "insert" => asked[r].keys \in Keys(kind[r])

(* The categories a profile names exist: a foreign key holds them.         *)
Referenced == \A c \in {profile.industry, profile.majority} \ {None} : Exists(c)

RowsShape ==
    /\ parent \in [Categories -> Categories \cup {None, Unborn, Removed}]
    /\ profile \in [industry : Choice, majority : Choice]
    /\ websites \subseteq (Requests \cup {Old}) \X Links
    /\ moved \in [Requests -> SUBSET Categories]
    /\ Referenced

RelatedShape ==
    /\ related \in RelatedRecord /\ meant \in RelatedRecord
    /\ asked \in [Requests -> AskedRecord]
    /\ \A r \in Requests : AskedFact(r)

CatalogInv == ControlInv /\ RowsShape /\ RelatedShape

LEMMA BlankType == Blank \in AskedRecord
  BY DEF Blank, AskedRecord, Choice, Loaded, ProfileRecord

(* Updates of one field of what is held.                                   *)
LEMMA AskedTypes ==
  ASSUME NEW c \in Choice, NEW p \in Choice, NEW D \in SUBSET Categories
  PROVE  /\ [Blank EXCEPT !.parent = p] \in AskedRecord
         /\ [Blank EXCEPT !.category = c, !.parent = p] \in AskedRecord
         /\ [Blank EXCEPT !.parent = p, !.category = c] \in AskedRecord
         /\ [Blank EXCEPT !.doomed = D] \in AskedRecord
         /\ [Blank EXCEPT !.parent = p].parent = p
         /\ [Blank EXCEPT !.parent = p, !.category = c].parent = p
         /\ [Blank EXCEPT !.parent = p, !.category = c].category = c
         /\ [Blank EXCEPT !.category = c, !.parent = p].parent = p
         /\ [Blank EXCEPT !.category = c, !.parent = p].category = c
         /\ [Blank EXCEPT !.doomed = D].doomed = D
  BY DEF Blank, AskedRecord, Choice, Loaded, ProfileRecord

LEMMA WholeTypes ==
  ASSUME NEW a \in AskedRecord, NEW p \in ProfileRecord
  PROVE  /\ [a EXCEPT !.row = p] \in AskedRecord /\ [a EXCEPT !.row = p].row = p
         /\ [a EXCEPT !.row = p].category = a.category /\ [a EXCEPT !.row = p].parent = a.parent
  BY DEF AskedRecord

LEMMA ShapeInit == Init => RowsShape /\ RelatedShape
<1> SUFFICES ASSUME Init PROVE RowsShape /\ RelatedShape
  OBVIOUS
<1>1. RowsShape
  BY CatalogAssumption DEF Init, CatalogInit, RowsShape, Referenced, Exists, Choice
<1>2. RelatedShape
  BY BlankType DEF Init, CatalogInit, HandlersInit, RelatedShape, RelatedRecord, AskedFact
<1> QED
  BY <1>1, <1>2

LEMMA ReferencedKept ==
  ASSUME RowsShape, profile' = profile,
         \A x \in Categories \cap {profile.industry, profile.majority} :
           Exists(x) => parent'[x] \notin {Unborn, Removed}
  PROVE  Referenced'
  BY DEF RowsShape, Referenced, Exists, Choice

LEMMA ParentedType ==
  ASSUME RowsShape, NEW c \in Categories, NEW p \in Choice, Parented(c, p), profile' = profile
  PROVE  /\ parent' \in [Categories -> Categories \cup {None, Unborn, Removed}]
         /\ \A x \in Categories : Exists(x) => parent'[x] \notin {Unborn, Removed}
         /\ Referenced'
<1>1. /\ parent' \in [Categories -> Categories \cup {None, Unborn, Removed}]
      /\ \A x \in Categories : Exists(x) => parent'[x] \notin {Unborn, Removed}
  BY CatalogAssumption DEF Parented, RowsShape, Choice, Exists
<1> QED
  BY <1>1, ReferencedKept

LEMMA FamilyType == ASSUME NEW C PROVE Family(C) \subseteq Categories
  BY DEF Family

LEMMA CategoryRows ==
  ASSUME CatalogInv, NEW r \in Requests, CategoryStep(r)
  PROVE  RowsShape'
<1> USE DEF CatalogInv
<1> DEFINE Kept == parent' = parent /\ profile' = profile /\ websites' = websites
<1>1. ASSUME Kept, moved' \in [Requests -> SUBSET Categories] PROVE RowsShape'
  BY <1>1 DEF RowsShape, Referenced, Exists
<1>2. ASSUME profile' = profile, websites' = websites, moved' \in [Requests -> SUBSET Categories],
             NEW c \in Categories, NEW p \in Choice, Parented(c, p)
      PROVE  RowsShape'
  BY <1>2, ParentedType DEF RowsShape
<1>3. asked[r] \in AskedRecord /\ AskedFact(r)
  BY DEF RelatedShape
<1>4. asked[r].parent \in Choice /\ asked[r].category \in Choice
  BY <1>3 DEF AskedRecord
<1>5. CASE CreateCategory(r)
  <2>1. profile' = profile /\ websites' = websites /\ moved' = moved
    BY <1>5 DEF CreateCategory, NothingElse
  <2> QED
    BY <1>1, <1>2, <1>5, <2>1 DEF CreateCategory, RowsShape
<1>6. CASE ChildrenSave(r)
  <2>1. profile' = profile /\ websites' = websites /\ moved' = moved
    BY <1>6 DEF ChildrenSave, NothingElse
  <2> QED
    BY <1>1, <1>2, <1>4, <1>6, <2>1 DEF ChildrenSave, RowsShape
<1>7. CASE ChangeSave(r)
  <2>1. profile' = profile /\ websites' = websites /\ asked[r].category \in Categories
    BY <1>3, <1>7 DEF ChangeSave, NothingElse, AskedFact
  <2>2. ASSUME Relocates(asked[r].category) PROVE moved' \in [Requests -> SUBSET Categories]
    BY <2>1, <2>2 DEF Relocates, RowsShape
  <2> QED
    BY <1>1, <1>2, <1>4, <1>7, <2>1, <2>2 DEF ChangeSave, RowsShape
<1>8. CASE RemoveDelete(r)
  <2> DEFINE C == Family({c \in asked[r].doomed : Exists(c)})
  <2> HIDE DEF C
  <2>1. profile' = profile /\ websites' = websites /\ moved' = moved
    BY <1>8 DEF RemoveDelete, NothingElse
  <2>2. parent' = parent \/
        /\ ~InUse(C) /\ parent' = [c \in Categories |-> IF c \in C THEN Removed ELSE parent[c]]
    BY <1>8 DEF RemoveDelete, C
  <2>3. ASSUME ~InUse(C), parent' = [c \in Categories |-> IF c \in C THEN Removed ELSE parent[c]]
        PROVE  RowsShape'
    <3>1. Referenced'
      BY <2>1, <2>3, ReferencedKept DEF InUse, Exists
    <3> QED
      BY <2>1, <2>3, <3>1 DEF RowsShape
  <2> QED
    BY <1>1, <2>1, <2>2, <2>3 DEF RowsShape
<1>9. CASE ProfileSave(r)
  <2>1. parent' = parent /\ websites' = websites /\ moved' \in [Requests -> SUBSET Categories]
    BY <1>9 DEF ProfileSave, RowsShape
  <2>2. CASE profile' = profile
    BY <1>1, <2>1, <2>2
  <2>3. CASE /\ \A c \in {asked[r].parent, asked[r].category} \ {None} : Exists(c)
             /\ profile' = [industry |-> asked[r].parent, majority |-> asked[r].category]
    BY <1>4, <2>1, <2>3 DEF RowsShape, Referenced, Exists
  <2> QED
    BY <1>9, <2>2, <2>3 DEF ProfileSave
<1>10. CASE ProfileStart(r) \/ ProfileCheck(r) \/ WholeLoad(r) \/ WholeSelect(r)
  <2>1. Kept /\ moved' \in [Requests -> SUBSET Categories]
    BY <1>10 DEF ProfileStart, ProfileCheck, WholeLoad, WholeSelect, NothingElse, RowsShape, Choice
  <2> QED
    BY <1>1, <2>1
<1>11. CASE ChildrenFind(r) \/ ChangeFind(r) \/ ChangeFindParent(r) \/ RemoveFind(r) \/ RemoveMany(r)
  <2>1. Kept /\ moved' = moved
    BY <1>11 DEF ChildrenFind, ChangeFind, ChangeFindParent, RemoveFind, RemoveMany, NothingElse
  <2> QED
    BY <1>1, <2>1 DEF RowsShape
<1>12. CASE WholeUpdate(r)
  <2>1. parent' = parent /\ websites' = websites /\ moved' \in [Requests -> SUBSET Categories]
    BY <1>12 DEF WholeUpdate, RowsShape
  <2>2. CASE profile' = profile
    BY <1>1, <2>1, <2>2
  <2>3. ASSUME NEW C \in SUBSET DOMAIN profile,
               \A c \in C : Held(r)[c] = None \/ Exists(Held(r)[c]),
               profile' = [c \in DOMAIN profile |-> IF c \in C THEN Held(r)[c] ELSE profile[c]]
        PROVE  RowsShape'
    <3>1. /\ profile' = [industry |-> IF "industry" \in C THEN asked[r].parent ELSE profile.industry,
                         majority |-> IF "majority" \in C THEN asked[r].category ELSE profile.majority]
          /\ "industry" \in C => asked[r].parent = None \/ Exists(asked[r].parent)
          /\ "majority" \in C => asked[r].category = None \/ Exists(asked[r].category)
      BY <2>3 DEF RowsShape, Held
    <3>2. /\ profile'.industry \in Choice /\ profile'.majority \in Choice
          /\ profile' \in ProfileRecord
      BY <1>4, <3>1 DEF RowsShape, ProfileRecord
    <3>3. /\ profile'.industry = None \/ Exists(profile'.industry)
          /\ profile'.majority = None \/ Exists(profile'.majority)
      BY <3>1 DEF RowsShape, Referenced
    <3> QED
      BY <2>1, <3>2, <3>3 DEF RowsShape, Referenced, Exists, ProfileRecord
  <2> QED
    BY <1>12, <2>2, <2>3 DEF WholeUpdate
<1> QED
  BY <1>5, <1>6, <1>7, <1>8, <1>9, <1>10, <1>11, <1>12 DEF CategoryStep

(* What happens to the other requests in a step of r.                      *)
LEMMA OthersStay ==
  ASSUME ControlInv, NEW r \in Requests, CatalogSteps(r), NEW x \in Requests, x # r
  PROVE  pc'[x] = pc[x] /\ kind'[x] = kind[x] /\ branches'[x] = branches[x]
<1>1. StepOf(r, CatalogLabels) /\ branches' = [branches EXCEPT ![r] = branches'[r]]
  BY CatalogControl, CatalogBranches
<1> QED
  BY <1>1 DEF StepOf, Moved, ControlInv

LEMMA ClosesAsked ==
  ASSUME CatalogInv, NEW r \in Requests, NEW how \in Ended, Closes(r, how)
  PROVE  asked' = [asked EXCEPT ![r] = asked'[r]] /\ asked'[r] \in AskedRecord /\ AskedFact(r)'
<1>1. asked' = [asked EXCEPT ![r] = asked'[r]] /\ asked'[r] \in AskedRecord /\ pc'[r] = how
  BY BlankType DEF Closes, Asks, Ends, CatalogInv, RelatedShape, ControlInv
<1> QED
  BY <1>1 DEF AskedFact, Ended

LEMMA CategoryAsked ==
  ASSUME CatalogInv, NEW r \in Requests, CategoryStep(r)
  PROVE  asked' = [asked EXCEPT ![r] = asked'[r]] /\ asked'[r] \in AskedRecord /\ AskedFact(r)'
<1> USE CatalogLabelFacts
<1> DEFINE Goal == asked' = [asked EXCEPT ![r] = asked'[r]] /\ asked'[r] \in AskedRecord /\ AskedFact(r)'
<1>0. /\ asked \in [Requests -> AskedRecord] /\ AskedFact(r) /\ ControlInv
      /\ \A c \in Categories : c \in Choice
  BY DEF CatalogInv, RelatedShape, Choice
<1>1. ASSUME NEW how \in Ended, Closes(r, how) PROVE Goal
  BY <1>1, ClosesAsked
<1>2. ASSUME NEW a \in AskedRecord, Asks(r, a), NEW l,
             l \notin {"changeFindParent", "changeSave", "relate", "relateWrite", "insert"} \/
             (l = "changeFindParent" /\ a.category \in Categories),
             pc'[r] = l
      PROVE  Goal
  BY <1>0, <1>2 DEF Asks, AskedFact
<1>3. ASSUME asked' = asked,
             pc'[r] \notin {"changeFindParent", "changeSave", "relate", "relateWrite", "insert"} \/
             (pc'[r] = "changeSave" /\ pc[r] = "changeFindParent")
      PROVE  Goal
  BY <1>0, <1>3 DEF AskedFact
<1>4. ASSUME NEW k, NEW l, Starts(r, k, l) PROVE pc'[r] = l
  BY <1>0, <1>4 DEF Starts, ControlInv
<1>5. ASSUME NEW f, NEW l, Moves(r, f, l) PROVE pc[r] = f /\ pc'[r] = l
  BY <1>0, <1>5 DEF Moves, ControlInv
<1>6. ASSUME NEW how, Ends(r, how) PROVE pc'[r] = how
  BY <1>0, <1>6 DEF Ends, ControlInv
<1>7. CASE CreateCategory(r)
  BY <1>3, <1>6, <1>7 DEF CreateCategory
<1>8. CASE ChildrenSave(r) \/ ChangeSave(r) \/ RemoveDelete(r) \/ ProfileSave(r) \/ WholeUpdate(r)
  BY <1>1, <1>8 DEF ChildrenSave, ChangeSave, RemoveDelete, ProfileSave, WholeUpdate
<1>9. CASE ChildrenFind(r)
  <2>1. ASSUME NEW p \in Categories, Starts(r, "createChildren", "childSave"),
               Asks(r, [Blank EXCEPT !.parent = p])
        PROVE  Goal
    <3>1. [Blank EXCEPT !.parent = p] \in AskedRecord
      BY <1>0, AskedTypes
    <3> QED
      BY <1>2, <1>4, <2>1, <3>1
  <2> QED
    BY <1>1, <1>9, <2>1 DEF ChildrenFind
<1>10. CASE ChangeFind(r)
  <2>1. PICK c \in Categories, p \in Categories :
          /\ Starts(r, "changeParent", "changeFindParent")
          /\ Asks(r, [Blank EXCEPT !.category = c, !.parent = p])
    BY <1>10 DEF ChangeFind
  <2>2. /\ [Blank EXCEPT !.category = c, !.parent = p] \in AskedRecord
        /\ [Blank EXCEPT !.category = c, !.parent = p].category \in Categories
    BY <1>0, AskedTypes
  <2> QED
    BY <1>2, <1>4, <2>1, <2>2
<1>11. CASE RemoveFind(r) \/ RemoveMany(r)
  <2>1. PICK D \in SUBSET Categories, k \in {"removeCategory", "removeMany"} :
          Starts(r, k, "removeCategory") /\ Asks(r, [Blank EXCEPT !.doomed = D])
    BY <1>11 DEF RemoveFind, RemoveMany
  <2>2. [Blank EXCEPT !.doomed = D] \in AskedRecord
    BY AskedTypes DEF Choice
  <2> QED
    BY <1>2, <1>4, <2>1, <2>2
<1>12. CASE ProfileStart(r)
  <2>1. PICK i \in Choice, m \in Choice :
          /\ Starts(r, "profile", IF m = None THEN "profileSave" ELSE "profileCheck")
          /\ Asks(r, [Blank EXCEPT !.parent = i, !.category = m])
    BY <1>12 DEF ProfileStart
  <2>2. [Blank EXCEPT !.parent = i, !.category = m] \in AskedRecord
    BY AskedTypes
  <2> QED
    BY <1>2, <1>4, <2>1, <2>2
<1>13. CASE ChangeFindParent(r) \/ ProfileCheck(r)
  BY <1>1, <1>3, <1>5, <1>13 DEF ChangeFindParent, ProfileCheck
<1>14. CASE WholeLoad(r)
  <2>1. [Blank EXCEPT !.parent = profile.industry, !.category = profile.majority] \in AskedRecord
    BY AskedTypes DEF CatalogInv, RowsShape
  <2> QED
    BY <1>2, <1>4, <1>14, <2>1 DEF WholeLoad
<1>15. CASE WholeSelect(r)
  <2>1. [asked[r] EXCEPT !.row = profile] \in AskedRecord
    BY <1>0, WholeTypes DEF CatalogInv, RowsShape, ProfileRecord
  <2> QED
    BY <1>2, <1>5, <1>15, <2>1 DEF WholeSelect
<1> QED
  BY <1>7, <1>8, <1>9, <1>10, <1>11, <1>12, <1>13, <1>14, <1>15 DEF CategoryStep

(* What a handler of a relation loads, finds and keeps.                    *)
LEMMA WishType ==
  ASSUME NEW p \in Candidates, NEW F \in SUBSET Candidates
  PROVE  /\ [Blank EXCEPT !.candidate = p, !.mine.favorites = F] \in AskedRecord
         /\ [Blank EXCEPT !.candidate = p, !.mine.favorites = F].candidate = p
         /\ [Blank EXCEPT !.candidate = p, !.mine.favorites = F].mine.favorites = F
<1> DEFINE M == [Blank.mine EXCEPT !.favorites = F]
<1>1. M \in Loaded /\ M.favorites = F
  BY DEF Blank, Loaded
<1> HIDE DEF M
<1>2. /\ [Blank EXCEPT !.candidate = p, !.mine = M] \in AskedRecord
      /\ [Blank EXCEPT !.candidate = p, !.mine = M].candidate = p
      /\ [Blank EXCEPT !.candidate = p, !.mine = M].mine = M
  BY <1>1, BlankType DEF AskedRecord
<1>3. [Blank EXCEPT !.candidate = p, !.mine.favorites = F] = [Blank EXCEPT !.candidate = p, !.mine = M]
  BY BlankType DEF M, AskedRecord
<1> QED
  BY <1>1, <1>2, <1>3

LEMMA ReviewType ==
  ASSUME NEW J \in SUBSET (Requests \cup {Old})
  PROVE  [Blank EXCEPT !.mine.jobs = J] \in AskedRecord /\ [Blank EXCEPT !.mine.jobs = J].mine.jobs = J
<1> DEFINE N == [Blank.mine EXCEPT !.jobs = J]
<1>1. N \in Loaded /\ N.jobs = J
  BY DEF Blank, Loaded
<1> HIDE DEF N
<1>2. [Blank EXCEPT !.mine = N] \in AskedRecord /\ [Blank EXCEPT !.mine = N].mine = N
  BY <1>1, BlankType DEF AskedRecord
<1>3. [Blank EXCEPT !.mine.jobs = J] = [Blank EXCEPT !.mine = N]
  BY BlankType DEF N, AskedRecord
<1> QED
  BY <1>1, <1>2, <1>3

LEMMA KeptType ==
  ASSUME NEW K \in SUBSET (Candidates \cup Names)
  PROVE  [Blank EXCEPT !.keys = K] \in AskedRecord /\ [Blank EXCEPT !.keys = K].keys = K
  BY DEF Blank, AskedRecord, Choice, Loaded, ProfileRecord

LEMMA FoundType ==
  ASSUME NEW a \in AskedRecord, NEW R \in RelatedRecord
  PROVE  /\ [a EXCEPT !.found = R] \in AskedRecord
         /\ [a EXCEPT !.found = R].found = R
         /\ [a EXCEPT !.found = R].mine = a.mine
         /\ [a EXCEPT !.found = R].candidate = a.candidate
  BY DEF AskedRecord

LEMMA KeysType ==
  ASSUME NEW k \in {"createJobWishList", "createRecentJob", "createTags"}, NEW K \in Keys(k)
  PROVE  /\ K \in SUBSET (Candidates \cup Names) /\ K # {}
         /\ k = "createTags" => K \subseteq Names
         /\ k # "createTags" => \E p \in Candidates : K = {p}
  BY DEF Keys

(* What the two handlers of the wish list load.                            *)
LEMMA WishLoadFacts ==
  ASSUME CatalogInv, NEW r \in Requests, AddWishLoad(r) \/ DeleteWishLoad(r)
  PROVE  \/ Closes(r, "rejected")
         \/ \E p \in Candidates, F \in SUBSET Candidates :
              /\ \/ kind'[r] = "addWish" /\ p \notin related.favorites /\ F = related.favorites \cup {p}
                 \/ kind'[r] = "deleteWish" /\ p \in related.favorites /\ F = related.favorites \ {p}
              /\ pc'[r] = "relate"
              /\ Asks(r, [Blank EXCEPT !.candidate = p, !.mine.favorites = F])
<1>0. pc \in [Requests -> Labels] /\ kind = [x \in Requests |-> kind[x]]
      /\ related.favorites \in SUBSET Candidates
  BY DEF CatalogInv, ControlInv, RelatedShape, RelatedRecord
<1>1. CASE AddWishLoad(r)
  <2>1. PICK p \in Candidates :
          IF (p \in related.favorites) = FALSE
          THEN /\ Starts(r, "addWish", "relate")
               /\ Asks(r, [Blank EXCEPT !.candidate = p,
                             !.mine.favorites = [q \in Candidates |-> related.favorites \cup {q}][p]])
          ELSE Closes(r, "rejected")
    BY <1>1 DEF AddWishLoad, WishLoad
  <2>2. [q \in Candidates |-> related.favorites \cup {q}][p] = related.favorites \cup {p}
    OBVIOUS
  <2> QED
    BY <1>0, <2>1, <2>2 DEF Starts
<1>2. CASE DeleteWishLoad(r)
  <2>1. PICK p \in Candidates :
          IF (p \in related.favorites) = TRUE
          THEN /\ Starts(r, "deleteWish", "relate")
               /\ Asks(r, [Blank EXCEPT !.candidate = p,
                             !.mine.favorites = [q \in Candidates |-> related.favorites \ {q}][p]])
          ELSE Closes(r, "rejected")
    BY <1>2 DEF DeleteWishLoad, WishLoad
  <2>2. [q \in Candidates |-> related.favorites \ {q}][p] = related.favorites \ {p}
    OBVIOUS
  <2> QED
    BY <1>0, <2>1, <2>2 DEF Starts
<1> QED
  BY <1>1, <1>2

LEMMA LookFirstFacts ==
  ASSUME CatalogInv, NEW r \in Requests,
         CreateJobWishList(r) \/ CreateRecentJob(r) \/ CreateTags(r)
  PROVE  \/ \E how \in Ended : Closes(r, how)
         \/ \E k \in {"createJobWishList", "createRecentJob", "createTags"} : \E K \in Keys(k) :
              /\ kind'[r] = k /\ pc'[r] = "insert" /\ ~IsThere(Table(k), K)
              /\ Asks(r, [Blank EXCEPT !.keys = K])
<1>0. pc \in [Requests -> Labels] /\ kind = [x \in Requests |-> kind[x]]
  BY DEF CatalogInv, ControlInv
<1>1. PICK k \in {"createJobWishList", "createRecentJob", "createTags"} :
        LookFirst(r, k, "rejected") \/ LookFirst(r, k, "done")
  BY DEF CreateJobWishList, CreateRecentJob, CreateTags
<1>2. PICK K \in Keys(k) :
        \/ Closes(r, "rejected") \/ Closes(r, "done")
        \/ ~IsThere(Table(k), K) /\ Starts(r, k, "insert") /\ Asks(r, [Blank EXCEPT !.keys = K])
  BY <1>1 DEF LookFirst
<1> QED
  BY <1>0, <1>2, CatalogLabelFacts DEF Starts

LEMMA RelationAsked ==
  ASSUME CatalogInv, NEW r \in Requests, RelationStep(r)
  PROVE  asked' = [asked EXCEPT ![r] = asked'[r]] /\ asked'[r] \in AskedRecord /\ AskedFact(r)'
<1> USE CatalogLabelFacts
<1> DEFINE Goal == asked' = [asked EXCEPT ![r] = asked'[r]] /\ asked'[r] \in AskedRecord /\ AskedFact(r)'
<1>0. /\ asked \in [Requests -> AskedRecord] /\ AskedFact(r) /\ ControlInv
      /\ related \in RelatedRecord
  BY DEF CatalogInv, RelatedShape
<1>1. ASSUME NEW how \in Ended, Closes(r, how) PROVE Goal
  BY <1>1, ClosesAsked
<1>2. CASE AddWishLoad(r) \/ DeleteWishLoad(r)
  <2>1. ASSUME NEW p \in Candidates, NEW F \in SUBSET Candidates, pc'[r] = "relate",
               Asks(r, [Blank EXCEPT !.candidate = p, !.mine.favorites = F])
        PROVE  Goal
    <3>1. /\ [Blank EXCEPT !.candidate = p, !.mine.favorites = F] \in AskedRecord
          /\ [Blank EXCEPT !.candidate = p, !.mine.favorites = F].candidate = p
      BY <1>0, <2>1, WishType
    <3> QED
      BY <1>0, <2>1, <3>1 DEF Asks, AskedFact
  <2> QED
    BY <1>1, <1>2, <2>1, WishLoadFacts
<1>3. CASE ReviewLoad(r)
  <2>1. /\ pc'[r] = "relate" /\ kind'[r] = "review"
        /\ Asks(r, [Blank EXCEPT !.mine.jobs = related.jobs])
    BY <1>0, <1>3 DEF ReviewLoad, Starts, ControlInv
  <2>2. related.jobs \in SUBSET (Requests \cup {Old})
    BY <1>0 DEF RelatedRecord
  <2>3. [Blank EXCEPT !.mine.jobs = related.jobs] \in AskedRecord
    BY <2>2, ReviewType
  <2> QED
    BY <1>0, <2>1, <2>3 DEF Asks, AskedFact
<1>4. CASE RelateSelect(r)
  <2>1. /\ pc[r] = "relate" /\ pc'[r] = "relateWrite" /\ kind' = kind
        /\ Asks(r, [asked[r] EXCEPT !.found = related])
    BY <1>0, <1>4 DEF RelateSelect, Moves, ControlInv
  <2>2. /\ [asked[r] EXCEPT !.found = related] \in AskedRecord
        /\ [asked[r] EXCEPT !.found = related].candidate = asked[r].candidate
    BY <1>0, FoundType
  <2> QED
    BY <1>0, <2>1, <2>2 DEF Asks, AskedFact
<1>5. CASE RelateWrite(r) \/ PostJob(r) \/ DeleteJobWishList(r)
  BY <1>1, <1>5 DEF RelateWrite, PostJob, DeleteJobWishList
<1>6. CASE InsertRows(r)
  BY <1>1, <1>6 DEF InsertRows, InsertView, InsertUnique
<1>7. CASE CreateJobWishList(r) \/ CreateRecentJob(r) \/ CreateTags(r)
  <2>1. ASSUME NEW k \in {"createJobWishList", "createRecentJob", "createTags"}, NEW K \in Keys(k),
               kind'[r] = k, pc'[r] = "insert", Asks(r, [Blank EXCEPT !.keys = K])
        PROVE  Goal
    <3>1. [Blank EXCEPT !.keys = K] \in AskedRecord /\ [Blank EXCEPT !.keys = K].keys = K
      BY KeysType, KeptType
    <3> QED
      BY <1>0, <2>1, <3>1 DEF Asks, AskedFact
  <2> QED
    BY <1>1, <1>7, <2>1, LookFirstFacts
<1> QED
  BY <1>2, <1>3, <1>4, <1>5, <1>6, <1>7 DEF RelationStep

LEMMA WebsiteRows ==
  ASSUME CatalogInv, NEW r \in Requests,
         ReplaceWebsites(r) \/ DeleteWebsites(r) \/ SaveWebsites(r) \/ BranchFails(r) \/ RemoveWebsite(r)
  PROVE  RowsShape' /\ RelatedShape'
<1>1. UNCHANGED <<parent, profile, related, moved, meant, asked>>
  BY DEF ReplaceWebsites, DeleteWebsites, SaveWebsites, BranchFails, RemoveWebsite, BranchEnds,
         BranchIsOver, OthersAlone
<1>2. websites' \subseteq (Requests \cup {Old}) \X Links
  BY DEF ReplaceWebsites, DeleteWebsites, SaveWebsites, BranchFails, RemoveWebsite, CatalogInv, RowsShape
<1>3. RowsShape'
  BY <1>1, <1>2 DEF CatalogInv, RowsShape, Referenced, Exists
<1>4. pc'[r] \in Ended \cup {"replacing"}
  BY CatalogLabelFacts
     DEF ReplaceWebsites, DeleteWebsites, SaveWebsites, BranchFails, RemoveWebsite, BranchEnds,
         BranchIsOver, Starts, Ends, Breaks, Stays, handlers, CatalogInv, ControlInv
<1>5. CatalogSteps(r)
  BY DEF CatalogSteps
<1>6. ASSUME NEW x \in Requests PROVE AskedFact(x)'
  <2>1. CASE x = r
    BY <1>4, <2>1, CatalogLabelFacts DEF AskedFact, Ended
  <2>2. CASE x # r
    <3>1. pc'[x] = pc[x] /\ kind'[x] = kind[x]
      BY <1>5, <2>2, OthersStay DEF CatalogInv
    <3> QED
      BY <1>1, <3>1 DEF AskedFact, CatalogInv, RelatedShape
  <2> QED
    BY <2>1, <2>2
<1> QED
  BY <1>1, <1>3, <1>6 DEF CatalogInv, RelatedShape

(* The relations, and an update of one of them.                            *)
RelationNames == {"favorites", "jobs", "wishes", "views", "tags"}

LEMMA RelatedFields ==
  ASSUME NEW R \in RelatedRecord
  PROVE  /\ DOMAIN R = RelationNames
         /\ \A g \in RelationNames : \A S : \A f \in RelationNames :
              [R EXCEPT ![g] = S][f] = IF f = g THEN S ELSE R[f]
  BY DEF RelatedRecord, RelationNames

LEMMA RelatedTypes ==
  ASSUME NEW R \in RelatedRecord
  PROVE  /\ \A S \in SUBSET Candidates : [R EXCEPT !["favorites"] = S] \in RelatedRecord
         /\ \A S \in SUBSET (Requests \cup {Old}) : [R EXCEPT !["jobs"] = S] \in RelatedRecord
         /\ \A S \in SUBSET Candidates : [R EXCEPT !["wishes"] = S] \in RelatedRecord
         /\ \A S \in SUBSET (Candidates \X Requests) : [R EXCEPT !["views"] = S] \in RelatedRecord
         /\ \A S \in SUBSET Names : [R EXCEPT !["tags"] = S] \in RelatedRecord
  BY DEF RelatedRecord

LEMMA FieldTypes ==
  ASSUME NEW R \in RelatedRecord
  PROVE  /\ R["favorites"] \in SUBSET Candidates /\ R["jobs"] \in SUBSET (Requests \cup {Old})
         /\ R["wishes"] \in SUBSET Candidates /\ R["views"] \in SUBSET (Candidates \X Requests)
         /\ R["tags"] \in SUBSET Names
  BY DEF RelatedRecord

LEMMA LoadedTypes ==
  ASSUME NEW a \in AskedRecord
  PROVE  /\ a.mine["favorites"] \in SUBSET Candidates /\ a.mine["jobs"] \in SUBSET (Requests \cup {Old})
         /\ a.found["favorites"] \in SUBSET Candidates /\ a.found["jobs"] \in SUBSET (Requests \cup {Old})
  BY DEF AskedRecord, Loaded, RelatedRecord

LEMMA RelateWriteType ==
  ASSUME CatalogInv, NEW r \in Requests, RelateWrite(r)
  PROVE  related' \in RelatedRecord /\ meant' \in RelatedRecord
<1> DEFINE rel == Keeps(r)
<1>0. /\ related \in RelatedRecord /\ meant \in RelatedRecord /\ asked[r] \in AskedRecord /\ AskedFact(r)
      /\ pc[r] = "relateWrite" /\ KindFact(pc[r], kind[r])
  BY DEF CatalogInv, RelatedShape, ControlInv, RelateWrite
<1>1. rel \in {"favorites", "jobs"} /\ kind[r] \in {"addWish", "deleteWish", "review"}
  BY <1>0, CatalogLabelFacts DEF Keeps
<1>2. CASE UNCHANGED <<related, meant>>
  BY <1>0, <1>2
<1>3. CASE /\ related' = [related EXCEPT ![rel] = (@ \ Surplus(r, rel)) \cup Missing(r, rel)]
           /\ meant' = Meant(r)
  <2>1. related' \in RelatedRecord
    <3>1. CASE rel = "favorites"
      <4>1. (related["favorites"] \ Surplus(r, "favorites")) \cup Missing(r, "favorites") \in SUBSET Candidates
        BY <1>0, FieldTypes, LoadedTypes DEF Missing
      <4> QED
        BY <1>0, <1>3, <3>1, <4>1, RelatedTypes
    <3>2. CASE rel = "jobs"
      <4>1. (related["jobs"] \ Surplus(r, "jobs")) \cup Missing(r, "jobs") \in SUBSET (Requests \cup {Old})
        BY <1>0, FieldTypes, LoadedTypes DEF Missing
      <4> QED
        BY <1>0, <1>3, <3>2, <4>1, RelatedTypes
    <3> QED
      BY <1>1, <3>1, <3>2
  <2>2. meant' \in RelatedRecord
    <3>1. meant["favorites"] \cup {asked[r].candidate} \in SUBSET Candidates \/ kind[r] = "review"
      BY <1>0, FieldTypes, CatalogLabelFacts DEF AskedFact
    <3>2. meant["favorites"] \ {asked[r].candidate} \in SUBSET Candidates
      BY <1>0, FieldTypes
    <3> QED
      BY <1>0, <1>1, <1>3, <3>1, <3>2, RelatedTypes DEF Meant
  <2> QED
    BY <2>1, <2>2
<1> QED
  BY <1>2, <1>3 DEF RelateWrite

LEMMA InsertRowsType ==
  ASSUME CatalogInv, NEW r \in Requests, InsertRows(r)
  PROVE  related' \in RelatedRecord /\ meant' \in RelatedRecord
<1>0. /\ related \in RelatedRecord /\ meant \in RelatedRecord /\ asked[r] \in AskedRecord /\ AskedFact(r)
      /\ pc[r] = "insert" /\ KindFact(pc[r], kind[r])
  BY DEF CatalogInv, RelatedShape, ControlInv, InsertRows
<1>1. /\ kind[r] \in {"createJobWishList", "createRecentJob", "createTags"}
      /\ asked[r].keys \in Keys(kind[r])
  BY <1>0, CatalogLabelFacts DEF AskedFact
<1>2. CASE UNCHANGED <<related, meant>>
  BY <1>0, <1>2
<1>3. CASE kind[r] = "createRecentJob"
  <2>1. /\ related' = [related EXCEPT !["views"] = related["views"] \cup (asked[r].keys \X {r})]
        /\ meant' = [meant EXCEPT !["views"] = {v \in meant["views"] : v[1] \notin asked[r].keys} \cup (asked[r].keys \X {r})]
    BY <1>3 DEF InsertRows, InsertView
  <2>2. asked[r].keys \X {r} \in SUBSET (Candidates \X Requests)
    BY <1>1, <1>3, KeysType
  <2>3. /\ related["views"] \cup (asked[r].keys \X {r}) \in SUBSET (Candidates \X Requests)
        /\ {v \in meant["views"] : v[1] \notin asked[r].keys} \cup (asked[r].keys \X {r})
             \in SUBSET (Candidates \X Requests)
    BY <1>0, <2>2, FieldTypes
  <2> QED
    BY <1>0, <2>1, <2>3, RelatedTypes
<1>4. ASSUME NEW t \in {"wishes", "tags"}, NEW T, asked[r].keys \in SUBSET T,
             (t = "wishes" /\ T = Candidates) \/ (t = "tags" /\ T = Names),
             related' = [related EXCEPT ![t] = @ \cup asked[r].keys],
             meant' = [meant EXCEPT ![t] = @ \cup asked[r].keys]
      PROVE  related' \in RelatedRecord /\ meant' \in RelatedRecord
  <2>1. related[t] \cup asked[r].keys \in SUBSET T /\ meant[t] \cup asked[r].keys \in SUBSET T
    BY <1>0, <1>4, FieldTypes
  <2>2. \A R \in RelatedRecord : \A S \in SUBSET T : [R EXCEPT ![t] = S] \in RelatedRecord
    BY <1>4, RelatedTypes
  <2> QED
    BY <1>0, <1>4, <2>1, <2>2
<1>5. CASE kind[r] \in {"createJobWishList", "createTags"}
  <2>1. InsertUnique(r, Table(kind[r]))
    BY <1>5 DEF InsertRows
  <2>2. (Table(kind[r]) = "wishes" /\ asked[r].keys \in SUBSET Candidates)
          \/ (Table(kind[r]) = "tags" /\ asked[r].keys \in SUBSET Names)
    BY <1>1, <1>5, KeysType DEF Table
  <2> QED
    BY <1>2, <1>4, <2>1, <2>2 DEF InsertUnique
<1> QED
  BY <1>1, <1>3, <1>5

(* Where a handler of a relation goes.                                     *)
LEMMA RelationLabels ==
  ASSUME CatalogInv, NEW r \in Requests, RelationStep(r)
  PROVE  pc'[r] \in Ended \cup {"relate", "relateWrite", "insert"}
<1>0. pc \in [Requests -> Labels]
  BY DEF CatalogInv, ControlInv
<1>1. ASSUME NEW how \in Ended, Closes(r, how) PROVE pc'[r] = how
  BY <1>0, <1>1 DEF Closes, Ends
<1>2. CASE AddWishLoad(r) \/ DeleteWishLoad(r)
  BY <1>1, <1>2, WishLoadFacts, CatalogLabelFacts
<1>3. CASE ReviewLoad(r) \/ RelateSelect(r)
  BY <1>0, <1>3 DEF ReviewLoad, RelateSelect, Starts, Moves
<1>4. CASE RelateWrite(r) \/ PostJob(r) \/ DeleteJobWishList(r)
  BY <1>1, <1>4, CatalogLabelFacts DEF RelateWrite, PostJob, DeleteJobWishList
<1>5. CASE InsertRows(r)
  BY <1>1, <1>5, CatalogLabelFacts DEF InsertRows, InsertView, InsertUnique
<1>6. CASE CreateJobWishList(r) \/ CreateRecentJob(r) \/ CreateTags(r)
  BY <1>1, <1>6, LookFirstFacts
<1> QED
  BY <1>2, <1>3, <1>4, <1>5, <1>6 DEF RelationStep

LEMMA RelationShape ==
  ASSUME CatalogInv, NEW r \in Requests, RelationStep(r)
  PROVE  RowsShape' /\ related' \in RelatedRecord /\ meant' \in RelatedRecord
<1>0. related \in RelatedRecord /\ meant \in RelatedRecord
  BY DEF CatalogInv, RelatedShape
<1>1. RelationsAlone
  BY DEF RelationStep, AddWishLoad, DeleteWishLoad, ReviewLoad, RelateSelect, RelateWrite, PostJob,
         CreateJobWishList, CreateRecentJob, CreateTags, LookFirst, InsertRows, DeleteJobWishList
<1>2. RowsShape'
  BY <1>1 DEF RelationsAlone, CatalogInv, RowsShape, Referenced, Exists
<1>3. CASE PostJob(r)
  <2>1. /\ related' = [related EXCEPT !["jobs"] = related["jobs"] \cup {r}]
        /\ meant' = [meant EXCEPT !["jobs"] = meant["jobs"] \cup {r}]
    BY <1>3 DEF PostJob
  <2>2. /\ related["jobs"] \cup {r} \in SUBSET (Requests \cup {Old})
        /\ meant["jobs"] \cup {r} \in SUBSET (Requests \cup {Old})
    BY <1>0, FieldTypes
  <2> QED
    BY <1>0, <1>2, <2>1, <2>2, RelatedTypes
<1>4. CASE DeleteJobWishList(r)
  <2>1. PICK p \in Candidates : /\ related' = [related EXCEPT !["wishes"] = related["wishes"] \ {p}]
                                /\ meant' = [meant EXCEPT !["wishes"] = meant["wishes"] \ {p}]
    BY <1>4 DEF DeleteJobWishList
  <2>2. related["wishes"] \ {p} \in SUBSET Candidates /\ meant["wishes"] \ {p} \in SUBSET Candidates
    BY <1>0, FieldTypes
  <2> QED
    BY <1>0, <1>2, <2>1, <2>2, RelatedTypes
<1>5. CASE RelateWrite(r)
  BY <1>2, <1>5, RelateWriteType
<1>6. CASE InsertRows(r)
  BY <1>2, <1>6, InsertRowsType
<1>7. CASE AddWishLoad(r) \/ DeleteWishLoad(r) \/ ReviewLoad(r) \/ RelateSelect(r)
             \/ CreateJobWishList(r) \/ CreateRecentJob(r) \/ CreateTags(r)
  <2>1. UNCHANGED <<related, meant>>
    BY <1>7 DEF AddWishLoad, DeleteWishLoad, ReviewLoad, RelateSelect, CreateJobWishList,
                CreateRecentJob, CreateTags, LookFirst
  <2> QED
    BY <1>0, <1>2, <2>1
<1> QED
  BY <1>3, <1>4, <1>5, <1>6, <1>7 DEF RelationStep

(* The facts of the other requests are about what r leaves alone.          *)
LEMMA AskedStep ==
  ASSUME CatalogInv, NEW r \in Requests, CatalogSteps(r),
         asked' = [asked EXCEPT ![r] = asked'[r]], asked'[r] \in AskedRecord, AskedFact(r)',
         related' \in RelatedRecord, meant' \in RelatedRecord
  PROVE  RelatedShape'
<1>1. ASSUME NEW x \in Requests, x # r PROVE AskedFact(x)'
  <2>1. pc'[x] = pc[x] /\ kind'[x] = kind[x] /\ asked'[x] = asked[x]
    BY <1>1, OthersStay DEF CatalogInv, RelatedShape
  <2> QED
    BY <2>1 DEF AskedFact, CatalogInv, RelatedShape
<1> QED
  BY <1>1 DEF CatalogInv, RelatedShape

LEMMA CatalogShape ==
  ASSUME CatalogInv, NEW r \in Requests, CatalogSteps(r)
  PROVE  RowsShape' /\ RelatedShape'
<1>1. CASE CategoryStep(r)
  <2>1. related' = related /\ meant' = meant
    BY <1>1 DEF CategoryStep, CreateCategory, ChildrenFind, ChildrenSave, ChangeFind, ChangeFindParent,
                ChangeSave, RemoveFind, RemoveMany, RemoveDelete, ProfileStart, ProfileCheck, ProfileSave,
                WholeLoad, WholeSelect, WholeUpdate, NothingElse
  <2>2. related' \in RelatedRecord /\ meant' \in RelatedRecord
    BY <2>1 DEF CatalogInv, RelatedShape
  <2> QED
    BY <1>1, <2>2, CategoryRows, CategoryAsked, AskedStep
<1>2. CASE RelationStep(r)
  BY <1>2, RelationShape, RelationAsked, AskedStep
<1>3. CASE ReplaceWebsites(r) \/ DeleteWebsites(r) \/ SaveWebsites(r) \/ BranchFails(r)
             \/ RemoveWebsite(r)
  BY <1>3, WebsiteRows
<1> QED
  BY <1>1, <1>2, <1>3 DEF CatalogSteps, CategoryStep, RelationStep

LEMMA OtherShape ==
  ASSUME CatalogInv, NEW r \in Requests, OtherStep(r)
  PROVE  RowsShape' /\ RelatedShape'
<1>1. UNCHANGED <<parent, profile, websites, related, meant, asked, moved>>
  BY DEF OtherStep, catalogVars, catalogTables, catalogHistory
<1>2. \A x \in Requests : pc[x] \in CatalogLabels \/ pc'[x] \in CatalogLabels
        => pc'[x] = pc[x] /\ kind'[x] = kind[x]
  BY OtherStepControl DEF CatalogInv
<1>3. ASSUME NEW x \in Requests PROVE AskedFact(x)'
  BY <1>1, <1>2 DEF AskedFact, CatalogInv, RelatedShape, CatalogLabels
<1> QED
  BY <1>1, <1>3 DEF CatalogInv, RowsShape, RelatedShape, Referenced, Exists

LEMMA CrashShape == CatalogInv /\ Crash => RowsShape' /\ RelatedShape'
<1> SUFFICES ASSUME CatalogInv, Crash PROVE RowsShape' /\ RelatedShape'
  OBVIOUS
<1>1. /\ UNCHANGED <<parent, profile, websites, related, meant, moved>>
      /\ asked' = [r \in Requests |-> Blank]
      /\ pc' = [r \in Requests |-> IF Live(r) THEN "dead" ELSE pc[r]]
  BY DEF Crash, Crashes, CatalogCrash, catalogTables
<1>2. \A r \in Requests : pc'[r] \in Ended \cup {"new"}
  BY <1>1 DEF Live, Ended
<1>3. ASSUME NEW r \in Requests PROVE AskedFact(r)'
  BY <1>2 DEF AskedFact, Ended
<1>4. RowsShape'
  BY <1>1 DEF CatalogInv, RowsShape, Referenced, Exists
<1> QED
  BY <1>1, <1>3, <1>4, BlankType DEF CatalogInv, RelatedShape

LEMMA CatalogInvStep == CatalogInv /\ [Next]_vars => CatalogInv'
<1> SUFFICES ASSUME CatalogInv, [Next]_vars PROVE CatalogInv'
  OBVIOUS
<1>1. ControlInv'
  BY ControlStep DEF CatalogInv
<1>2. CASE UNCHANGED vars \/ UNCHANGED <<handlers, catalogVars, listingVars, rankingVars>>
  <2>1. UNCHANGED <<pc, kind, parent, profile, websites, related, meant, asked, moved>>
    BY <1>2 DEF vars, handlers, catalogVars, catalogTables, catalogHistory
  <2> QED
    BY <1>1, <2>1 DEF CatalogInv, RowsShape, RelatedShape, Referenced, Exists, AskedFact
<1> QED
  BY <1>1, <1>2, CatalogShape, OtherShape, CrashShape, NextCases DEF CatalogInv

LEMMA CatalogInvariant == Spec => []CatalogInv
<1>1. Init => CatalogInv
  BY ControlInit, ShapeInit DEF CatalogInv
<1> QED
  BY <1>1, CatalogInvStep, PTL DEF Spec

-----------------------------------------------------------------------------
(* The majority of a profile                                               *)

(* MajorityFitsIndustry is not inductive: a profile is stored on what was  *)
(* checked some steps before.  What passed the check still holds, until    *)
(* the category is moved or removed; and so does what a save of the whole  *)
(* row read, until the majority is moved.                                  *)
SaveLabels == {"profileSave", "wholeSelect", "wholeUpdate"}
CheckedFact(r) ==
    pc[r] \in SaveLabels /\ asked[r].category # None /\ asked[r].category \notin moved[r]
      => parent[asked[r].category] \in {asked[r].parent, Removed}

MajorityInv == MajorityFitsIndustry /\ \A r \in Requests : CheckedFact(r)

(* A step of r that changes nothing of a check but the tree, and tells.    *)
LEMMA CheckedKept ==
  ASSUME CatalogInv, MajorityInv, NEW r \in Requests, CatalogSteps(r),
         \A c \in Categories : \/ parent'[c] \in {parent[c], Removed}
                               \/ parent[c] = Unborn
                               \/ \A x \in Requests : kind[x] \in {"profile", "saveProfile"} => c \in moved'[x],
         \A x \in Requests : moved[x] \subseteq moved'[x] \/ x = r,
         asked' = [asked EXCEPT ![r] = asked'[r]],
         NEW x \in Requests, x # r
  PROVE  CheckedFact(x)'
<1>1. pc'[x] = pc[x] /\ kind'[x] = kind[x] /\ asked'[x] = asked[x] /\ moved[x] \subseteq moved'[x]
  BY OthersStay DEF CatalogInv, RelatedShape
<1>2. /\ KindFact(pc[x], kind[x]) /\ asked[x].category \in Choice /\ asked[x].parent \in Choice
      /\ Unborn \notin Choice /\ Unborn # Removed
  BY CatalogAssumption DEF CatalogInv, ControlInv, RelatedShape, AskedRecord, Choice
<1>3. CheckedFact(x)
  BY DEF MajorityInv
<1>4. SUFFICES ASSUME pc[x] \in SaveLabels, asked[x].category # None, asked[x].category \notin moved'[x]
               PROVE  parent'[asked[x].category] \in {asked[x].parent, Removed}
  BY <1>1 DEF CheckedFact
<1>5. kind[x] \in {"profile", "saveProfile"} /\ asked[x].category \in Categories
  BY <1>2, <1>4, CatalogLabelFacts DEF Choice, SaveLabels
<1>6. parent[asked[x].category] \in {asked[x].parent, Removed}
  BY <1>1, <1>3, <1>4 DEF CheckedFact
<1> QED
  BY <1>2, <1>4, <1>5, <1>6

LEMMA MajorityCategory ==
  ASSUME CatalogInv, MajorityInv, NEW r \in Requests, CategoryStep(r)
  PROVE  MajorityInv'
<1> USE DEF SaveLabels
<1>0. /\ CatalogSteps(r) /\ ControlInv /\ RowsShape /\ asked[r] \in AskedRecord /\ AskedFact(r)
      /\ \A x \in Requests : CheckedFact(x)
      /\ asked' = [asked EXCEPT ![r] = asked'[r]]
  BY CategoryAsked DEF CatalogSteps, CategoryStep, CatalogInv, RelatedShape, MajorityInv
<1>1. /\ asked[r].parent \in Choice /\ asked[r].category \in Choice /\ Unborn \notin Choice
      /\ Removed \notin Choice /\ Unborn # Removed
  BY <1>0, CatalogAssumption DEF AskedRecord, Choice
<1>2. profile.majority # None => profile.majority \in Categories /\ parent[profile.majority] \notin {Unborn, Removed}
  BY <1>0 DEF RowsShape, Referenced, Exists, Choice
<1>3. ASSUME moved' = moved, loose' = loose, profile' = profile,
             \A c \in Categories : parent'[c] = parent[c] \/ parent[c] = Unborn
                                     \/ (parent'[c] = Removed /\ c # profile.majority),
             pc'[r] \notin SaveLabels
      PROVE  MajorityInv'
  <2>1. MajorityFitsIndustry'
    BY <1>2, <1>3 DEF MajorityInv, MajorityFitsIndustry
  <2>2. \A x \in Requests : CheckedFact(x)'
    <3>1. CheckedFact(r)'
      BY <1>3 DEF CheckedFact
    <3> QED
      BY <1>0, <1>3, <3>1, CheckedKept
  <2> QED
    BY <2>1, <2>2 DEF MajorityInv
<1>4. ASSUME NEW how \in Ended, Ends(r, how) PROVE pc'[r] \notin SaveLabels
  BY <1>0, <1>4 DEF Ends, ControlInv, Ended
<1>5. ASSUME NEW how \in Ended, Closes(r, how) PROVE pc'[r] \notin SaveLabels
  BY <1>4, <1>5 DEF Closes
<1>6. ASSUME NEW k, NEW l, Starts(r, k, l) PROVE pc'[r] = l
  BY <1>0, <1>6 DEF Starts, ControlInv
<1>7. CASE CreateCategory(r) \/ ChildrenSave(r)
  <2>1. moved' = moved /\ loose' = loose /\ profile' = profile
    BY <1>7 DEF CreateCategory, ChildrenSave, NothingElse
  <2>2. pc'[r] \notin SaveLabels
    BY <1>4, <1>5, <1>7, CatalogLabelFacts DEF CreateCategory, ChildrenSave
  <2>3. \A c \in Categories : parent'[c] = parent[c] \/ parent[c] = Unborn
    BY <1>0, <1>7 DEF CreateCategory, ChildrenSave, Parented, RowsShape
  <2> QED
    BY <1>3, <2>1, <2>2, <2>3
<1>8. CASE ChildrenFind(r) \/ ChangeFind(r) \/ ChangeFindParent(r) \/ RemoveFind(r) \/ RemoveMany(r)
  <2>1. moved' = moved /\ loose' = loose /\ profile' = profile /\ parent' = parent
    BY <1>8 DEF ChildrenFind, ChangeFind, ChangeFindParent, RemoveFind, RemoveMany, NothingElse
  <2>2. pc'[r] \notin SaveLabels
    BY <1>0, <1>5, <1>6, <1>8, CatalogLabelFacts
       DEF ChildrenFind, ChangeFind, ChangeFindParent, RemoveFind, RemoveMany, Moves, ControlInv
  <2> QED
    BY <1>3, <2>1, <2>2
<1>9. CASE RemoveDelete(r)
  <2> DEFINE C == Family({c \in asked[r].doomed : Exists(c)})
  <2> HIDE DEF C
  <2>1. moved' = moved /\ loose' = loose /\ profile' = profile
    BY <1>9 DEF RemoveDelete, NothingElse
  <2>2. pc'[r] \notin SaveLabels
    BY <1>5, <1>9, CatalogLabelFacts DEF RemoveDelete
  <2>3. parent' = parent \/
        /\ ~InUse(C) /\ parent' = [c \in Categories |-> IF c \in C THEN Removed ELSE parent[c]]
    BY <1>9 DEF RemoveDelete, C
  <2>4. \A c \in Categories : parent'[c] = parent[c] \/ (parent'[c] = Removed /\ c # profile.majority)
    BY <2>3 DEF InUse
  <2> QED
    BY <1>3, <2>1, <2>2, <2>4
<1>10. CASE ChangeSave(r)
  <2>1. pc'[r] \notin SaveLabels /\ profile' = profile /\ asked[r].category \in Categories
    BY <1>0, <1>5, <1>10, CatalogLabelFacts DEF ChangeSave, NothingElse, AskedFact
  <2>2. CASE UNCHANGED <<parent, moved, loose>>
    BY <1>3, <2>1, <2>2
  <2>3. CASE Parented(asked[r].category, asked[r].parent) /\ Relocates(asked[r].category)
    <3>1. MajorityFitsIndustry'
      BY <1>0, <1>2, <2>1, <2>3 DEF Parented, Relocates, MajorityInv, MajorityFitsIndustry, RowsShape
    <3>2. CheckedFact(r)'
      BY <2>1 DEF CheckedFact
    <3>3. \A c \in Categories : parent'[c] = parent[c]
                                  \/ \A x \in Requests : kind[x] \in {"profile", "saveProfile"} => c \in moved'[x]
      BY <1>0, <2>3 DEF Parented, Relocates, RowsShape
    <3>4. \A x \in Requests : moved[x] \subseteq moved'[x]
      BY <1>0, <2>3 DEF Relocates, RowsShape
    <3> QED
      BY <1>0, <3>1, <3>2, <3>3, <3>4, CheckedKept DEF MajorityInv
  <2> QED
    BY <1>10, <2>2, <2>3 DEF ChangeSave
<1>11. ASSUME parent' = parent, moved' = [moved EXCEPT ![r] = moved'[r]], MajorityFitsIndustry', CheckedFact(r)'
       PROVE  MajorityInv'
  <2>1. \A x \in Requests : moved[x] \subseteq moved'[x] \/ x = r
    BY <1>0, <1>11 DEF RowsShape
  <2> QED
    BY <1>0, <1>11, <2>1, CheckedKept DEF MajorityInv
<1>12. CASE ProfileStart(r)
  <2>1. PICK i \in Choice, m \in Choice :
          /\ Starts(r, "profile", IF m = None THEN "profileSave" ELSE "profileCheck")
          /\ Asks(r, [Blank EXCEPT !.parent = i, !.category = m])
    BY <1>12 DEF ProfileStart
  <2>2. CheckedFact(r)'
    <3>1. asked'[r] = [Blank EXCEPT !.parent = i, !.category = m]
      BY <2>1 DEF Asks, CatalogInv, RelatedShape
    <3>2. asked'[r].category = m
      BY <3>1, BlankType DEF AskedRecord
    <3>3. pc'[r] = IF m = None THEN "profileSave" ELSE "profileCheck"
      BY <1>6, <2>1
    <3> QED
      BY <3>2, <3>3 DEF CheckedFact
  <2>3. parent' = parent /\ moved' = [moved EXCEPT ![r] = {}] /\ profile' = profile /\ loose' = loose
    BY <1>12 DEF ProfileStart, NothingElse
  <2>4. moved' = [moved EXCEPT ![r] = moved'[r]]
    BY <1>0, <2>3 DEF RowsShape
  <2> QED
    BY <1>11, <2>2, <2>3, <2>4 DEF MajorityInv, MajorityFitsIndustry
<1>13. CASE ProfileCheck(r)
  <2>1. parent' = parent /\ moved' = [moved EXCEPT ![r] = {}] /\ profile' = profile /\ loose' = loose
    BY <1>13 DEF ProfileCheck, NothingElse
  <2>2. CheckedFact(r)'
    <3>1. CASE OfFamily(asked[r].parent, asked[r].category) /\ asked' = asked
      BY <2>1, <3>1 DEF OfFamily, CheckedFact
    <3>2. CASE Closes(r, "rejected")
      BY <1>5, <3>2, CatalogLabelFacts DEF CheckedFact
    <3> QED
      BY <1>13, <3>1, <3>2 DEF ProfileCheck
  <2>3. moved' = [moved EXCEPT ![r] = moved'[r]]
    BY <1>0, <2>1 DEF RowsShape
  <2> QED
    BY <1>11, <2>1, <2>2, <2>3 DEF MajorityInv, MajorityFitsIndustry
<1>14. CASE ProfileSave(r)
  <2>1. parent' = parent /\ moved' = [moved EXCEPT ![r] = {}] /\ pc[r] = "profileSave"
    BY <1>14 DEF ProfileSave
  <2>2. CheckedFact(r)'
    BY <1>5, <1>14, CatalogLabelFacts DEF ProfileSave, CheckedFact
  <2>3. MajorityFitsIndustry'
    <3>1. CASE profile' = profile /\ loose' = loose
      BY <2>1, <3>1 DEF MajorityInv, MajorityFitsIndustry
    <3>2. CASE /\ \A c \in {asked[r].parent, asked[r].category} \ {None} : Exists(c)
               /\ profile' = [industry |-> asked[r].parent, majority |-> asked[r].category]
               /\ loose' = (asked[r].category \in moved[r])
      BY <1>0, <2>1, <3>2 DEF CheckedFact, Exists, MajorityFitsIndustry
    <3> QED
      BY <1>14, <3>1, <3>2 DEF ProfileSave
  <2>4. moved' = [moved EXCEPT ![r] = moved'[r]]
    BY <1>0, <2>1 DEF RowsShape
  <2> QED
    BY <1>11, <2>1, <2>2, <2>3, <2>4
<1>15. CASE WholeLoad(r)
  <2>1. /\ parent' = parent /\ profile' = profile /\ loose' = loose
        /\ moved' = [moved EXCEPT ![r] = IF loose THEN {profile.majority} \ {None} ELSE {}]
        /\ asked'[r] = [Blank EXCEPT !.parent = profile.industry, !.category = profile.majority]
    BY <1>15 DEF WholeLoad, NothingElse, Asks, CatalogInv, RelatedShape
  <2>2. moved' = [moved EXCEPT ![r] = moved'[r]] /\ (~loose \/ profile.majority \in moved'[r] \cup {None})
    BY <1>0, <2>1 DEF RowsShape
  <2>3. CheckedFact(r)'
    <3>1. asked'[r].parent = profile.industry /\ asked'[r].category = profile.majority
      <4>1. profile.industry \in Choice /\ profile.majority \in Choice
        BY <1>0 DEF RowsShape
      <4>2. \A i, m \in Choice : /\ [Blank EXCEPT !.parent = i, !.category = m].parent = i
                               /\ [Blank EXCEPT !.parent = i, !.category = m].category = m
        BY BlankType DEF AskedRecord
      <4> QED
        BY <2>1, <4>1, <4>2
    <3> QED
      BY <1>2, <2>1, <2>2, <3>1 DEF CheckedFact, MajorityInv, MajorityFitsIndustry
  <2> QED
    BY <1>11, <2>1, <2>2, <2>3 DEF MajorityInv, MajorityFitsIndustry
<1>16. CASE WholeSelect(r)
  <2>1. /\ UNCHANGED <<parent, profile, moved, loose>>
        /\ asked'[r] = [asked[r] EXCEPT !.row = profile] /\ pc[r] = "wholeSelect"
    BY <1>16 DEF WholeSelect, NothingElse, Asks, Moves, CatalogInv, RelatedShape
  <2>2. asked'[r].parent = asked[r].parent /\ asked'[r].category = asked[r].category
    BY <1>0, <2>1, WholeTypes DEF RowsShape, ProfileRecord
  <2>3. CheckedFact(r)'
    BY <1>0, <2>1, <2>2 DEF CheckedFact
  <2>4. moved' = [moved EXCEPT ![r] = moved'[r]]
    BY <1>0, <2>1 DEF RowsShape
  <2> QED
    BY <1>11, <2>1, <2>3, <2>4 DEF MajorityInv, MajorityFitsIndustry
<1>17. CASE WholeUpdate(r)
  <2>1. parent' = parent /\ moved' = [moved EXCEPT ![r] = {}] /\ pc[r] = "wholeUpdate"
    BY <1>17 DEF WholeUpdate
  <2>2. CheckedFact(r)'
    BY <1>5, <1>17, CatalogLabelFacts DEF WholeUpdate, CheckedFact
  <2>3. MajorityFitsIndustry'
    <3>1. CASE profile' = profile /\ loose' = loose
      BY <2>1, <3>1 DEF MajorityInv, MajorityFitsIndustry
    <3>2. ASSUME NEW C \in SUBSET DOMAIN profile,
                 \A c \in DOMAIN profile \ C : Held(r)[c] = asked[r].row[c],
                 profile' = [c \in DOMAIN profile |-> IF c \in C THEN Held(r)[c] ELSE profile[c]],
                 loose' = IF C = {} THEN loose
                          ELSE asked[r].category \in moved[r] \/ profile # asked[r].row
          PROVE  MajorityFitsIndustry'
      <4>1. CASE C = {}
        BY <1>0, <3>1, <3>2, <4>1 DEF RowsShape
      <4>2. CASE loose'
        BY <4>2 DEF MajorityFitsIndustry
      <4>3. CASE C # {} /\ ~loose'
        <5>1. asked[r].category \notin moved[r] /\ profile = asked[r].row
          BY <3>2, <4>3
        <5>2. profile'.industry = asked[r].parent /\ profile'.majority = asked[r].category
          BY <1>0, <3>2, <5>1 DEF RowsShape, Held
        <5>3. asked[r].category # None => parent[asked[r].category] \in {asked[r].parent, Removed}
          BY <1>0, <2>1, <5>1 DEF CheckedFact
        <5>4. RowsShape'
          BY CategoryRows
        <5> QED
          BY <2>1, <5>2, <5>3, <5>4 DEF MajorityFitsIndustry, RowsShape, Referenced, Exists
      <4> QED
        BY <4>1, <4>2, <4>3
    <3> QED
      BY <1>17, <3>1, <3>2 DEF WholeUpdate
  <2>4. moved' = [moved EXCEPT ![r] = moved'[r]]
    BY <1>0, <2>1 DEF RowsShape
  <2> QED
    BY <1>11, <2>1, <2>2, <2>3, <2>4
<1> QED
  BY <1>7, <1>8, <1>9, <1>10, <1>12, <1>13, <1>14, <1>15, <1>16, <1>17 DEF CategoryStep

(* The steps that leave categories and the profile alone.                  *)
LEMMA MajorityKept ==
  ASSUME CatalogInv, MajorityInv, UNCHANGED <<parent, profile, moved, loose>>,
         \A x \in Requests : pc'[x] \in SaveLabels => pc[x] \in SaveLabels /\ asked'[x] = asked[x]
  PROVE  MajorityInv'
  BY DEF MajorityInv, MajorityFitsIndustry, CheckedFact

LEMMA MajorityStep == CatalogInv /\ MajorityInv /\ [Next]_vars => MajorityInv'
<1> USE DEF SaveLabels
<1> SUFFICES ASSUME CatalogInv, MajorityInv, [Next]_vars PROVE MajorityInv'
  OBVIOUS
<1>0. ControlInv
  BY DEF CatalogInv
<1>1. ASSUME NEW r \in Requests, CatalogSteps(r) PROVE MajorityInv'
  <2>1. CASE CategoryStep(r)
    BY <2>1, MajorityCategory
  <2>2. CASE RelationStep(r) \/ ReplaceWebsites(r) \/ DeleteWebsites(r) \/ SaveWebsites(r)
               \/ BranchFails(r) \/ RemoveWebsite(r)
    <3>1. UNCHANGED <<parent, profile, moved, loose>>
      BY <2>2 DEF RelationStep, AddWishLoad, DeleteWishLoad, ReviewLoad, RelateSelect, RelateWrite, PostJob,
             CreateJobWishList, CreateRecentJob, CreateTags, LookFirst, InsertRows, DeleteJobWishList,
             RelationsAlone, ReplaceWebsites, DeleteWebsites, SaveWebsites, BranchFails, RemoveWebsite,
             BranchEnds, BranchIsOver, OthersAlone
    <3>2. asked' = [asked EXCEPT ![r] = asked'[r]]
      <4>1. CASE RelationStep(r)
        BY <4>1, RelationAsked
      <4>2. CASE ~RelationStep(r)
        BY <2>2, <4>2 DEF ReplaceWebsites, DeleteWebsites, SaveWebsites, BranchFails, RemoveWebsite,
             BranchEnds, BranchIsOver, CatalogInv, RelatedShape
      <4> QED
        BY <4>1, <4>2
    <3>3. pc'[r] \notin SaveLabels
      <4>1. CASE RelationStep(r)
        BY <4>1, RelationLabels, CatalogLabelFacts
      <4>2. CASE ~RelationStep(r)
        BY <1>0, <2>2, <4>2, CatalogLabelFacts
           DEF ReplaceWebsites, DeleteWebsites, SaveWebsites, BranchFails, RemoveWebsite,
             BranchEnds, BranchIsOver, Starts, Ends, Breaks, Stays, handlers, ControlInv
      <4> QED
        BY <4>1, <4>2
    <3> QED
      BY <1>0, <1>1, <3>1, <3>2, <3>3, OthersStay, MajorityKept DEF CatalogInv, RelatedShape
  <2> QED
    BY <1>1, <2>1, <2>2 DEF CatalogSteps, CategoryStep, RelationStep
<1>2. ASSUME NEW r \in Requests, OtherStep(r) PROVE MajorityInv'
  <2>1. UNCHANGED <<parent, profile, moved, loose, asked>>
    BY <1>2 DEF OtherStep, catalogVars, catalogTables, catalogHistory
  <2>2. \A x \in Requests : pc'[x] \in SaveLabels => pc[x] \in SaveLabels
    BY <1>0, <1>2, OtherStepControl DEF CatalogLabels
  <2> QED
    BY <2>1, <2>2, MajorityKept
<1>3. CASE Crash
  <2>1. UNCHANGED <<parent, profile, moved, loose>>
    BY <1>3 DEF Crash, CatalogCrash, catalogTables
  <2>2. \A x \in Requests : pc'[x] \notin SaveLabels
    BY <1>3 DEF Crash, Crashes, Live, Ended
  <2> QED
    BY <2>1, <2>2, MajorityKept
<1>4. CASE UNCHANGED vars \/ UNCHANGED <<handlers, catalogVars, listingVars, rankingVars>>
  <2>1. UNCHANGED <<pc, parent, profile, moved, loose, asked>>
    BY <1>4 DEF vars, handlers, catalogVars, catalogTables, catalogHistory
  <2> QED
    BY <2>1, MajorityKept
<1> QED
  BY <1>0, <1>1, <1>2, <1>3, <1>4, NextCases

(* The majority of a profile is a child of its industry, as                *)
(* UserService.updateCandidateProfile checks before it saves, whatever     *)
(* CategoryService creates, moves and removes in between, and although     *)
(* other handlers save the whole row they read: unless the majority itself *)
(* was moved after that check, or the row was written in the midst of a    *)
(* save.                                                                   *)
THEOREM MajorityFits == Spec => []MajorityFitsIndustry
<1>1. Init => MajorityInv
  BY DEF Init, HandlersInit, CatalogInit, MajorityInv, MajorityFitsIndustry, CheckedFact, SaveLabels
<1>2. MajorityInv => MajorityFitsIndustry
  BY DEF MajorityInv
<1> QED
  BY <1>1, <1>2, MajorityStep, CatalogInvariant, PTL DEF Spec

-----------------------------------------------------------------------------
(* Websites                                                                *)

(* WebsitesOfOneRequest says nothing of a replacement under way.  One that *)
(* nobody overlapped is the only one, and once its DELETE is over there is *)
(* no row but those it will save.                                          *)
ReplacedFact(r) ==
    branches[r] # {} /\ r \notin crowded
      => Replacing = {r} /\ ("delete" \notin branches[r] => websites = {})

WebsitesInv == WebsitesOfOneRequest /\ \A r \in Requests : ReplacedFact(r)

LEMMA WebsitesKept ==
  ASSUME WebsitesInv, UNCHANGED <<branches, crowded, mingled>>, websites' \subseteq websites
  PROVE  WebsitesInv'
<1>1. Replacing' = Replacing
  BY DEF Replacing
<1> QED
  BY <1>1 DEF WebsitesInv, WebsitesOfOneRequest, ReplacedFact

LEMMA BranchOver ==
  ASSUME CatalogInv, WebsitesInv, NEW r \in Requests, NEW b \in {"delete", "save"}, NEW C,
         BranchIsOver(r, b, C), crowded \subseteq C, C \subseteq crowded \cup {r},
         \/ b = "delete" /\ websites' = {}
         \/ b = "save" /\ websites' = websites \cup ({r} \X Links)
         \/ r \in C /\ websites' = websites
  PROVE  WebsitesInv'
<1>0. /\ branches \in [Requests -> SUBSET {"delete", "save"}]
      /\ b \in branches[r] /\ branches' = [branches EXCEPT ![r] = @ \ {b}] /\ crowded' = C
      /\ mingled' = IF branches[r] = {b} THEN r \in C ELSE mingled
      /\ r \in Replacing
  BY DEF CatalogInv, ControlInv, BranchIsOver, Replacing
<1>1. ASSUME NEW x \in Requests PROVE ReplacedFact(x)'
  <2>1. SUFFICES ASSUME branches'[x] # {}, x \notin C
                 PROVE  Replacing' = {x} /\ ("delete" \notin branches'[x] => websites' = {})
    BY <1>0 DEF ReplacedFact
  <2>2. branches[x] # {} /\ x \notin crowded
    BY <1>0, <2>1
  <2>3. Replacing = {x}
    BY <2>2 DEF WebsitesInv, ReplacedFact
  <2>4. x = r
    BY <1>0, <2>3
  <2>5. Replacing' = {x}
    BY <1>0, <2>1, <2>3, <2>4 DEF Replacing
  <2>6. "delete" \notin branches'[x] => websites' = {}
    <3>1. CASE b = "delete"
      BY <2>1, <2>4, <3>1
    <3>2. CASE b = "save"
      <4>1. branches[r] \subseteq {"delete", "save"} /\ "save" \notin branches'[r]
        BY <1>0, <3>2
      <4> QED
        BY <2>1, <2>4, <4>1, <1>0
    <3> QED
      BY <3>1, <3>2
  <2> QED
    BY <2>5, <2>6
<1>2. WebsitesOfOneRequest'
  <2>1. SUFFICES ASSUME Replacing' = {}, ~mingled' PROVE \A v, w \in websites' : v[1] = w[1]
    BY DEF WebsitesOfOneRequest
  <2>2. branches[r] = {b}
    <3>1. branches'[r] = {}
      BY <2>1 DEF Replacing
    <3> QED
      BY <1>0, <3>1
  <2>3. r \notin C
    BY <1>0, <2>1, <2>2
  <2>4. b = "save" => websites = {}
    BY <1>0, <2>2, <2>3 DEF WebsitesInv, ReplacedFact
  <2>5. websites' = {} \/ websites' = {r} \X Links
    BY <2>3, <2>4
  <2> QED
    BY <2>5
<1> QED
  BY <1>1, <1>2 DEF WebsitesInv

LEMMA WebsitesStep == CatalogInv /\ WebsitesInv /\ [Next]_vars => WebsitesInv'
<1> SUFFICES ASSUME CatalogInv, WebsitesInv, [Next]_vars PROVE WebsitesInv'
  OBVIOUS
<1>0. ControlInv /\ branches \in [Requests -> SUBSET {"delete", "save"}]
  BY DEF CatalogInv, ControlInv
<1>1. ASSUME NEW r \in Requests, CategoryStep(r) \/ RelationStep(r) \/ RemoveWebsite(r)
      PROVE  WebsitesInv'
  <2>1. UNCHANGED <<branches, crowded, mingled>> /\ websites' \subseteq websites
    BY <1>1 DEF CategoryStep, CreateCategory, ChildrenFind, ChildrenSave, ChangeFind, ChangeFindParent,
             ChangeSave, RemoveFind, RemoveMany, RemoveDelete, ProfileStart, ProfileCheck, ProfileSave,
             WholeLoad, WholeSelect, WholeUpdate, NothingElse, RelationStep, AddWishLoad, DeleteWishLoad, ReviewLoad, RelateSelect,
             RelateWrite, PostJob, CreateJobWishList, CreateRecentJob, CreateTags, LookFirst, InsertRows,
             DeleteJobWishList, RelationsAlone, RemoveWebsite
  <2> QED
    BY <2>1, WebsitesKept
<1>2. ASSUME NEW r \in Requests, ReplaceWebsites(r) PROVE WebsitesInv'
  <2>1. /\ branches' = [branches EXCEPT ![r] = {"delete", "save"}] /\ websites' = websites
        /\ crowded' = crowded \cup (IF Replacing = {} THEN {} ELSE Replacing \cup {r})
    BY <1>2 DEF ReplaceWebsites
  <2>2. Replacing' = Replacing \cup {r}
    BY <1>0, <2>1 DEF Replacing
  <2>3. WebsitesOfOneRequest'
    BY <2>2 DEF WebsitesOfOneRequest
  <2>4. ASSUME NEW x \in Requests PROVE ReplacedFact(x)'
    <3>1. CASE Replacing = {}
      BY <1>0, <2>1, <2>2, <3>1 DEF ReplacedFact, Replacing
    <3>2. CASE Replacing # {}
      BY <2>1, <2>2, <3>2 DEF ReplacedFact, Replacing
    <3> QED
      BY <3>1, <3>2
  <2> QED
    BY <2>3, <2>4 DEF WebsitesInv
<1>3. ASSUME NEW r \in Requests, DeleteWebsites(r) \/ SaveWebsites(r) PROVE WebsitesInv'
  BY <1>3, BranchOver DEF DeleteWebsites, SaveWebsites, BranchEnds, Superseded
<1>4. ASSUME NEW r \in Requests, BranchFails(r) PROVE WebsitesInv'
  <2>1. PICK b \in branches[r] : BranchIsOver(r, b, crowded \cup {r}) /\ websites' = websites
    BY <1>4 DEF BranchFails
  <2>2. b \in {"delete", "save"}
    BY <1>0
  <2> QED
    BY <2>1, <2>2, BranchOver
<1>5. CASE Crash
  <2>1. /\ branches' = [r \in Requests |-> {}] /\ mingled' = (mingled \/ Replacing # {})
        /\ websites' = websites /\ crowded' = crowded
    BY <1>5 DEF Crash, CatalogCrash, catalogTables
  <2> QED
    BY <2>1 DEF WebsitesInv, WebsitesOfOneRequest, ReplacedFact, Replacing
<1>6. ASSUME UNCHANGED <<websites, branches, crowded, mingled>> PROVE WebsitesInv'
  BY <1>6, WebsitesKept
<1>7. ASSUME UNCHANGED catalogVars PROVE WebsitesInv'
  BY <1>6, <1>7 DEF catalogVars, catalogTables, catalogHistory
<1>8. ASSUME NEW r \in Requests, CatalogSteps(r) PROVE WebsitesInv'
  BY <1>1, <1>2, <1>3, <1>4, <1>8 DEF CatalogSteps, CategoryStep, RelationStep
<1>9. ASSUME NEW r \in Requests, OtherStep(r) PROVE WebsitesInv'
  BY <1>7, <1>9 DEF OtherStep
<1> QED
  BY <1>0, <1>5, <1>7, <1>8, <1>9, NextCases DEF vars

(* Between two replacements the websites of a profile are those of one     *)
(* request, of the start or none, although WebsiteService runs the DELETE  *)
(* and the INSERTs side by side, unless two overlapped or one was cut.     *)
THEOREM WebsitesStayWhole == Spec => []WebsitesOfOneRequest
<1>1. Init => WebsitesInv
  BY DEF Init, CatalogInit, WebsitesInv, WebsitesOfOneRequest, ReplacedFact
<1>2. WebsitesInv => WebsitesOfOneRequest
  BY DEF WebsitesInv
<1> QED
  BY <1>1, <1>2, WebsitesStep, CatalogInvariant, PTL DEF Spec

-----------------------------------------------------------------------------
(* What is related to an enterprise, a job and a tag                       *)

(* RelationsKept says nothing of what the handlers hold: a relation they   *)
(* loaded and not outrun is what it is now, but for what they add or take  *)
(* away, and who looked for a view and was not outrun would find none now. *)
RelateFact(x) ==
    pc[x] \in {"relate", "relateWrite"} /\ <<x, Keeps(x)>> \notin outrun =>
      /\ kind[x] = "addWish" =>
           asked[x].mine["favorites"] = related["favorites"] \cup {asked[x].candidate}
      /\ kind[x] = "deleteWish" =>
           asked[x].mine["favorites"] = related["favorites"] \ {asked[x].candidate}
      /\ kind[x] = "review" => asked[x].mine["jobs"] = related["jobs"]
      /\ pc[x] = "relateWrite" => asked[x].found[Keeps(x)] = related[Keeps(x)]

ViewFact(x) ==
    pc[x] = "insert" /\ kind[x] = "createRecentJob" /\ <<x, "views">> \notin outrun
      => asked[x].keys \cap Taken("views") = {}

RelationsInv == RelationsKept /\ \A x \in Requests : RelateFact(x) /\ ViewFact(x)

LEMMA RelateFactKept ==
  ASSUME RelationsInv, NEW x \in Requests,
         pc'[x] = pc[x], kind'[x] = kind[x], asked'[x] = asked[x],
         pc[x] \in {"relate", "relateWrite"} /\ <<x, Keeps(x)>> \notin outrun'
           => <<x, Keeps(x)>> \notin outrun /\ related'[Keeps(x)] = related[Keeps(x)],
         pc[x] = "insert" /\ kind[x] = "createRecentJob" /\ <<x, "views">> \notin outrun'
           => <<x, "views">> \notin outrun /\ asked[x].keys \cap Taken("views")' \subseteq Taken("views")
  PROVE  RelateFact(x)' /\ ViewFact(x)'
<1>0. RelateFact(x) /\ ViewFact(x) /\ Keeps(x)' = Keeps(x)
  BY DEF RelationsInv, Keeps
<1>1. RelateFact(x)'
  <2>1. SUFFICES ASSUME pc[x] \in {"relate", "relateWrite"}, <<x, Keeps(x)>> \notin outrun'
                 PROVE  RelateFact(x)'
    BY <1>0 DEF RelateFact
  <2>2. <<x, Keeps(x)>> \notin outrun /\ related'[Keeps(x)] = related[Keeps(x)]
    BY <2>1
  <2>3. /\ kind[x] = "review" => Keeps(x) = "jobs"
        /\ kind[x] \in {"addWish", "deleteWish"} => Keeps(x) = "favorites"
    BY DEF Keeps
  <2> QED
    BY <1>0, <2>1, <2>2, <2>3 DEF RelateFact
<1>2. ViewFact(x)'
  BY <1>0 DEF ViewFact
<1> QED
  BY <1>1, <1>2

(* A step that leaves what is related alone, and outruns nobody.           *)
LEMMA RelationsAsWere ==
  ASSUME CatalogInv, RelationsInv, NEW r \in Requests, CatalogSteps(r),
         UNCHANGED <<related, meant, torn>>, outrun' \cup ({r} \X Relations) = outrun \cup ({r} \X Relations),
         asked' = [asked EXCEPT ![r] = asked'[r]], RelateFact(r)', ViewFact(r)'
  PROVE  RelationsInv'
<1>1. RelationsKept'
  BY DEF RelationsInv, RelationsKept, Relations
<1>2. ASSUME NEW x \in Requests, x # r PROVE RelateFact(x)' /\ ViewFact(x)'
  <2>1. pc'[x] = pc[x] /\ kind'[x] = kind[x] /\ asked'[x] = asked[x]
    BY <1>2, OthersStay DEF CatalogInv, RelatedShape
  <2>2. \A rel : <<x, rel>> \notin outrun' => <<x, rel>> \notin outrun
    BY <1>2
  <2>3. Taken("views")' = Taken("views")
    BY DEF Taken
  <2> QED
    BY <2>1, <2>2, <2>3, RelateFactKept
<1> QED
  BY <1>1, <1>2 DEF RelationsInv

(* Who has ended holds nothing.                                            *)
LEMMA NothingHeld ==
  ASSUME NEW x, pc'[x] \notin {"relate", "relateWrite", "insert"}
  PROVE  RelateFact(x)' /\ ViewFact(x)'
  BY DEF RelateFact, ViewFact

LEMMA RelationsLoad ==
  ASSUME CatalogInv, RelationsInv, NEW r \in Requests,
         AddWishLoad(r) \/ DeleteWishLoad(r) \/ ReviewLoad(r)
  PROVE  RelationsInv'
<1>0. /\ RelationStep(r) /\ CatalogSteps(r) /\ asked' = [asked EXCEPT ![r] = asked'[r]]
      /\ related \in RelatedRecord /\ asked \in [Requests -> AskedRecord] /\ pc \in [Requests -> Labels]
      /\ kind = [x \in Requests |-> kind[x]]
  BY RelationAsked DEF RelationStep, CatalogSteps, CatalogInv, RelatedShape, ControlInv
<1>1. UNCHANGED <<related, meant, torn>> /\ outrun' = outrun \ ({r} \X Relations)
  BY DEF AddWishLoad, DeleteWishLoad, ReviewLoad, Loads
<1>2. RelateFact(r)' /\ ViewFact(r)'
  <2>1. CASE ReviewLoad(r)
    <3>1. /\ kind'[r] = "review" /\ pc'[r] = "relate" /\ Asks(r, [Blank EXCEPT !.mine.jobs = related.jobs])
      BY <1>0, <2>1 DEF ReviewLoad, Starts
    <3>2. asked'[r].mine["jobs"] = related["jobs"]
      BY <1>0, <3>1, FieldTypes, ReviewType DEF Asks
    <3> QED
      BY <1>1, <3>1, <3>2 DEF RelateFact, ViewFact
  <2>2. CASE AddWishLoad(r) \/ DeleteWishLoad(r)
    <3>1. CASE Closes(r, "rejected")
      BY <1>0, <3>1, NothingHeld DEF Closes, Ends
    <3>2. ASSUME NEW p \in Candidates, NEW F \in SUBSET Candidates,
                 \/ kind'[r] = "addWish" /\ F = related.favorites \cup {p}
                 \/ kind'[r] = "deleteWish" /\ F = related.favorites \ {p},
                 pc'[r] = "relate", Asks(r, [Blank EXCEPT !.candidate = p, !.mine.favorites = F])
          PROVE  RelateFact(r)' /\ ViewFact(r)'
      <4>1. asked'[r].mine["favorites"] = F /\ asked'[r].candidate = p
        <5>1. asked'[r] = [Blank EXCEPT !.candidate = p, !.mine.favorites = F]
          BY <1>0, <3>2 DEF Asks
        <5>2. /\ [Blank EXCEPT !.candidate = p, !.mine.favorites = F].candidate = p
              /\ [Blank EXCEPT !.candidate = p, !.mine.favorites = F].mine.favorites = F
          BY WishType
        <5>3. asked'[r].candidate = p /\ asked'[r].mine.favorites = F
          BY <5>1, <5>2
        <5> QED
          BY <5>3
      <4> QED
        BY <1>1, <3>2, <4>1 DEF RelateFact, ViewFact
    <3> QED
      BY <2>2, <3>1, <3>2, WishLoadFacts
  <2> QED
    BY <2>1, <2>2
<1> QED
  BY <1>0, <1>1, <1>2, RelationsAsWere

LEMMA RelationsSelect ==
  ASSUME CatalogInv, RelationsInv, NEW r \in Requests, RelateSelect(r)
  PROVE  RelationsInv'
<1>0. /\ RelationStep(r) /\ CatalogSteps(r) /\ asked' = [asked EXCEPT ![r] = asked'[r]]
      /\ related \in RelatedRecord /\ asked[r] \in AskedRecord /\ asked \in [Requests -> AskedRecord]
      /\ pc \in [Requests -> Labels]
  BY RelationAsked DEF RelationStep, CatalogSteps, CatalogInv, RelatedShape, ControlInv
<1>1. /\ UNCHANGED <<related, meant, torn, outrun, kind>> /\ pc[r] = "relate" /\ pc'[r] = "relateWrite"
      /\ asked'[r] = [asked[r] EXCEPT !.found = related]
  BY <1>0 DEF RelateSelect, Moves, Asks
<1>2. asked'[r].found = related /\ asked'[r].mine = asked[r].mine /\ asked'[r].candidate = asked[r].candidate
  BY <1>0, <1>1, FoundType
<1>3. RelateFact(r) /\ Keeps(r)' = Keeps(r)
  BY <1>1 DEF RelationsInv, Keeps
<1>4. RelateFact(r)' /\ ViewFact(r)'
  BY <1>1, <1>2, <1>3 DEF RelateFact, ViewFact
<1> QED
  BY <1>0, <1>1, <1>4, RelationsAsWere

(* A write of a relation that outruns those that loaded it.                *)
LEMMA RelationsRewritten ==
  ASSUME CatalogInv, RelationsInv, NEW r \in Requests, RelationStep(r), NEW rel \in {"favorites", "jobs"},
         NEW S, NEW T, related' = [related EXCEPT ![rel] = S], meant' = [meant EXCEPT ![rel] = T],
         Rewrites(r, rel), rel \notin torn' => S = T,
         pc'[r] \notin {"relate", "relateWrite", "insert"}
  PROVE  RelationsInv'
<1>0. /\ CatalogSteps(r) /\ asked' = [asked EXCEPT ![r] = asked'[r]]
      /\ related \in RelatedRecord /\ meant \in RelatedRecord /\ asked \in [Requests -> AskedRecord]
      /\ rel \in RelationNames /\ {"favorites", "jobs", "views"} \subseteq RelationNames
  BY RelationAsked DEF RelationStep, CatalogSteps, CatalogInv, RelatedShape, RelationNames
<1>1. /\ DOMAIN related = RelationNames /\ DOMAIN related' = RelationNames
      /\ \A f \in RelationNames : related'[f] = (IF f = rel THEN S ELSE related[f])
                               /\ meant'[f] = (IF f = rel THEN T ELSE meant[f])
  BY <1>0, RelatedFields
<1>2. torn \subseteq torn'
  BY DEF Rewrites
<1>3. RelationsKept'
  BY <1>1, <1>2 DEF RelationsInv, RelationsKept, Relations
<1>4. ASSUME NEW x \in Requests, x # r PROVE RelateFact(x)' /\ ViewFact(x)'
  <2>1. pc'[x] = pc[x] /\ kind'[x] = kind[x] /\ asked'[x] = asked[x]
    BY <1>0, <1>4, OthersStay DEF CatalogInv
  <2>2. \A f : <<x, f>> \notin outrun' => <<x, f>> \notin outrun
    BY <1>4 DEF Rewrites
  <2>3. Taken("views")' = Taken("views")
    BY <1>0, <1>1 DEF Taken
  <2>4. pc[x] \in {"relate", "relateWrite"} /\ <<x, Keeps(x)>> \notin outrun' => Keeps(x) # rel
    BY <1>4 DEF Rewrites
  <2>5. Keeps(x) \in RelationNames
    BY <1>0 DEF Keeps
  <2> QED
    BY <1>1, <2>1, <2>2, <2>3, <2>4, <2>5, RelateFactKept
<1> QED
  BY <1>3, <1>4, NothingHeld DEF RelationsInv

LEMMA RelationsWrite ==
  ASSUME CatalogInv, RelationsInv, NEW r \in Requests, RelateWrite(r)
  PROVE  RelationsInv'
<1> DEFINE rel == Keeps(r)
           M == asked[r].mine[rel]
           S == (related[rel] \ Surplus(r, rel)) \cup Missing(r, rel)
<1>0. /\ RelationStep(r) /\ CatalogSteps(r) /\ pc[r] = "relateWrite" /\ pc \in [Requests -> Labels]
      /\ related \in RelatedRecord /\ meant \in RelatedRecord /\ kind[r] \in {"addWish", "deleteWish", "review"}
      /\ RelateFact(r) /\ asked' = [asked EXCEPT ![r] = asked'[r]]
  BY RelationAsked, CatalogLabelFacts
     DEF RelateWrite, RelationStep, CatalogSteps, CatalogInv, RelatedShape, ControlInv, RelationsInv
<1>1. /\ rel \in {"favorites", "jobs"} /\ rel \in RelationNames
      /\ kind[r] = "review" <=> rel = "jobs"
  BY <1>0 DEF Keeps, RelationNames
<1>2. ASSUME NEW how \in Ended, Closes(r, how) PROVE pc'[r] \notin {"relate", "relateWrite", "insert"}
  BY <1>0, <1>2 DEF Closes, Ends, Ended
<1>3. CASE Closes(r, "failed") /\ Loads(r) /\ UNCHANGED <<related, torn, meant>>
  <2>1. outrun' \cup ({r} \X Relations) = outrun \cup ({r} \X Relations)
    BY <1>3 DEF Loads
  <2> QED
    BY <1>0, <1>2, <1>3, <2>1, CatalogLabelFacts, NothingHeld, RelationsAsWere
<1>4. CASE /\ related' = [related EXCEPT ![rel] = (@ \ Surplus(r, rel)) \cup Missing(r, rel)]
           /\ Rewrites(r, rel) /\ meant' = Meant(r) /\ Closes(r, "done")
  <2>1. pc'[r] \notin {"relate", "relateWrite", "insert"}
    BY <1>2, <1>4, CatalogLabelFacts
  <2>2. related' = [related EXCEPT ![rel] = S]
    BY <1>4
  <2>3. ASSUME rel \notin torn' PROVE S = M /\ related[rel] = meant[rel] /\ <<r, rel>> \notin outrun
    <3>1. <<r, rel>> \notin outrun /\ rel \notin torn
      BY <1>4, <2>3 DEF Rewrites
    <3>2. asked[r].found[rel] = related[rel]
      BY <1>0, <3>1 DEF RelateFact
    <3>3. S = M
      BY <3>2 DEF Surplus, Missing
    <3>4. related[rel] = meant[rel]
      BY <1>0, <1>1, <3>1, RelatedFields DEF RelationsInv, RelationsKept, Relations
    <3> QED
      BY <3>1, <3>3, <3>4
  <2>4. PICK T : meant' = [meant EXCEPT ![rel] = T] /\ (rel \notin torn' => S = T)
    <3>1. CASE kind[r] = "addWish"
      <4>1. meant' = [meant EXCEPT !["favorites"] = meant["favorites"] \cup {asked[r].candidate}] /\ rel = "favorites"
        BY <1>1, <1>4, <3>1 DEF Meant, Keeps
      <4>2. rel \notin torn' => S = meant["favorites"] \cup {asked[r].candidate}
        BY <1>0, <2>3, <3>1, <4>1 DEF RelateFact
      <4> QED
        BY <4>1, <4>2
    <3>2. CASE kind[r] = "deleteWish"
      <4>1. meant' = [meant EXCEPT !["favorites"] = meant["favorites"] \ {asked[r].candidate}] /\ rel = "favorites"
        BY <1>1, <1>4, <3>2 DEF Meant, Keeps
      <4>2. rel \notin torn' => S = meant["favorites"] \ {asked[r].candidate}
        BY <1>0, <2>3, <3>2, <4>1 DEF RelateFact
      <4> QED
        BY <4>1, <4>2
    <3>3. CASE kind[r] = "review"
      <4>1. meant' = meant /\ rel = "jobs"
        BY <1>1, <1>4, <3>3 DEF Meant, Keeps
      <4>2. meant' = [meant EXCEPT ![rel] = meant[rel]]
        BY <1>0, <4>1, RelatedTypes, FieldTypes DEF RelatedRecord
      <4>3. rel \notin torn' => S = meant[rel]
        BY <1>0, <2>3, <3>3, <4>1 DEF RelateFact
      <4> QED
        BY <4>2, <4>3
    <3> QED
      BY <1>0, <3>1, <3>2, <3>3
  <2>5. Rewrites(r, rel)
    BY <1>4
  <2> HIDE DEF rel, S, M
  <2>6. rel \in {"favorites", "jobs"}
    BY <1>1
  <2> QED
    BY <1>0, <2>1, <2>2, <2>4, <2>5, <2>6, RelationsRewritten
<1> QED
  BY <1>3, <1>4 DEF RelateWrite

LEMMA RelationsPost ==
  ASSUME CatalogInv, RelationsInv, NEW r \in Requests, PostJob(r)
  PROVE  RelationsInv'
<1>0. RelationStep(r) /\ pc \in [Requests -> Labels] /\ related \in RelatedRecord
  BY DEF RelationStep, CatalogInv, ControlInv, RelatedShape
<1>1. /\ related' = [related EXCEPT !["jobs"] = related["jobs"] \cup {r}]
      /\ meant' = [meant EXCEPT !["jobs"] = meant["jobs"] \cup {r}]
      /\ Rewrites(r, "jobs")
  BY DEF PostJob
<1>2. pc'[r] \notin {"relate", "relateWrite", "insert"}
  BY <1>0 DEF PostJob, Closes, Ends
<1>3. "jobs" \notin torn' => related["jobs"] = meant["jobs"]
  BY <1>0, <1>1, RelatedFields DEF Rewrites, RelationsInv, RelationsKept, Relations, RelationNames
<1> QED
  BY <1>0, <1>1, <1>2, <1>3, RelationsRewritten

(* A row goes into a table that nobody holds, or out of it.                *)
LEMMA RelationsInserted ==
  ASSUME CatalogInv, RelationsInv, NEW r \in Requests, RelationStep(r), NEW t \in {"wishes", "views", "tags"},
         NEW S, NEW T, related' = [related EXCEPT ![t] = S], meant' = [meant EXCEPT ![t] = T],
         torn \subseteq torn', outrun \subseteq outrun', t \notin torn' => S = T,
         pc'[r] \notin {"relate", "relateWrite", "insert"},
         \A x \in Requests \ {r} :
           pc[x] = "insert" /\ kind[x] = "createRecentJob" /\ <<x, "views">> \notin outrun'
             => asked[x].keys \cap Taken("views")' \subseteq Taken("views")
  PROVE  RelationsInv'
<1>0. /\ CatalogSteps(r) /\ asked' = [asked EXCEPT ![r] = asked'[r]]
      /\ related \in RelatedRecord /\ meant \in RelatedRecord /\ asked \in [Requests -> AskedRecord]
      /\ t \in RelationNames /\ {"favorites", "jobs"} \subseteq RelationNames
  BY RelationAsked DEF RelationStep, CatalogSteps, CatalogInv, RelatedShape, RelationNames
<1>1. /\ DOMAIN related = RelationNames /\ DOMAIN related' = RelationNames
      /\ \A f \in RelationNames : related'[f] = (IF f = t THEN S ELSE related[f])
                               /\ meant'[f] = (IF f = t THEN T ELSE meant[f])
  BY <1>0, RelatedFields
<1>2. RelationsKept'
  BY <1>1 DEF RelationsInv, RelationsKept, Relations
<1>3. ASSUME NEW x \in Requests, x # r PROVE RelateFact(x)' /\ ViewFact(x)'
  <2>1. pc'[x] = pc[x] /\ kind'[x] = kind[x] /\ asked'[x] = asked[x]
    BY <1>0, <1>3, OthersStay DEF CatalogInv
  <2>2. Keeps(x) \in {"favorites", "jobs"}
    BY DEF Keeps
  <2>3. related'[Keeps(x)] = related[Keeps(x)]
    BY <1>0, <1>1, <2>2
  <2> QED
    BY <1>3, <2>1, <2>3, RelateFactKept
<1> QED
  BY <1>2, <1>3, NothingHeld DEF RelationsInv

LEMMA RelationsInsertView ==
  ASSUME CatalogInv, RelationsInv, NEW r \in Requests, InsertRows(r), kind[r] = "createRecentJob"
  PROVE  RelationsInv'
<1> DEFINE S == related["views"] \cup (asked[r].keys \X {r})
           T == {v \in meant["views"] : v[1] \notin asked[r].keys} \cup (asked[r].keys \X {r})
<1>0. /\ RelationStep(r) /\ pc \in [Requests -> Labels] /\ related \in RelatedRecord /\ pc[r] = "insert"
      /\ \A x \in Requests : AskedFact(x)
  BY DEF RelationStep, CatalogInv, ControlInv, RelatedShape, InsertRows
<1>1. /\ related' = [related EXCEPT !["views"] = S]
      /\ meant' = [meant EXCEPT !["views"] = T]
      /\ outrun' = outrun \cup {<<x, "views">> : x \in {y \in Requests \ {r} : asked[y].keys = asked[r].keys}}
      /\ torn' = torn \cup (IF <<r, "views">> \in outrun THEN {"views"} ELSE {})
      /\ Closes(r, "done")
  BY DEF InsertRows, InsertView
<1>2. pc'[r] \notin {"relate", "relateWrite", "insert"}
  BY <1>0, <1>1 DEF Closes, Ends
<1>3. "views" \notin torn' => S = T
  <2>1. SUFFICES ASSUME "views" \notin torn' PROVE S = T
    OBVIOUS
  <2>2. <<r, "views">> \notin outrun /\ "views" \notin torn
    BY <1>1, <2>1
  <2>3. related["views"] = meant["views"]
    BY <1>0, <2>2, RelatedFields DEF RelationsInv, RelationsKept, Relations, RelationNames
  <2>4. asked[r].keys \cap {v[1] : v \in related.views} = {}
    BY <1>0, <2>2 DEF RelationsInv, ViewFact, Taken
  <2>5. \A v \in meant["views"] : v[1] \notin asked[r].keys
    BY <2>3, <2>4
  <2> QED
    BY <2>3, <2>5
<1>4. Taken("views")' = {v[1] : v \in S}
  <2>1. related'["views"] = S
    BY <1>0, <1>1, RelatedFields DEF RelationNames
  <2> QED
    BY <2>1 DEF Taken
<1>5. ASSUME NEW x \in Requests \ {r}, pc[x] = "insert", kind[x] = "createRecentJob", <<x, "views">> \notin outrun'
      PROVE  asked[x].keys \cap Taken("views")' \subseteq Taken("views")
  <2>1. asked[x].keys # asked[r].keys
    BY <1>1, <1>5
  <2>2. PICK p \in Candidates, q \in Candidates : asked[x].keys = {p} /\ asked[r].keys = {q}
    BY <1>0, <1>5, KeysType DEF AskedFact
  <2>3. \A v \in S : v \in related["views"] \/ v[1] = q
    BY <2>2
  <2> QED
    BY <1>4, <2>1, <2>2, <2>3 DEF Taken
<1> HIDE DEF S, T
<1>6. torn \subseteq torn' /\ outrun \subseteq outrun'
  BY <1>1
<1> QED
  BY <1>0, <1>1, <1>2, <1>3, <1>5, <1>6, RelationsInserted

(* An insert or a delete that does to the rows what was asked for.         *)
LEMMA RelationsInsertUnique ==
  ASSUME CatalogInv, RelationsInv, NEW r \in Requests, InsertRows(r), kind[r] # "createRecentJob"
  PROVE  RelationsInv'
<1> DEFINE t == Table(kind[r])
<1>0. /\ RelationStep(r) /\ CatalogSteps(r) /\ pc \in [Requests -> Labels] /\ related \in RelatedRecord
      /\ asked' = [asked EXCEPT ![r] = asked'[r]]
      /\ pc[r] = "insert" /\ kind[r] \in {"createJobWishList", "createTags"} /\ InsertUnique(r, t)
  BY RelationAsked, CatalogLabelFacts
     DEF RelationStep, CatalogSteps, CatalogInv, ControlInv, RelatedShape, InsertRows
<1>1. t \in {"wishes", "tags"} /\ t \in {"wishes", "views", "tags"} /\ t \in RelationNames
  BY <1>0 DEF Table, RelationNames
<1>2. pc'[r] \notin {"relate", "relateWrite", "insert"}
  BY <1>0 DEF InsertUnique, Closes, Ends
<1>3. UNCHANGED <<outrun, torn>>
  BY <1>0 DEF InsertUnique
<1>4. CASE UNCHANGED <<related, meant>>
  BY <1>0, <1>2, <1>3, <1>4, NothingHeld, RelationsAsWere
<1>5. CASE /\ related' = [related EXCEPT ![t] = @ \cup asked[r].keys]
           /\ meant' = [meant EXCEPT ![t] = @ \cup asked[r].keys]
  <2>1. /\ related' = [related EXCEPT ![t] = related[t] \cup asked[r].keys]
        /\ meant' = [meant EXCEPT ![t] = meant[t] \cup asked[r].keys]
    BY <1>5
  <2>2. t \notin torn' => related[t] \cup asked[r].keys = meant[t] \cup asked[r].keys
    BY <1>0, <1>1, <1>3, RelatedFields DEF RelationsInv, RelationsKept, Relations
  <2>3. Taken("views")' = Taken("views")
    <3>1. related'["views"] = related["views"]
      BY <1>0, <1>1, <2>1, RelatedFields DEF RelationNames
    <3> QED
      BY <3>1 DEF Taken
  <2>4. torn \subseteq torn' /\ outrun \subseteq outrun'
    BY <1>3
  <2>5. \A x \in Requests \ {r} : asked[x].keys \cap Taken("views")' \subseteq Taken("views")
    BY <2>3
  <2>6. PICK S, T : /\ related' = [related EXCEPT ![t] = S] /\ meant' = [meant EXCEPT ![t] = T]
                    /\ t \notin torn' => S = T
    BY <2>1, <2>2
  <2> HIDE DEF t
  <2> QED
    BY <1>0, <1>1, <1>2, <2>4, <2>5, <2>6, RelationsInserted
<1> QED
  BY <1>0, <1>4, <1>5 DEF InsertUnique

LEMMA RelationsDelete ==
  ASSUME CatalogInv, RelationsInv, NEW r \in Requests, DeleteJobWishList(r)
  PROVE  RelationsInv'
<1>0. /\ RelationStep(r) /\ pc \in [Requests -> Labels] /\ related \in RelatedRecord /\ UNCHANGED <<outrun, torn>>
  BY DEF RelationStep, CatalogInv, ControlInv, RelatedShape, DeleteJobWishList
<1>1. PICK p \in Candidates : /\ related' = [related EXCEPT !["wishes"] = related["wishes"] \ {p}]
                              /\ meant' = [meant EXCEPT !["wishes"] = meant["wishes"] \ {p}]
  BY DEF DeleteJobWishList
<1>2. pc'[r] \notin {"relate", "relateWrite", "insert"}
  BY <1>0 DEF DeleteJobWishList, Closes, Ends
<1>3. "wishes" \notin torn' => related["wishes"] \ {p} = meant["wishes"] \ {p}
  BY <1>0, RelatedFields DEF RelationsInv, RelationsKept, Relations, RelationNames
<1>4. Taken("views")' = Taken("views")
  <2>1. related'["views"] = related["views"]
    BY <1>0, <1>1, RelatedFields DEF RelationNames
  <2> QED
    BY <2>1 DEF Taken
<1>5. torn \subseteq torn' /\ outrun \subseteq outrun'
  BY <1>0
<1>6. \A x \in Requests \ {r} : asked[x].keys \cap Taken("views")' \subseteq Taken("views")
  BY <1>4
<1>7. PICK S, T : /\ related' = [related EXCEPT !["wishes"] = S] /\ meant' = [meant EXCEPT !["wishes"] = T]
                  /\ "wishes" \notin torn' => S = T
  BY <1>0, <1>1, <1>3
<1>8. "wishes" \in {"wishes", "views", "tags"}
  OBVIOUS
<1> QED
  BY <1>0, <1>2, <1>5, <1>6, <1>7, <1>8, RelationsInserted

(* A handler that looks for the rows it will insert.                       *)
LEMMA RelationsLook ==
  ASSUME CatalogInv, RelationsInv, NEW r \in Requests,
         CreateJobWishList(r) \/ CreateRecentJob(r) \/ CreateTags(r)
  PROVE  RelationsInv'
<1>0. /\ RelationStep(r) /\ CatalogSteps(r) /\ asked' = [asked EXCEPT ![r] = asked'[r]]
      /\ asked \in [Requests -> AskedRecord] /\ pc \in [Requests -> Labels]
      /\ UNCHANGED <<related, meant, torn, outrun>>
  BY RelationAsked
     DEF RelationStep, CatalogSteps, CatalogInv, RelatedShape, ControlInv, CreateJobWishList, CreateRecentJob,
         CreateTags, LookFirst
<1>1. RelateFact(r)' /\ ViewFact(r)'
  <2>1. ASSUME NEW how \in Ended, Closes(r, how) PROVE RelateFact(r)' /\ ViewFact(r)'
    <3>1. pc'[r] \notin {"relate", "relateWrite", "insert"}
      BY <1>0, <2>1 DEF Closes, Ends, Ended
    <3> QED
      BY <3>1, NothingHeld
  <2>2. ASSUME NEW k \in {"createJobWishList", "createRecentJob", "createTags"}, NEW K \in Keys(k),
               kind'[r] = k, pc'[r] = "insert", ~IsThere(Table(k), K), Asks(r, [Blank EXCEPT !.keys = K])
        PROVE  RelateFact(r)' /\ ViewFact(r)'
    <3>1. asked'[r] = [Blank EXCEPT !.keys = K]
      BY <1>0, <2>2 DEF Asks
    <3>2. [Blank EXCEPT !.keys = K].keys = K
      BY KeysType, KeptType
    <3>3. k = "createRecentJob" => K \cap Taken("views")' = {}
      BY <1>0, <2>2 DEF IsThere, Table, Taken
    <3> QED
      BY <2>2, <3>1, <3>2, <3>3 DEF RelateFact, ViewFact
  <2> QED
    BY <2>1, <2>2, LookFirstFacts
<1> QED
  BY <1>0, <1>1, RelationsAsWere

LEMMA RelationsElsewhere ==
  ASSUME CatalogInv, RelationsInv, NEW r \in Requests, CatalogSteps(r), ~RelationStep(r)
  PROVE  RelationsInv'
<1> USE CatalogLabelFacts
<1>0. pc \in [Requests -> Labels] /\ asked \in [Requests -> AskedRecord]
      /\ \A x \in Requests : branches[x] # {} => pc[x] \in Ended \cup {"replacing"}
  BY DEF CatalogInv, ControlInv, RelatedShape
<1>1. CASE CategoryStep(r)
  <2>1. UNCHANGED <<related, meant, torn, outrun>>
    BY <1>1 DEF CategoryStep, CreateCategory, ChildrenFind, ChildrenSave, ChangeFind, ChangeFindParent,
             ChangeSave, RemoveFind, RemoveMany, RemoveDelete, ProfileStart, ProfileCheck, ProfileSave,
             WholeLoad, WholeSelect, WholeUpdate, NothingElse
  <2>2. pc'[r] \notin {"relate", "relateWrite", "insert"}
    <3>1. ASSUME NEW how \in Ended, Closes(r, how) PROVE pc'[r] = how
      BY <1>0, <3>1 DEF Closes, Ends
    <3>2. ASSUME NEW how \in Ended, Ends(r, how) PROVE pc'[r] = how
      BY <1>0, <3>2 DEF Ends
    <3>3. ASSUME NEW k, NEW l, Starts(r, k, l) PROVE pc'[r] = l
      BY <1>0, <3>3 DEF Starts
    <3>4. ASSUME NEW f, NEW l, Moves(r, f, l) PROVE pc'[r] = l
      BY <1>0, <3>4 DEF Moves
    <3>5. CASE CreateCategory(r) \/ ChildrenFind(r) \/ ChildrenSave(r)
      BY <3>1, <3>2, <3>3, <3>5 DEF CreateCategory, ChildrenFind, ChildrenSave, Ended
    <3>6. CASE ChangeFind(r) \/ ChangeFindParent(r)
      BY <3>1, <3>3, <3>4, <3>6 DEF ChangeFind, ChangeFindParent, Ended
    <3>7. CASE ChangeSave(r) \/ RemoveFind(r) \/ RemoveMany(r) \/ RemoveDelete(r)
      BY <3>1, <3>3, <3>4, <3>7 DEF ChangeSave, RemoveFind, RemoveMany, RemoveDelete, Ended
    <3>8. CASE ProfileStart(r) \/ ProfileCheck(r) \/ ProfileSave(r)
      BY <1>0, <3>1, <3>3, <3>4, <3>8 DEF ProfileStart, ProfileCheck, ProfileSave, Ended
    <3>9. CASE WholeLoad(r) \/ WholeSelect(r) \/ WholeUpdate(r)
      BY <3>1, <3>3, <3>4, <3>9 DEF WholeLoad, WholeSelect, WholeUpdate, Ended
    <3> QED
      BY <1>1, <3>5, <3>6, <3>7, <3>8, <3>9 DEF CategoryStep
  <2>3. asked' = [asked EXCEPT ![r] = asked'[r]]
    BY <1>1, CategoryAsked
  <2> QED
    BY <2>1, <2>2, <2>3, NothingHeld, RelationsAsWere
<1>2. CASE ReplaceWebsites(r) \/ DeleteWebsites(r) \/ SaveWebsites(r) \/ BranchFails(r) \/ RemoveWebsite(r)
  <2>1. UNCHANGED <<related, meant, torn, outrun, asked>>
    BY <1>2 DEF ReplaceWebsites, DeleteWebsites, SaveWebsites, BranchFails, RemoveWebsite, BranchEnds,
             BranchIsOver, OthersAlone
  <2>2. pc'[r] \notin {"relate", "relateWrite", "insert"}
    BY <1>0, <1>2
       DEF ReplaceWebsites, DeleteWebsites, SaveWebsites, BranchFails, RemoveWebsite, BranchEnds,
           BranchIsOver, Starts, Ends, Breaks, Stays, handlers, Ended
  <2>3. asked' = [asked EXCEPT ![r] = asked'[r]]
    BY <1>0, <2>1
  <2> QED
    BY <2>1, <2>2, <2>3, NothingHeld, RelationsAsWere
<1> QED
  BY <1>1, <1>2 DEF CatalogSteps, CategoryStep, RelationStep

LEMMA RelationsStep == CatalogInv /\ RelationsInv /\ [Next]_vars => RelationsInv'
<1> SUFFICES ASSUME CatalogInv, RelationsInv, [Next]_vars PROVE RelationsInv'
  OBVIOUS
<1>0. ControlInv
  BY DEF CatalogInv
<1>1. ASSUME NEW r \in Requests, RelationStep(r) PROVE RelationsInv'
  <2>1. CASE InsertRows(r)
    BY <2>1, RelationsInsertView, RelationsInsertUnique
  <2> QED
    BY <1>1, <2>1, RelationsLoad, RelationsSelect, RelationsWrite, RelationsPost, RelationsLook,
       RelationsDelete DEF RelationStep
<1>2. ASSUME NEW r \in Requests, CatalogSteps(r) PROVE RelationsInv'
  BY <1>1, <1>2, RelationsElsewhere
<1>3. ASSUME UNCHANGED <<related, meant, torn, outrun, asked>>,
             NEW S \in SUBSET Requests,
             \A x \in S : pc'[x] = pc[x] /\ kind'[x] = kind[x],
             \A x \in Requests \ S : pc'[x] \notin {"relate", "relateWrite", "insert"}
      PROVE  RelationsInv'
  <2>1. RelationsKept'
    BY <1>3 DEF RelationsInv, RelationsKept, Relations
  <2>2. Taken("views")' = Taken("views")
    BY <1>3 DEF Taken
  <2>3. ASSUME NEW x \in S PROVE RelateFact(x)' /\ ViewFact(x)'
    BY <1>3, <2>2, <2>3, RelateFactKept
  <2> QED
    BY <1>3, <2>1, <2>3, NothingHeld DEF RelationsInv
<1>4. ASSUME NEW r \in Requests, OtherStep(r) PROVE RelationsInv'
  <2>1. UNCHANGED <<related, meant, torn, outrun, asked>>
    BY <1>4 DEF OtherStep, catalogVars, catalogTables, catalogHistory
  <2> DEFINE S == {x \in Requests : pc[x] \in CatalogLabels \/ pc'[x] \in CatalogLabels}
  <2>2. \A x \in S : pc'[x] = pc[x] /\ kind'[x] = kind[x]
    BY <1>0, <1>4, OtherStepControl
  <2>3. \A x \in Requests \ S : pc'[x] \notin {"relate", "relateWrite", "insert"}
    BY DEF CatalogLabels
  <2> QED
    BY <1>3, <2>1, <2>2, <2>3
<1>5. CASE Crash
  <2>1. UNCHANGED <<related, meant, torn, outrun>>
    BY <1>5 DEF Crash, CatalogCrash, catalogTables
  <2>2. \A x \in Requests : pc'[x] \notin {"relate", "relateWrite", "insert"}
    BY <1>5 DEF Crash, Crashes, Live, Ended
  <2>3. RelationsKept'
    BY <2>1 DEF RelationsInv, RelationsKept, Relations
  <2> QED
    BY <2>2, <2>3, NothingHeld DEF RelationsInv
<1>6. CASE UNCHANGED vars \/ UNCHANGED <<handlers, catalogVars, listingVars, rankingVars>>
  <2>1. UNCHANGED <<pc, kind, related, meant, torn, outrun, asked>>
    BY <1>6 DEF vars, handlers, catalogVars, catalogTables, catalogHistory
  <2> QED
    BY <1>3, <2>1
<1> QED
  BY <1>0, <1>2, <1>4, <1>5, <1>6, NextCases

(* What is related to an enterprise, a job and a tag is what the requests  *)
(* that succeeded asked for, although saving an enterprise writes the      *)
(* whole relation it loaded and RecentJobService inserts a view on what it *)
(* read, unless the reading was outrun by another write of that relation.  *)
THEOREM RelationsStayKept == Spec => []RelationsKept
<1>1. Init => RelationsInv
  BY DEF Init, HandlersInit, CatalogInit, RelationsInv, RelationsKept, RelateFact, ViewFact
<1>2. RelationsInv => RelationsKept
  BY DEF RelationsInv
<1> QED
  BY <1>1, <1>2, RelationsStep, CatalogInvariant, PTL DEF Spec
=============================================================================
