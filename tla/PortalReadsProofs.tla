-------------------------- MODULE PortalReadsProofs --------------------------
(***************************************************************************)
(* What Portal tells its readers: the place of an estimate and the pages   *)
(* of a list, on the control of PortalProofs.                              *)
(***************************************************************************)
EXTENDS PortalProofs, SequenceTheorems

-----------------------------------------------------------------------------
(* Ranking                                                                 *)

(* What the sums of an estimate are made of.                               *)
EstimateRecord == [plus : Points \cup {0}, fields : SUBSET Fields, own : Points \cup {0},
                   rank : 0..Cardinality(RankedJobs)]

RankingInv ==
    /\ fields \in [RankedJobs -> SUBSET Fields]
    /\ used \in [RankedJobs -> Points \cup {0}]
    /\ estimate \in [Requests -> EstimateRecord]
    /\ \A r \in Requests : pc[r] \in RankingLabels => estimate[r].plus \in Points

LEMMA PointFacts ==
  /\ \A p \in Points \cup {0} : p \in Nat
  /\ \A p \in Points : p > 0
<1>1. Points \subseteq Nat \ {0}
  BY RankingAssumption
<1> QED
  BY <1>1

(* The cardinality of a set of ranked jobs.                                *)
LEMMA RankedCard ==
  ASSUME NEW S \in SUBSET RankedJobs, NEW R \in SUBSET S
  PROVE  /\ Cardinality(S) \in Nat /\ Cardinality(R) \in Nat
         /\ Cardinality(R) <= Cardinality(S)
  BY RankingAssumption, FS_Subset, FS_CardinalityType

(* One more than some jobs without the subject are not more than all.      *)
LEMMA RankBound ==
  ASSUME NEW S \in SUBSET (RankedJobs \ {Subject})
  PROVE  1 + Cardinality(S) \in 0..Cardinality(RankedJobs)
<1>1. /\ IsFiniteSet(RankedJobs \ {Subject})
      /\ Cardinality(RankedJobs \ {Subject}) = Cardinality(RankedJobs) - 1
  BY RankingAssumption, FS_RemoveElement
<1>2. Cardinality(RankedJobs) \in Nat /\ Cardinality(S) \in Nat
  BY RankingAssumption, RankedCard
<1>3. Cardinality(S) <= Cardinality(RankedJobs \ {Subject})
  BY <1>1, FS_Subset
<1> QED
  BY <1>1, <1>2, <1>3

(* Points that count once or more are not less than those that count once. *)
LEMMA TimesOnceOrMore ==
  ASSUME NEW u \in Nat, NEW n \in Nat
  PROVE  /\ u * n \in Nat
         /\ n >= 1 => u * n >= u
         /\ n = 1 => u * n = u
         /\ n = 0 => u * n = 0
<1>1. u * n \in Nat /\ (n = 1 => u * n = u) /\ (n = 0 => u * n = 0)
  OBVIOUS
<1>2. ASSUME n >= 1 PROVE u * n >= u
  <2>1. n - 1 \in Nat /\ u * n = u * (n - 1) + u
    BY <1>2
  <2>2. u * (n - 1) >= 0
    BY <2>1
  <2> QED
    BY <1>1, <2>1, <2>2
<1> QED
  BY <1>1, <1>2

(* The sum over the categories read counts a job of one of them at least   *)
(* with its points, and where one category was read exactly with them.     *)
LEMMA TotalFacts ==
  ASSUME RankingInv, NEW j \in RankedJobs, NEW C \in SUBSET Fields, NEW c \in C
  PROVE  /\ BoostedTotal(j, C) \in Nat /\ used[j] \in Nat
         /\ c \in fields[j] => BoostedTotal(j, C) >= used[j]
         /\ C = {c} => BoostedTotal(j, C) = IF c \in fields[j] THEN used[j] ELSE 0
<1> DEFINE D == fields[j] \cap C
<1>0. used[j] \in Nat /\ fields[j] \in SUBSET Fields
  <2>1. used[j] \in Points \cup {0} /\ fields[j] \in SUBSET Fields
    BY DEF RankingInv
  <2> QED
    BY <2>1, PointFacts
<1>1. D \in SUBSET Fields /\ IsFiniteSet(D) /\ Cardinality(D) \in Nat
  BY <1>0, RankingAssumption, FS_Subset, FS_CardinalityType
<1>2. BoostedTotal(j, C) = used[j] * Cardinality(D)
  BY DEF BoostedTotal
<1>3. c \in fields[j] => Cardinality(D) >= 1
  BY <1>1, FS_EmptySet
<1>4. ASSUME C = {c} PROVE BoostedTotal(j, C) = IF c \in fields[j] THEN used[j] ELSE 0
  <2>1. Cardinality(D) = IF c \in fields[j] THEN 1 ELSE 0
    <3>1. D = IF c \in fields[j] THEN {c} ELSE {}
      BY <1>4
    <3> QED
      BY <3>1, FS_EmptySet, FS_Singleton
  <2> HIDE DEF D
  <2> QED
    BY <1>0, <1>1, <1>2, <2>1, TimesOnceOrMore
<1> HIDE DEF D
<1> QED
  BY <1>0, <1>1, <1>2, <1>3, <1>4, TimesOnceOrMore

(* The estimate against the place in the list of a category it was read    *)
(* with.                                                                   *)
LEMMA EstimateAgainstPlace ==
  ASSUME RankingInv, NEW e \in EstimateRecord, e.plus \in Points, NEW c \in e.fields
  PROVE  /\ EstimatedRank(e) >= PlaceIn(c, Projected(e))
         /\ (e.fields = {c} /\ Unlisted \subseteq {Subject}) => EstimatedRank(e) = PlaceIn(c, Projected(e))
<1> DEFINE P == Projected(e)
           R == {j \in BoostedOthers(e.fields) : BoostedTotal(j, e.fields) >= P}
           L == {j \in RankedJobs \ (Unlisted \cup {Subject}) : c \in fields[j] /\ used[j] > 0 /\ used[j] >= P}
<1>0. e.fields \in SUBSET Fields /\ P \in Nat /\ P > 0
  <2>1. e.fields \in SUBSET Fields /\ e.own \in Nat /\ e.plus \in Nat /\ e.plus > 0
    BY PointFacts DEF EstimateRecord
  <2> QED
    BY <2>1 DEF Projected
<1>1. EstimatedRank(e) = 1 + Cardinality(R) /\ PlaceIn(c, Projected(e)) = 1 + Cardinality(L)
  BY DEF EstimatedRank, PlaceIn
<1>2. R \in SUBSET RankedJobs /\ L \in SUBSET RankedJobs
  BY DEF BoostedOthers
<1>3. ASSUME NEW j \in L PROVE j \in R
  <2>1. j \in RankedJobs /\ j # Subject /\ c \in fields[j] /\ used[j] > 0 /\ used[j] >= P
    BY <1>3
  <2>2. BoostedTotal(j, e.fields) \in Nat /\ used[j] \in Nat /\ BoostedTotal(j, e.fields) >= used[j]
    BY <1>0, <2>1, TotalFacts
  <2>3. BoostedTotal(j, e.fields) > 0 /\ BoostedTotal(j, e.fields) >= P
    BY <1>0, <2>1, <2>2
  <2> QED
    BY <2>1, <2>3 DEF BoostedOthers
<1>4. ASSUME e.fields = {c}, Unlisted \subseteq {Subject} PROVE R = L
  <2>1. ASSUME NEW j \in R PROVE j \in L
    <3>1. j \in RankedJobs \ {Subject} /\ BoostedTotal(j, e.fields) > 0 /\ BoostedTotal(j, e.fields) >= P
      BY <2>1 DEF BoostedOthers
    <3>2. BoostedTotal(j, e.fields) = IF c \in fields[j] THEN used[j] ELSE 0
      BY <1>0, <1>4, <3>1, TotalFacts
    <3>3. c \in fields[j] /\ used[j] > 0 /\ used[j] >= P
      BY <1>0, <3>1, <3>2
    <3> QED
      BY <1>4, <3>1, <3>3
  <2> QED
    BY <1>3, <2>1
<1>5. L \in SUBSET R
  BY <1>3
<1> HIDE DEF R, L
<1>6. Cardinality(L) <= Cardinality(R) /\ Cardinality(L) \in Nat /\ Cardinality(R) \in Nat
  BY <1>2, <1>5, RankedCard
<1> QED
  BY <1>1, <1>4, <1>6

(* The steps of the other parts: no request enters or leaves an estimate.  *)
LEMMA OutsideEstimates ==
  ASSUME ControlInv, NEW r \in Requests, NEW S \in {CacheLabels, CatalogLabels, ListingLabels}, StepOf(r, S),
         NEW x \in Requests, pc[x] \in RankingLabels \/ pc'[x] \in RankingLabels
  PROVE  pc'[x] = pc[x]
<1>1. S \cap RankingLabels = {} /\ RankingLabels \cap (Ended \cup {"new"}) = {}
  BY DEF CacheLabels, CatalogLabels, ListingLabels, RankingLabels, Ended
<1> QED
  BY <1>1 DEF StepOf, Moved, ControlInv

(* Next by what it does to the estimates.                                  *)
AsideOfEstimates ==
    /\ UNCHANGED rankingVars
    /\ \A x \in Requests : pc'[x] \in RankingLabels => pc[x] = pc'[x]
    /\ \A x \in Requests : pc[x] \in RankingLabels => pc'[x] \in {pc[x], "dead"}

LEMMA EstimateCases ==
  ASSUME ControlInv, [Next]_vars
  PROVE  AsideOfEstimates \/ \E r \in Requests : RankingSteps(r)
<1>1. ASSUME NEW r \in Requests, OtherStep(r), ~RankingSteps(r) PROVE AsideOfEstimates
  <2>1. UNCHANGED rankingVars /\ (StepOf(r, CacheLabels) \/ StepOf(r, ListingLabels))
    BY <1>1, ListingControl DEF OtherStep
  <2> QED
    BY <2>1, OutsideEstimates DEF AsideOfEstimates
<1>2. ASSUME NEW r \in Requests, CatalogSteps(r), UNCHANGED <<cacheVars, listingVars, rankingVars>>
      PROVE  AsideOfEstimates
  BY <1>2, CatalogControl, OutsideEstimates DEF AsideOfEstimates
<1>3. CASE Crash
  <2>1. "dead" \notin RankingLabels
    BY DEF RankingLabels
  <2> QED
    BY <1>3, <2>1 DEF Crash, Crashes, AsideOfEstimates
<1>4. CASE UNCHANGED vars \/ UNCHANGED <<handlers, catalogVars, listingVars, rankingVars>>
  BY <1>4 DEF vars, handlers, AsideOfEstimates
<1> QED
  BY <1>1, <1>2, <1>3, <1>4, NextCases

LEMMA RankingRows ==
  ASSUME ControlInv, RankingInv, NEW r \in Requests, RankingSteps(r)
  PROVE  RankingInv'
<1>0. /\ fields \in [RankedJobs -> SUBSET Fields] /\ used \in [RankedJobs -> Points \cup {0}]
      /\ estimate \in [Requests -> EstimateRecord] /\ estimate[r] \in EstimateRecord
      /\ pc \in [Requests -> Labels] /\ {"ownTotal", "others"} \subseteq RankingLabels
      /\ Ended \cap RankingLabels = {} /\ {"done", "failed"} \subseteq Ended
  BY DEF RankingInv, ControlInv, RankingLabels, Ended
<1>1. ASSUME NEW e \in EstimateRecord, estimate' = [estimate EXCEPT ![r] = e],
             pc' = [pc EXCEPT ![r] = pc'[r]], pc'[r] \in RankingLabels => e.plus \in Points,
             UNCHANGED <<fields, used>>
      PROVE  RankingInv'
  BY <1>0, <1>1 DEF RankingInv
<1>2. ASSUME NEW how \in {"done", "failed"}, Ends(r, how), estimate' = estimate,
             fields' \in [RankedJobs -> SUBSET Fields], used' \in [RankedJobs -> Points \cup {0}]
      PROVE  RankingInv'
  BY <1>0, <1>2 DEF RankingInv, Ends
<1>3. CASE EstimateLoad(r)
  <2>1. PICK p \in Points :
          estimate' = [estimate EXCEPT ![r] = [Unestimated EXCEPT !.plus = p, !.fields = fields[Subject]]]
    BY <1>3 DEF EstimateLoad
  <2> DEFINE e == [Unestimated EXCEPT !.plus = p, !.fields = fields[Subject]]
  <2>2. Cardinality(RankedJobs) \in Nat /\ fields[Subject] \in SUBSET Fields
    BY <1>0, RankingAssumption, FS_CardinalityType
  <2>3. e \in EstimateRecord /\ e.plus = p
    <3>1. 0 \in 0..Cardinality(RankedJobs)
      BY <2>2
    <3> QED
      BY <2>2, <3>1 DEF Unestimated, EstimateRecord
  <2>4. pc' = [pc EXCEPT ![r] = pc'[r]] /\ UNCHANGED <<fields, used>>
    BY <1>0, <1>3 DEF EstimateLoad, Starts
  <2> HIDE DEF e
  <2>5. estimate' = [estimate EXCEPT ![r] = e]
    BY <2>1 DEF e
  <2> QED
    BY <1>1, <2>3, <2>4, <2>5
<1>4. CASE EstimateOwn(r)
  <2> DEFINE e == [estimate[r] EXCEPT !.own = used[Subject]]
  <2>1. used[Subject] \in Points \cup {0}
    BY <1>0, RankingAssumption
  <2>2. e \in EstimateRecord /\ e.plus = estimate[r].plus
    BY <1>0, <2>1 DEF EstimateRecord
  <2>3. estimate' = [estimate EXCEPT ![r] = e]
    BY <1>0, <1>4 DEF EstimateOwn, TotalPointsByJobId
  <2>4. pc[r] = "ownTotal" /\ pc' = [pc EXCEPT ![r] = pc'[r]] /\ UNCHANGED <<fields, used>>
    BY <1>0, <1>4 DEF EstimateOwn, Moves
  <2>5. estimate[r].plus \in Points
    BY <1>0, <2>4 DEF RankingInv
  <2> HIDE DEF e
  <2> QED
    BY <1>1, <2>2, <2>3, <2>4, <2>5
<1>5. CASE EstimateAnswer(r)
  <2>1. CASE Ends(r, "failed") /\ UNCHANGED estimate
    BY <1>0, <1>2, <1>5, <2>1 DEF EstimateAnswer
  <2>2. CASE Ends(r, "done") /\ estimate' = [estimate EXCEPT ![r].rank = EstimatedRank(estimate[r])]
    <3> DEFINE S == {j \in BoostedOthers(estimate[r].fields) :
                        BoostedTotal(j, estimate[r].fields) >= Projected(estimate[r])}
               e == [estimate[r] EXCEPT !.rank = EstimatedRank(estimate[r])]
    <3>1. S \in SUBSET (RankedJobs \ {Subject})
      BY DEF BoostedOthers
    <3>2. EstimatedRank(estimate[r]) = 1 + Cardinality(S)
      BY DEF EstimatedRank
    <3>3. EstimatedRank(estimate[r]) \in 0..Cardinality(RankedJobs)
      <4> HIDE DEF S
      <4> QED
        BY <3>1, <3>2, RankBound
    <3>4. e \in EstimateRecord
      BY <1>0, <3>3 DEF EstimateRecord
    <3>5. estimate' = [estimate EXCEPT ![r] = e]
      BY <1>0, <2>2
    <3>6. pc'[r] \notin RankingLabels /\ pc' = [pc EXCEPT ![r] = pc'[r]] /\ UNCHANGED <<fields, used>>
      BY <1>0, <1>5, <2>2 DEF EstimateAnswer, Ends
    <3> HIDE DEF e, S
    <3> QED
      BY <1>1, <3>4, <3>5, <3>6
  <2> QED
    BY <1>5, <2>1, <2>2 DEF EstimateAnswer
<1>6. CASE BoostOfJob(r) \/ BoostEnds(r)
  <2>1. \E j \in RankedJobs, p \in Points \cup {0} : used' = [used EXCEPT ![j] = p]
    BY <1>6 DEF BoostOfJob, BoostEnds
  <2>2. used' \in [RankedJobs -> Points \cup {0}]
    BY <1>0, <2>1
  <2> QED
    BY <1>0, <1>2, <1>6, <2>2 DEF BoostOfJob, BoostEnds
<1>7. CASE Recategorise(r)
  <2>1. fields' \in [RankedJobs -> SUBSET Fields]
    BY <1>0, <1>7 DEF Recategorise
  <2> QED
    BY <1>0, <1>2, <1>7, <2>1 DEF Recategorise
<1> QED
  BY <1>3, <1>4, <1>5, <1>6, <1>7 DEF RankingSteps

LEMMA RankingInvariant == Spec => []RankingInv
<1>1. Init => RankingInv
  <2> SUFFICES ASSUME Init PROVE RankingInv
    OBVIOUS
  <2>1. Unestimated \in EstimateRecord
    BY RankingAssumption, FS_CardinalityType DEF Unestimated, EstimateRecord
  <2>2. fields \in [RankedJobs -> SUBSET Fields]
    BY DEF Init, RankingInit
  <2>3. /\ used \in [RankedJobs -> Points \cup {0}] /\ estimate \in [Requests -> EstimateRecord]
        /\ pc = [r \in Requests |-> "new"]
    BY <2>1 DEF Init, RankingInit, HandlersInit
  <2> QED
    BY <2>2, <2>3 DEF RankingInv, RankingLabels
<1>2. ControlInv /\ RankingInv /\ [Next]_vars => RankingInv'
  <2> SUFFICES ASSUME ControlInv, RankingInv, [Next]_vars PROVE RankingInv'
    OBVIOUS
  <2>1. CASE AsideOfEstimates
    BY <2>1 DEF AsideOfEstimates, RankingInv, rankingVars
  <2> QED
    BY <2>1, EstimateCases, RankingRows
<1> QED
  BY <1>1, <1>2, ControlInvariant, PTL DEF Spec

(* An estimate is never better than the place the job would take in the    *)
(* list of a category it was read with, and it is that place for a job of  *)
(* one category: what JobService.estimateRankIfBoost answers, whatever is  *)
(* boosted, expires or is moved between its statements.                    *)
THEOREM EstimatesDoNotFlatter == Spec => EstimateNeverFlatters
<1> DEFINE Honest(r) ==
      (pc[r] = "others" /\ pc'[r] = "done" /\ estimate[r].own = used[Subject])
         => \A c \in estimate[r].fields :
               LET taken == PlaceIn(c, Projected(estimate[r]))
               IN  /\ estimate'[r].rank >= taken
                   /\ (estimate[r].fields = {c} /\ Unlisted \subseteq {Subject})
                         => estimate'[r].rank = taken
<1>1. ASSUME ControlInv, RankingInv, [Next]_vars, NEW r \in Requests, pc[r] = "others", pc'[r] = "done"
      PROVE  estimate'[r].rank = EstimatedRank(estimate[r])
  <2>1. "others" \in RankingLabels
    BY DEF RankingLabels
  <2>2. PICK x \in Requests : RankingSteps(x)
    BY <1>1, <2>1, EstimateCases DEF AsideOfEstimates
  <2>3. x = r
    BY <1>1, <2>1, <2>2, RankingControl DEF StepOf, Moved, ControlInv
  <2>4. EstimateAnswer(r)
    BY <1>1, <2>2, <2>3
       DEF RankingSteps, EstimateLoad, EstimateOwn, BoostOfJob, BoostEnds, Recategorise, MayRun, Moves
  <2>5. estimate' = [estimate EXCEPT ![r].rank = EstimatedRank(estimate[r])]
    BY <1>1, <2>4 DEF EstimateAnswer, Ends, ControlInv
  <2> QED
    BY <2>5, <1>1 DEF RankingInv, EstimateRecord
<1>2. ASSUME ControlInv, RankingInv, [Next]_vars, NEW r \in Requests PROVE Honest(r)
  <2>1. SUFFICES ASSUME pc[r] = "others", pc'[r] = "done", NEW c \in estimate[r].fields
                 PROVE  /\ estimate'[r].rank >= PlaceIn(c, Projected(estimate[r]))
                        /\ (estimate[r].fields = {c} /\ Unlisted \subseteq {Subject})
                              => estimate'[r].rank = PlaceIn(c, Projected(estimate[r]))
    OBVIOUS
  <2>2. estimate[r] \in EstimateRecord /\ estimate[r].plus \in Points
    BY <1>2, <2>1 DEF RankingInv, RankingLabels
  <2> QED
    BY <1>1, <1>2, <2>1, <2>2, EstimateAgainstPlace
<1>3. ControlInv /\ RankingInv /\ [Next]_vars => [\A r \in Requests : Honest(r)]_<<handlers, rankingVars>>
  BY <1>2
<1> QED
  BY <1>3, ControlInvariant, RankingInvariant, PTL DEF Spec, EstimateNeverFlatters

-----------------------------------------------------------------------------
(* Listings                                                                *)

(* The rows at both ends of a page.                                        *)
LEMMA PageEnds ==
  ASSUME NEW T \in Nat \ {0}, NEW n \in Nat
  PROVE  /\ n * T \in Nat /\ (n + 1) * T = n * T + T
         /\ \A m \in Nat : m <= n => m * T <= n * T
<1>1. n * T \in Nat /\ (n + 1) * T = n * T + T
  OBVIOUS
<1>2. ASSUME NEW m \in Nat, m <= n PROVE m * T <= n * T
  <2>1. n - m \in Nat /\ n * T = m * T + (n - m) * T
    BY <1>2
  <2>2. (n - m) * T >= 0 /\ m * T \in Nat
    BY <2>1
  <2> QED
    BY <1>1, <2>1, <2>2
<1> QED
  BY <1>1, <1>2

LEMMA PageCounts ==
  ASSUME NEW T \in Nat \ {0}, NEW t \in Nat
  PROVE  /\ (t + T - 1) \div T \in Nat
         /\ t <= ((t + T - 1) \div T) * T
         /\ (t + T - 1) \div T <= t
  OBVIOUS

Seen(Q, x) == \E i \in DOMAIN Q : x \in Q[i]

(* Rows that have a place of their own.                                    *)
AllAlone(S) == \A x \in S : x \in rows /\ Alone(x)

(* A row of S was in the pages so far or comes after them; one of T was in *)
(* one of them at most, and would not come later than there.               *)
Covers(Q, S) == \A x \in S : Seen(Q, x) \/ Rank(x) > Len(Q) * Take
Once(Q, T) ==
    \A x \in T : /\ \A i \in DOMAIN Q : x \in Q[i] => Rank(x) <= i * Take
                 /\ \A i, j \in DOMAIN Q : x \in Q[i] /\ x \in Q[j] => i = j
PagesFact(Q, S, T) == list.paged => Covers(Q, S) /\ Once(Q, T)
AllSeen(w, S) == \A x \in S : Seen(w.pages, x)

Fetched(label) == label = "fill" \/ (label = "count" /\ list.counted # "before")

(* A walk at a label: what it holds, the rows that did not come forward,   *)
(* those that were not put back, and whether nothing was written since it  *)
(* fetched the last page.                                                  *)
WalkAt(label, w, S, T, now) ==
    /\ AllAlone(S) /\ AllAlone(T)
    /\ label = "lookup" => list.cached
    /\ w.page = Len(w.pages) + (IF Fetched(label) THEN 0 ELSE 1)
    /\ PagesFact(w.pages, S, T)
    /\ label = "fetch" /\ list.counted = "before" => \A x \in S : Rank(x) <= w.total
    /\ label = "fill" /\ list.paged /\ w.total <= w.page * Take => AllSeen(w, S)
    /\ Fetched(label) /\ now => w.pages[Len(w.pages)] \in PagesOf(rows, w.page)
    /\ label = "fill" /\ now => w.total = Cardinality(rows)

(* WalkComplete, of the pages.                                             *)
OverAt(w, S, T) ==
    (w.pages # <<>> /\ list.paged /\ list.counted # "never")
       => /\ AllSeen(w, S)
          /\ \A x \in T : \A i, j \in DOMAIN w.pages : x \in w.pages[i] /\ x \in w.pages[j] => i = j

WalkFact(r) ==
    /\ pc[r] \notin ListingLabels \cup Ended => walk[r] = Unasked
    /\ pc[r] \in ListingLabels => WalkAt(pc[r], walk[r], steady[r], still[r], r \in fresh)
    /\ pc[r] = "done" => OverAt(walk[r], steady[r], still[r])

(* What the cache answers is what the statements would, while no row is    *)
(* written.                                                                *)
ShelfFact ==
    \A e \in shelf : e.current => e.rows \in PagesOf(rows, e.page) /\ e.total = Cardinality(rows)

WalkRecord == [page : 1..(MaxRow + 1), pages : Seq(SUBSET (1..MaxRow)), total : 0..MaxRow]
Answer == [page : 1..(MaxRow + 1), rows : SUBSET (1..MaxRow), total : 0..MaxRow, current : BOOLEAN]

ListingShape ==
    /\ rows \subseteq 1..MaxRow /\ place \in [1..MaxRow -> 0..LastPlace]
    /\ \A x \in rows : place[x] >= 1
    /\ list.cached => list.counted = "after"
    /\ shelf \subseteq Answer
    /\ walk \in [Requests -> WalkRecord]
    /\ steady \in [Requests -> SUBSET (1..MaxRow)] /\ still \in [Requests -> SUBSET (1..MaxRow)]

WalkInv == ListingShape /\ ShelfFact /\ \A r \in Requests : WalkFact(r)

(* Rows up to a place.                                                     *)
LEMMA UpToCounts ==
  ASSUME NEW R \in SUBSET (1..MaxRow), NEW p, NEW n
  PROVE  LET B == {y \in R : p[y] <= n}
         IN  /\ IsFiniteSet(B) /\ Cardinality(B) \in Nat /\ Cardinality(B) <= Cardinality(R)
             /\ Cardinality(R) \in 0..MaxRow
<1> DEFINE B == {y \in R : p[y] <= n}
<1>1. IsFiniteSet(1..MaxRow) /\ Cardinality(1..MaxRow) = MaxRow /\ MaxRow \in Nat
  BY ListingsAssumption, FS_Interval
<1>2. IsFiniteSet(R) /\ Cardinality(R) \in Nat /\ Cardinality(R) <= MaxRow
  BY <1>1, FS_Subset, FS_CardinalityType
<1>3. B \in SUBSET R
  OBVIOUS
<1> HIDE DEF B
<1>4. IsFiniteSet(B) /\ Cardinality(B) \in Nat /\ Cardinality(B) <= Cardinality(R)
  BY <1>2, <1>3, FS_Subset, FS_CardinalityType
<1> QED
  BY <1>1, <1>2, <1>4 DEF B

LEMMA RankFacts ==
  ASSUME ListingShape, NEW x
  PROVE  Rank(x) \in Nat /\ Rank(x) <= Cardinality(rows) /\ Cardinality(rows) \in 0..MaxRow
<1>1. rows \in SUBSET (1..MaxRow)
  BY DEF ListingShape
<1> QED
  BY <1>1, UpToCounts DEF Rank, UpTo

(* A row alone at its place adds itself.                                   *)
LEMMA AloneAdds ==
  ASSUME ListingShape, NEW x \in rows, Alone(x), NEW R \in SUBSET rows
  PROVE  /\ place[x] \in 1..LastPlace /\ place[x] - 1 \in 0..LastPlace
         /\ UpTo(R, place[x] - 1) \in Nat
         /\ UpTo(R, place[x]) = IF x \in R THEN UpTo(R, place[x] - 1) + 1 ELSE UpTo(R, place[x] - 1)
<1> DEFINE n == place[x]
           B == {y \in R : place[y] <= n - 1}
           C == {y \in R : place[y] <= n}
<1>1. n \in 1..LastPlace /\ \A y \in rows : place[y] \in Nat
  BY ListingsAssumption DEF ListingShape
<1>2. x \in R => C = B \cup {x} /\ x \notin B
  BY <1>1 DEF Alone
<1>3. x \notin R => C = B
  BY <1>1 DEF Alone
<1>4. IsFiniteSet(B) /\ Cardinality(B) \in Nat
  <2>1. R \in SUBSET (1..MaxRow)
    BY DEF ListingShape
  <2> QED
    BY <2>1, UpToCounts
<1>5. UpTo(R, n - 1) = Cardinality(B) /\ UpTo(R, n) = Cardinality(C)
  BY DEF UpTo
<1>6. n - 1 \in 0..LastPlace
  BY <1>1, ListingsAssumption
<1> HIDE DEF B, C
<1>7. x \in R => Cardinality(C) = Cardinality(B) + 1
  BY <1>2, <1>4, FS_AddElement
<1> QED
  BY <1>1, <1>3, <1>4, <1>5, <1>6, <1>7

(* Such a row is on the page its rank falls on, and on no other.           *)
LEMMA AloneOnPage ==
  ASSUME ListingShape, list.paged, NEW x \in rows, Alone(x), NEW n \in Nat,
         NEW P \in PagesOf(rows, n + 1)
  PROVE  x \in P <=> (Rank(x) > n * Take /\ Rank(x) <= n * Take + Take)
<1> DEFINE m == place[x]
           k == UpTo(rows, m - 1)
           s == n * Take
<1>0. Take \in Nat \ {0} /\ s \in Nat
  BY ListingsAssumption, PageEnds
<1>1. Skip(n + 1) = s
  <2>1. (n + 1) - 1 = n
    OBVIOUS
  <2> QED
    BY <2>1 DEF Skip
<1>2. P \in SUBSET rows /\ \A l \in 0..LastPlace : UpTo(P, l) = Within(n + 1, UpTo(rows, l))
  BY DEF PagesOf
<1>3. m \in 0..LastPlace /\ m - 1 \in 0..LastPlace /\ k \in Nat /\ UpTo(rows, m) = k + 1
  <2>1. rows \in SUBSET rows
    OBVIOUS
  <2> QED
    BY <2>1, AloneAdds
<1>4. Rank(x) = k + 1
  BY <1>3 DEF Rank
<1>5. UpTo(P, m - 1) = Within(n + 1, k) /\ UpTo(P, m) = Within(n + 1, k + 1)
  BY <1>2, <1>3
<1>6. UpTo(P, m - 1) \in Nat
      /\ UpTo(P, m) = IF x \in P THEN UpTo(P, m - 1) + 1 ELSE UpTo(P, m - 1)
  BY <1>2, AloneAdds
<1> HIDE DEF k, s, m
<1>7. x \in P <=> Within(n + 1, k + 1) = Within(n + 1, k) + 1
  BY <1>5, <1>6
<1>8. Within(n + 1, k + 1) = Within(n + 1, k) + 1 <=> (k + 1 > s /\ k + 1 <= s + Take)
  BY <1>0, <1>1, <1>3 DEF Within
<1> QED
  BY <1>4, <1>7, <1>8 DEF s

(* One page more.                                                          *)
LEMMA PageAppended ==
  ASSUME ListingShape, NEW Q \in Seq(SUBSET (1..MaxRow)), NEW S, NEW T, PagesFact(Q, S, T),
         AllAlone(S), AllAlone(T), NEW P \in PagesOf(rows, Len(Q) + 1)
  PROVE  PagesFact(Append(Q, P), S, T)
<1> DEFINE n == Len(Q)
           N == Append(Q, P)
<1>0. Take \in Nat \ {0} /\ n \in Nat /\ n * Take \in Nat /\ (n + 1) * Take = n * Take + Take
  BY ListingsAssumption, PageEnds
<1>1. /\ Len(N) = n + 1 /\ DOMAIN N = 1..(n + 1) /\ DOMAIN Q = 1..n
      /\ N[n + 1] = P /\ \A i \in 1..n : N[i] = Q[i]
  OBVIOUS
<1>2. ASSUME list.paged, NEW x \in rows, Alone(x)
      PROVE  x \in P <=> (Rank(x) > n * Take /\ Rank(x) <= n * Take + Take)
  BY <1>0, <1>2, AloneOnPage
<1> HIDE DEF N
<1>3. ASSUME list.paged, NEW x \in S PROVE Seen(N, x) \/ Rank(x) > Len(N) * Take
  <2>1. x \in rows /\ Alone(x) /\ Rank(x) \in Nat
    BY <1>3, RankFacts DEF AllAlone
  <2>2. Seen(Q, x) \/ Rank(x) > n * Take
    BY <1>3 DEF PagesFact, Covers
  <2>3. Seen(Q, x) => Seen(N, x)
    BY <1>0, <1>1 DEF Seen
  <2>4. x \in P => Seen(N, x)
    BY <1>0, <1>1 DEF Seen
  <2> QED
    BY <1>0, <1>1, <1>2, <1>3, <2>1, <2>2, <2>3, <2>4
<1>4. ASSUME list.paged, NEW x \in T
      PROVE  /\ \A i \in DOMAIN N : x \in N[i] => Rank(x) <= i * Take
             /\ \A i, j \in DOMAIN N : x \in N[i] /\ x \in N[j] => i = j
  <2>1. x \in rows /\ Alone(x) /\ Rank(x) \in Nat
    BY <1>4, RankFacts DEF AllAlone
  <2>2. x \in P => Rank(x) > n * Take /\ Rank(x) <= n * Take + Take
    BY <1>2, <1>4, <2>1
  <2>3. ASSUME NEW i \in 1..n, x \in Q[i] PROVE Rank(x) <= i * Take /\ Rank(x) <= n * Take
    <3>1. Rank(x) <= i * Take /\ i \in Nat /\ i <= n
      BY <1>1, <1>4, <2>3 DEF PagesFact, Once
    <3>2. i * Take <= n * Take /\ i * Take \in Nat
      BY <1>0, <3>1, PageEnds
    <3> QED
      BY <1>0, <2>1, <3>1, <3>2
  <2>4. ASSUME NEW i \in 1..(n + 1), x \in N[i] PROVE Rank(x) <= i * Take
    BY <1>0, <1>1, <2>2, <2>3, <2>4
  <2>5. \A i, j \in 1..n : x \in Q[i] /\ x \in Q[j] => i = j
    BY <1>1, <1>4 DEF PagesFact, Once
  <2>6. \A i \in 1..n : ~(x \in Q[i] /\ x \in P)
    BY <1>0, <2>1, <2>2, <2>3
  <2>7. \A i, j \in 1..(n + 1) : x \in N[i] /\ x \in N[j] => i = j
    BY <1>0, <1>1, <2>5, <2>6
  <2> QED
    BY <1>1, <2>4, <2>7
<1> QED
  BY <1>3, <1>4 DEF PagesFact, Covers, Once, N

(* All rows counted, no page more: what is not seen would come after.      *)
LEMMA PagesOver ==
  ASSUME ListingShape, NEW Q \in Seq(SUBSET (1..MaxRow)), NEW S, NEW T, PagesFact(Q, S, T), list.paged,
         NEW t \in Nat, t <= Len(Q) * Take, \A x \in S : Rank(x) <= t
  PROVE  \A x \in S : Seen(Q, x)
<1>1. Len(Q) * Take \in Nat
  BY ListingsAssumption, PageEnds
<1>2. \A x \in S : Rank(x) \in Nat /\ (Seen(Q, x) \/ Rank(x) > Len(Q) * Take)
  BY RankFacts DEF PagesFact, Covers
<1> QED
  BY <1>1, <1>2

(* The client turns the page or has done.                                  *)
LEMMA TurnsFacts ==
  ASSUME ControlInv, ListingShape, NEW r \in Requests, NEW w \in WalkRecord, Turns(r, w),
         NEW S, NEW T, NEW now, AllAlone(S), AllAlone(T), w.page = Len(w.pages), PagesFact(w.pages, S, T),
         list.paged /\ list.counted # "never" /\ w.total <= w.page * Take => AllSeen(w, S)
  PROVE  \E v \in WalkRecord :
            /\ walk' = [walk EXCEPT ![r] = v]
            /\ \/ pc'[r] \in ListingLabels /\ WalkAt(pc'[r], v, S, T, now)
               \/ pc'[r] = "done" /\ OverAt(v, S, T)
<1>0. /\ Take \in Nat \ {0} /\ MaxRow \in Nat /\ pc \in [Requests -> Labels]
      /\ w.page \in 1..(MaxRow + 1) /\ w.total \in 0..MaxRow
  BY ListingsAssumption DEF ControlInv, WalkRecord
<1>3. /\ PageCount(w.total) \in Nat /\ w.total <= PageCount(w.total) * Take
      /\ PageCount(w.total) <= w.total
  <2>1. w.total \in Nat
    BY <1>0
  <2> HIDE <1>0
  <2>2. Take \in Nat \ {0}
    BY ListingsAssumption
  <2> QED
    BY <2>1, <2>2, PageCounts DEF PageCount
<1>1. CASE list.paged /\ HasNextPage(w.page, w.total)
  <2> DEFINE v == [w EXCEPT !.page = w.page + 1]
  <2>1. w.page < PageCount(w.total) /\ PageCount(w.total) \in Nat /\ PageCount(w.total) <= w.total
    BY <1>1, <1>3 DEF HasNextPage
  <2>2. w.page + 1 \in 1..(MaxRow + 1)
    BY <1>0, <2>1
  <2>3. v \in WalkRecord /\ v.page = w.page + 1 /\ v.pages = w.pages
    BY <2>2 DEF WalkRecord
  <2>4. walk' = [walk EXCEPT ![r] = v] /\ pc'[r] = FirstStep
    BY <1>0, <1>1 DEF Turns, Moves
  <2> HIDE DEF v
  <2>5. FirstStep \in ListingLabels /\ ~Fetched(FirstStep) /\ FirstStep # "fill"
        /\ ~(FirstStep = "fetch" /\ list.counted = "before") /\ (FirstStep = "lookup" => list.cached)
    BY DEF FirstStep, ListingLabels, Fetched
  <2>6. WalkAt(FirstStep, v, S, T, now)
    BY <2>3, <2>5 DEF WalkAt
  <2> QED
    BY <2>3, <2>4, <2>5, <2>6
<1>2. CASE ~(list.paged /\ HasNextPage(w.page, w.total))
  <2>1. ASSUME list.paged PROVE w.total <= w.page * Take
    <3>1. /\ PageCount(w.total) \in Nat /\ w.total <= PageCount(w.total) * Take
      BY <1>3
    <3>2. PageCount(w.total) <= w.page /\ w.page \in Nat
      BY <1>0, <1>2, <2>1, <3>1 DEF HasNextPage
    <3>3. PageCount(w.total) * Take <= w.page * Take /\ w.page * Take \in Nat /\ PageCount(w.total) * Take \in Nat
      BY <1>0, <3>1, <3>2, PageEnds
    <3> QED
      BY <1>0, <3>1, <3>3
  <2>2. pc'[r] = "done" /\ walk' = [walk EXCEPT ![r] = w]
    BY <1>0, <1>2 DEF Turns, Ends
  <2>3. OverAt(w, S, T)
    BY <2>1 DEF OverAt, PagesFact, Once
  <2> QED
    BY <2>2, <2>3
<1> QED
  BY <1>1, <1>2

(* What is said of pages is said of the list they are pages of.            *)
LEMMA SameList ==
  ASSUME UNCHANGED <<list, rows, place>>
  PROVE  /\ \A label, w, S, T, now : WalkAt(label, w, S, T, now) => WalkAt(label, w, S, T, now)'
         /\ \A w, S, T : OverAt(w, S, T) => OverAt(w, S, T)'
         /\ \A P, n : P \in PagesOf(rows, n) => (P \in PagesOf(rows, n))'
         /\ Cardinality(rows)' = Cardinality(rows)
<1>1. \A x : Rank(x)' = Rank(x) /\ (Alone(x) => Alone(x)')
  BY DEF Rank, UpTo, Alone
<1>2. \A P, n : P \in PagesOf(rows, n) => (P \in PagesOf(rows, n))'
  BY DEF PagesOf, UpTo, Within, Skip
<1>3. \A Q, S, T : PagesFact(Q, S, T) => PagesFact(Q, S, T)'
  BY <1>1 DEF PagesFact, Covers, Once, Seen
<1>4. \A S : AllAlone(S) => AllAlone(S)'
  BY <1>1 DEF AllAlone
<1>5. \A label : Fetched(label)' <=> Fetched(label)
  BY DEF Fetched
<1>6. \A w, S : AllSeen(w, S)' <=> AllSeen(w, S)
  BY DEF AllSeen, Seen
<1>7. ASSUME NEW label, NEW w, NEW S, NEW T, NEW now, WalkAt(label, w, S, T, now)
      PROVE  WalkAt(label, w, S, T, now)'
  <2>1. AllAlone(S)' /\ AllAlone(T)' /\ PagesFact(w.pages, S, T)' /\ (Fetched(label)' <=> Fetched(label))
    BY <1>3, <1>4, <1>5, <1>7 DEF WalkAt
  <2>2. (label = "lookup" => list.cached) /\ w.page = Len(w.pages) + (IF Fetched(label)' THEN 0 ELSE 1)
    BY <1>5, <1>7 DEF WalkAt
  <2>3. label = "fetch" /\ list.counted = "before" => \A x \in S : Rank(x)' <= w.total
    BY <1>1, <1>7 DEF WalkAt
  <2>4. label = "fill" /\ list.paged /\ w.total <= w.page * Take => AllSeen(w, S)'
    BY <1>6, <1>7 DEF WalkAt
  <2>5. Fetched(label) /\ now => (w.pages[Len(w.pages)] \in PagesOf(rows, w.page))'
    BY <1>2, <1>7 DEF WalkAt
  <2>6. label = "fill" /\ now => w.total = Cardinality(rows)'
    BY <1>7 DEF WalkAt
  <2> QED
    BY <2>1, <2>2, <2>3, <2>4, <2>5, <2>6 DEF WalkAt
<1>8. \A w, S, T : OverAt(w, S, T) => OverAt(w, S, T)'
  BY <1>6 DEF OverAt
<1> QED
  BY <1>2, <1>7, <1>8

(* What the others hold, when a step leaves the list and them alone.       *)
LEMMA WalkKept ==
  ASSUME NEW x \in Requests, WalkFact(x), UNCHANGED <<list, rows, place>>, pc'[x] = pc[x],
         walk'[x] = walk[x], steady'[x] = steady[x], still'[x] = still[x], x \in fresh' <=> x \in fresh
  PROVE  WalkFact(x)'
<1>1. CASE pc[x] \in ListingLabels
  <2>1. WalkAt(pc[x], walk[x], steady[x], still[x], x \in fresh)'
    BY <1>1, SameList DEF WalkFact
  <2> QED
    BY <1>1, <2>1 DEF WalkFact, ListingLabels, Ended
<1>2. CASE pc[x] = "done"
  <2>1. OverAt(walk[x], steady[x], still[x])'
    BY <1>2, SameList DEF WalkFact
  <2> QED
    BY <1>2, <2>1 DEF WalkFact, ListingLabels, Ended
<1>3. CASE pc[x] \notin ListingLabels /\ pc[x] # "done"
  BY <1>3 DEF WalkFact
<1> QED
  BY <1>1, <1>2, <1>3

LEMMA ShelfKept ==
  ASSUME ShelfFact, UNCHANGED <<list, rows, place>>,
         \A e \in shelf' : e \in shelf \/ (e.current => e.rows \in PagesOf(rows, e.page)
                                                        /\ e.total = Cardinality(rows))
  PROVE  ShelfFact'
<1> SUFFICES ASSUME NEW e \in shelf', e.current
             PROVE  (e.rows \in PagesOf(rows, e.page))' /\ e.total = Cardinality(rows)'
  BY DEF ShelfFact
<1>1. e.rows \in PagesOf(rows, e.page) /\ e.total = Cardinality(rows)
  BY DEF ShelfFact
<1> QED
  BY <1>1, SameList

(* A step of a walk, which leaves the list alone.                          *)
StepOfWalk(r) ==
    /\ UNCHANGED <<list, rows, place>>
    /\ steady' = [steady EXCEPT ![r] = steady'[r]] /\ still' = [still EXCEPT ![r] = still'[r]]
    /\ \A x \in Requests : x # r => (x \in fresh' <=> x \in fresh)
    /\ \E v \in WalkRecord :
          /\ walk' = [walk EXCEPT ![r] = v]
          /\ \/ pc'[r] \in ListingLabels /\ WalkAt(pc'[r], v, steady'[r], still'[r], r \in fresh')
             \/ pc'[r] = "done" /\ OverAt(v, steady'[r], still'[r])

LEMMA StepOfWalkKeeps ==
  ASSUME ControlInv, WalkInv, NEW r \in Requests, ListingSteps(r), StepOfWalk(r),
         shelf' \subseteq Answer,
         steady'[r] \in SUBSET (1..MaxRow), still'[r] \in SUBSET (1..MaxRow),
         \A e \in shelf' : e \in shelf \/ (e.current => e.rows \in PagesOf(rows, e.page)
                                                        /\ e.total = Cardinality(rows))
  PROVE  WalkInv'
<1>0. /\ ListingShape /\ ShelfFact /\ UNCHANGED <<list, rows, place>>
      /\ walk \in [Requests -> WalkRecord]
      /\ steady \in [Requests -> SUBSET (1..MaxRow)] /\ still \in [Requests -> SUBSET (1..MaxRow)]
      /\ steady' = [steady EXCEPT ![r] = steady'[r]] /\ still' = [still EXCEPT ![r] = still'[r]]
  BY DEF WalkInv, ListingShape, StepOfWalk
<1>1. PICK v \in WalkRecord :
        /\ walk' = [walk EXCEPT ![r] = v]
        /\ \/ pc'[r] \in ListingLabels /\ WalkAt(pc'[r], v, steady'[r], still'[r], r \in fresh')
           \/ pc'[r] = "done" /\ OverAt(v, steady'[r], still'[r])
  BY DEF StepOfWalk
<1>2. ListingShape'
  <2>1. steady' \in [Requests -> SUBSET (1..MaxRow)] /\ still' \in [Requests -> SUBSET (1..MaxRow)]
    BY <1>0
  <2>2. walk' \in [Requests -> WalkRecord]
    BY <1>0, <1>1
  <2> QED
    BY <1>0, <2>1, <2>2 DEF ListingShape
<1>3. ShelfFact'
  BY <1>0, ShelfKept
<1>4. WalkFact(r)'
  <2>1. walk'[r] = v
    BY <1>0, <1>1
  <2>2. CASE pc'[r] \in ListingLabels /\ WalkAt(pc'[r], v, steady'[r], still'[r], r \in fresh')
    <3>1. PICK l, S, T, now : /\ l = pc'[r] /\ S = steady'[r] /\ T = still'[r]
                              /\ now = (r \in fresh') /\ WalkAt(l, v, S, T, now)
      BY <2>2
    <3>2. WalkAt(l, v, S, T, now)'
      BY <1>0, <3>1, SameList
    <3>3. WalkAt(pc[r], walk[r], steady[r], still[r], r \in fresh)'
      BY <2>1, <3>1, <3>2
    <3> QED
      BY <2>2, <3>3 DEF WalkFact, ListingLabels, Ended
  <2>3. CASE pc'[r] = "done" /\ OverAt(v, steady'[r], still'[r])
    <3>1. PICK S, T : S = steady'[r] /\ T = still'[r] /\ OverAt(v, S, T)
      BY <2>3
    <3>2. OverAt(v, S, T)'
      BY <1>0, <3>1, SameList
    <3>3. OverAt(walk[r], steady[r], still[r])'
      BY <2>1, <3>1, <3>2
    <3> QED
      BY <2>3, <3>3 DEF WalkFact, ListingLabels, Ended
  <2> QED
    BY <1>1, <2>2, <2>3
<1>5. ASSUME NEW x \in Requests, x # r PROVE WalkFact(x)'
  <2>1. pc'[x] = pc[x]
    BY <1>5, ListingControl DEF StepOf, Moved, ControlInv
  <2>2. walk'[x] = walk[x] /\ steady'[x] = steady[x] /\ still'[x] = still[x] /\ (x \in fresh' <=> x \in fresh)
    BY <1>0, <1>1, <1>5 DEF StepOfWalk
  <2> QED
    BY <1>0, <2>1, <2>2, WalkKept DEF WalkInv
<1> QED
  BY <1>2, <1>3, <1>4, <1>5 DEF WalkInv

LEMMA WalkFacts ==
  ASSUME ControlInv, WalkInv, NEW r \in Requests
  PROVE  /\ pc \in [Requests -> Labels] /\ walk[r] \in WalkRecord
         /\ walk[r].page \in 1..(MaxRow + 1) /\ walk[r].total \in 0..MaxRow
         /\ walk[r].pages \in Seq(SUBSET (1..MaxRow)) /\ Len(walk[r].pages) \in Nat
         /\ steady[r] \in SUBSET (1..MaxRow) /\ still[r] \in SUBSET (1..MaxRow)
         /\ Cardinality(rows) \in 0..MaxRow
         /\ pc[r] \in ListingLabels => WalkAt(pc[r], walk[r], steady[r], still[r], r \in fresh)
<1>1. walk[r] \in WalkRecord
  BY DEF WalkInv, ListingShape
<1>2. Cardinality(rows) \in 0..MaxRow
  BY RankFacts DEF WalkInv
<1> QED
  BY <1>1, <1>2 DEF ControlInv, WalkInv, WalkFact, ListingShape, WalkRecord

LEMMA StartStep ==
  ASSUME ControlInv, WalkInv, NEW r \in Requests, WalkStart(r)
  PROVE  WalkInv'
<1> DEFINE A == {x \in rows : Alone(x)}
<1>0. /\ pc[r] = "new" /\ pc' = [pc EXCEPT ![r] = FirstStep] /\ pc \in [Requests -> Labels]
      /\ UNCHANGED <<list, rows, place, shelf, walk, fresh>>
      /\ steady' = [steady EXCEPT ![r] = A] /\ still' = [still EXCEPT ![r] = A]
      /\ rows \subseteq 1..MaxRow /\ walk \in [Requests -> WalkRecord]
      /\ steady \in [Requests -> SUBSET (1..MaxRow)] /\ still \in [Requests -> SUBSET (1..MaxRow)]
  BY DEF WalkStart, Starts, MayRun, ControlInv, WalkInv, ListingShape
<1>1. /\ steady'[r] = A /\ still'[r] = A /\ pc'[r] = FirstStep /\ A \in SUBSET (1..MaxRow)
      /\ walk[r] = Unasked /\ walk[r] \in WalkRecord
  BY <1>0 DEF WalkInv, WalkFact, ListingLabels, Ended
<1>2. FirstStep \in ListingLabels /\ ~Fetched(FirstStep) /\ FirstStep # "fill"
      /\ ~(FirstStep = "fetch" /\ list.counted = "before") /\ (FirstStep = "lookup" => list.cached)
  BY DEF FirstStep, ListingLabels, Fetched
<1>3. AllAlone(A) /\ \A x \in A : Rank(x) > 0
  <2>1. ASSUME NEW x \in A PROVE Rank(x) > 0
    <3>1. x \in rows /\ Alone(x) /\ rows \in SUBSET rows /\ ListingShape
      BY DEF WalkInv
    <3>2. UpTo(rows, place[x]) = UpTo(rows, place[x] - 1) + 1 /\ UpTo(rows, place[x] - 1) \in Nat
      BY <3>1, AloneAdds
    <3> QED
      BY <3>2 DEF Rank
  <2> QED
    BY <2>1 DEF AllAlone
<1> HIDE DEF A
<1>4. Unasked.page = 1 /\ Unasked.pages = <<>> /\ Len(Unasked.pages) = 0
  BY DEF Unasked
<1>5. PagesFact(<<>>, A, A)
  <2>1. Len(<<>>) * Take = 0 /\ DOMAIN <<>> = {}
    BY ListingsAssumption
  <2> QED
    BY <1>3, <2>1 DEF PagesFact, Covers, Once
<1>6. WalkAt(FirstStep, Unasked, A, A, r \in fresh)
  BY <1>2, <1>3, <1>4, <1>5 DEF WalkAt
<1>7. walk' = [walk EXCEPT ![r] = Unasked]
  BY <1>0, <1>1
<1>8. StepOfWalk(r)
  BY <1>0, <1>1, <1>2, <1>6, <1>7 DEF StepOfWalk
<1> QED
  BY <1>0, <1>1, <1>8, StepOfWalkKeeps DEF ListingSteps, WalkInv, ListingShape

(* A walk turns its page, with what it held kept or given up.              *)
LEMMA TurnStep ==
  ASSUME ControlInv, WalkInv, NEW r \in Requests, ListingSteps(r), NEW w \in WalkRecord, Turns(r, w),
         UNCHANGED <<list, rows, place>>,
         NEW S \in SUBSET (1..MaxRow), NEW T \in SUBSET (1..MaxRow),
         steady' = [steady EXCEPT ![r] = S], still' = [still EXCEPT ![r] = T],
         \A x \in Requests : x # r => (x \in fresh' <=> x \in fresh),
         shelf' \subseteq Answer,
         \A e \in shelf' : e \in shelf \/ (e.current => e.rows \in PagesOf(rows, e.page)
                                                        /\ e.total = Cardinality(rows)),
         AllAlone(S), AllAlone(T), w.page = Len(w.pages), PagesFact(w.pages, S, T),
         list.paged /\ list.counted # "never" /\ w.total <= w.page * Take => AllSeen(w, S)
  PROVE  WalkInv'
<1>0. ListingShape /\ steady'[r] = S /\ still'[r] = T
  BY DEF WalkInv, ListingShape
<1>1. PICK now : now = (r \in fresh')
  OBVIOUS
<1>2. \E v \in WalkRecord :
        /\ walk' = [walk EXCEPT ![r] = v]
        /\ \/ pc'[r] \in ListingLabels /\ WalkAt(pc'[r], v, S, T, now)
           \/ pc'[r] = "done" /\ OverAt(v, S, T)
  BY <1>0, TurnsFacts
<1>3. StepOfWalk(r)
  BY <1>0, <1>1, <1>2 DEF StepOfWalk
<1> QED
  BY <1>0, <1>3, StepOfWalkKeeps

(* A walk goes on to its next statement.                                   *)
LEMMA AwaitStep ==
  ASSUME ControlInv, WalkInv, NEW r \in Requests, ListingSteps(r), NEW w \in WalkRecord,
         NEW l \in ListingLabels, Moves(r, pc[r], l), walk' = [walk EXCEPT ![r] = w],
         UNCHANGED <<list, rows, place, shelf, steady, still>>,
         \A x \in Requests : x # r => (x \in fresh' <=> x \in fresh),
         WalkAt(l, w, steady[r], still[r], r \in fresh')
  PROVE  WalkInv'
<1>0. /\ pc'[r] = l /\ steady'[r] = steady[r] /\ still'[r] = still[r]
      /\ steady \in [Requests -> SUBSET (1..MaxRow)] /\ still \in [Requests -> SUBSET (1..MaxRow)]
      /\ shelf' \subseteq Answer
  BY DEF Moves, ControlInv, WalkInv, ListingShape
<1>1. StepOfWalk(r)
  BY <1>0 DEF StepOfWalk
<1> QED
  BY <1>0, <1>1, StepOfWalkKeeps

LEMMA CachedStep ==
  ASSUME ControlInv, WalkInv, NEW r \in Requests, WalkCached(r)
  PROVE  WalkInv'
<1>0. pc[r] = "lookup" /\ UNCHANGED <<list, rows, place, shelf, fresh>> /\ pc[r] \in ListingLabels
  BY DEF WalkCached, ListingLabels
<1>1. PICK e \in shelf :
        /\ e.page = walk[r].page
        /\ Turns(r, [walk[r] EXCEPT !.pages = Append(@, e.rows), !.total = e.total])
        /\ steady' = IF e.current THEN steady ELSE [steady EXCEPT ![r] = {}]
        /\ still' = IF e.current THEN still ELSE [still EXCEPT ![r] = {}]
  BY DEF WalkCached
<1> DEFINE Q == walk[r].pages
           N == Append(Q, e.rows)
           w == [walk[r] EXCEPT !.pages = N, !.total = e.total]
           S == IF e.current THEN steady[r] ELSE {}
           T == IF e.current THEN still[r] ELSE {}
<1>2. WalkAt("lookup", walk[r], steady[r], still[r], r \in fresh)
  BY <1>0, WalkFacts
<1>3. /\ walk[r].page = Len(Q) + 1 /\ PagesFact(Q, steady[r], still[r])
      /\ AllAlone(steady[r]) /\ AllAlone(still[r])
  BY <1>0, <1>2, WalkFacts DEF WalkAt, Fetched
<1>4. /\ e \in Answer /\ e.rows \in SUBSET (1..MaxRow) /\ e.total \in 0..MaxRow
      /\ e.current => e.rows \in PagesOf(rows, Len(Q) + 1) /\ e.total = Cardinality(rows)
  BY <1>1, <1>3 DEF WalkInv, ListingShape, ShelfFact, Answer
<1>5. N \in Seq(SUBSET (1..MaxRow)) /\ Len(N) = Len(Q) + 1
  BY <1>4, WalkFacts
<1>6. PagesFact(N, S, T) /\ AllAlone(S) /\ AllAlone(T)
  <2>1. CASE e.current
    BY <1>3, <1>4, <2>1, WalkFacts, PageAppended DEF WalkInv
  <2>2. CASE ~e.current
    BY <2>2 DEF PagesFact, Covers, Once, AllAlone
  <2> QED
    BY <2>1, <2>2
<1> HIDE DEF N
<1>7. w \in WalkRecord /\ w.pages = N /\ w.page = walk[r].page /\ w.total = e.total
  BY <1>4, <1>5, WalkFacts DEF WalkRecord
<1>8. Turns(r, w)
  BY <1>1 DEF N
<1>9. /\ S \in SUBSET (1..MaxRow) /\ T \in SUBSET (1..MaxRow)
      /\ steady' = [steady EXCEPT ![r] = S] /\ still' = [still EXCEPT ![r] = T]
  BY <1>1, WalkFacts DEF WalkInv, ListingShape
<1>10. list.paged /\ list.counted # "never" /\ w.total <= w.page * Take => AllSeen(w, S)
  <2> SUFFICES ASSUME list.paged, w.total <= w.page * Take, e.current PROVE AllSeen(w, S)
    BY DEF AllSeen
  <2>1. \A x \in S : Rank(x) <= e.total
    BY <1>4, RankFacts DEF WalkInv
  <2>2. e.total \in Nat /\ e.total <= Len(N) * Take
    BY <1>3, <1>4, <1>5, <1>7
  <2>3. \A x \in S : Seen(N, x)
    BY <1>5, <1>6, <2>1, <2>2, PagesOver DEF WalkInv
  <2> QED
    BY <1>7, <2>3 DEF AllSeen
<1> HIDE DEF w, S, T
<1>11. w.page = Len(w.pages) /\ PagesFact(w.pages, S, T) /\ shelf' \subseteq Answer
  BY <1>0, <1>3, <1>5, <1>6, <1>7 DEF WalkInv, ListingShape
<1> QED
  BY <1>0, <1>6, <1>7, <1>8, <1>9, <1>10, <1>11, TurnStep DEF ListingSteps

LEMMA MissStep ==
  ASSUME ControlInv, WalkInv, NEW r \in Requests, WalkMiss(r)
  PROVE  WalkInv'
<1>0. /\ pc[r] = "lookup" /\ UNCHANGED <<list, rows, place, shelf, walk, fresh, steady, still>>
      /\ Moves(r, pc[r], "fetch") /\ {"lookup", "fetch"} \subseteq ListingLabels
  BY DEF WalkMiss, Moves, listingVars, ListingLabels
<1>1. WalkAt("lookup", walk[r], steady[r], still[r], r \in fresh)
  BY <1>0, WalkFacts
<1>2. list.counted # "before"
  BY <1>1 DEF WalkInv, ListingShape, WalkAt
<1>3. WalkAt("fetch", walk[r], steady[r], still[r], r \in fresh)
  BY <1>1, <1>2 DEF WalkAt, Fetched
<1>4. walk[r] \in WalkRecord /\ walk' = [walk EXCEPT ![r] = walk[r]]
  BY <1>0 DEF WalkInv, ListingShape
<1> QED
  BY <1>0, <1>3, <1>4, AwaitStep DEF ListingSteps

LEMMA FetchStep ==
  ASSUME ControlInv, WalkInv, NEW r \in Requests, WalkFetch(r)
  PROVE  WalkInv'
<1>0. /\ pc[r] = "fetch" /\ UNCHANGED <<list, rows, place, shelf, steady, still>> /\ fresh' = fresh \cup {r}
      /\ {"fetch", "count"} \subseteq ListingLabels /\ shelf \subseteq Answer
  BY DEF WalkFetch, ListingLabels, WalkInv, ListingShape
<1>1. PICK P \in PagesOf(rows, walk[r].page) :
        LET w == [walk[r] EXCEPT !.pages = Append(@, P)]
        IN  IF list.counted = "before" THEN Turns(r, w)
            ELSE Moves(r, "fetch", "count") /\ walk' = [walk EXCEPT ![r] = w]
  BY DEF WalkFetch
<1> DEFINE Q == walk[r].pages
           N == Append(Q, P)
           w == [walk[r] EXCEPT !.pages = N]
           S == steady[r]
           T == still[r]
<1>2. WalkAt("fetch", walk[r], S, T, r \in fresh)
  BY <1>0, WalkFacts
<1>3. walk[r].page = Len(Q) + 1 /\ PagesFact(Q, S, T) /\ AllAlone(S) /\ AllAlone(T)
  BY <1>2, WalkFacts DEF WalkAt, Fetched
<1>4. P \in SUBSET (1..MaxRow) /\ P \in PagesOf(rows, Len(Q) + 1)
  BY <1>1, <1>3 DEF PagesOf, WalkInv, ListingShape
<1>5. N \in Seq(SUBSET (1..MaxRow)) /\ Len(N) = Len(Q) + 1 /\ N[Len(N)] = P
  BY <1>4, WalkFacts
<1>6. PagesFact(N, S, T)
  BY <1>3, <1>4, WalkFacts, PageAppended DEF WalkInv
<1> HIDE DEF N
<1>7. w \in WalkRecord /\ w.pages = N /\ w.page = walk[r].page /\ w.total = walk[r].total
  BY <1>5, WalkFacts DEF WalkRecord
<1>8. IF list.counted = "before" THEN Turns(r, w)
      ELSE Moves(r, "fetch", "count") /\ walk' = [walk EXCEPT ![r] = w]
  BY <1>1 DEF N
<1>9. w.page = Len(w.pages) /\ PagesFact(w.pages, S, T)
  BY <1>3, <1>5, <1>6, <1>7
<1>10. ASSUME list.counted = "before", list.paged, w.total <= w.page * Take PROVE AllSeen(w, S)
  <2>1. \A x \in S : Rank(x) <= w.total
    BY <1>2, <1>7, <1>10 DEF WalkAt
  <2>2. w.total \in Nat /\ w.total <= Len(N) * Take
    BY <1>7, <1>9, <1>10, WalkFacts
  <2>3. \A x \in S : Seen(N, x)
    BY <1>5, <1>6, <1>10, <2>1, <2>2, PagesOver DEF WalkInv
  <2> QED
    BY <1>7, <2>3 DEF AllSeen
<1> HIDE DEF w
<1>11. CASE list.counted = "before"
  <2>1. /\ S \in SUBSET (1..MaxRow) /\ T \in SUBSET (1..MaxRow)
        /\ steady' = [steady EXCEPT ![r] = S] /\ still' = [still EXCEPT ![r] = T]
    BY <1>0, WalkFacts DEF WalkInv, ListingShape
  <2> HIDE DEF S, T
  <2> QED
    BY <1>0, <1>3, <1>7, <1>8, <1>9, <1>10, <1>11, <2>1, TurnStep DEF ListingSteps
<1>12. CASE list.counted # "before"
  <2>1. Moves(r, pc[r], "count") /\ walk' = [walk EXCEPT ![r] = w]
    BY <1>0, <1>8, <1>12
  <2>2. w.pages[Len(w.pages)] \in PagesOf(rows, w.page)
    BY <1>1, <1>5, <1>7
  <2>3. WalkAt("count", w, S, T, r \in fresh')
    BY <1>3, <1>9, <1>12, <2>2 DEF WalkAt, Fetched
  <2> QED
    BY <1>0, <1>7, <2>1, <2>3, AwaitStep DEF ListingSteps
<1> QED
  BY <1>11, <1>12

LEMMA CountStep ==
  ASSUME ControlInv, WalkInv, NEW r \in Requests, WalkCount(r)
  PROVE  WalkInv'
<1>0. /\ pc[r] = "count" /\ UNCHANGED <<list, rows, place, shelf, fresh, steady, still>>
      /\ {"fetch", "count", "fill"} \subseteq ListingLabels /\ shelf \subseteq Answer
  BY DEF WalkCount, ListingLabels, WalkInv, ListingShape
<1> DEFINE t == IF list.counted = "never" THEN 0 ELSE Cardinality(rows)
           w == [walk[r] EXCEPT !.total = t]
           S == steady[r]
           T == still[r]
<1>1. WalkAt("count", walk[r], S, T, r \in fresh)
  BY <1>0, WalkFacts
<1>2. t \in 0..MaxRow /\ (list.counted # "never" => t = Cardinality(rows))
  BY WalkFacts, ListingsAssumption
<1> HIDE DEF t
<1>3. w \in WalkRecord /\ w.pages = walk[r].pages /\ w.page = walk[r].page /\ w.total = t
  BY <1>2, WalkFacts DEF WalkRecord
<1>4. IF list.counted = "before" \/ list.cached
      THEN /\ Moves(r, "count", IF list.cached THEN "fill" ELSE "fetch")
           /\ walk' = [walk EXCEPT ![r] = w]
      ELSE Turns(r, w)
  BY DEF WalkCount, t
<1>5. /\ AllAlone(S) /\ AllAlone(T) /\ PagesFact(w.pages, S, T)
      /\ w.page = Len(w.pages) + (IF list.counted = "before" THEN 1 ELSE 0)
      /\ list.counted # "before" /\ r \in fresh => w.pages[Len(w.pages)] \in PagesOf(rows, w.page)
  BY <1>1, <1>3 DEF WalkAt, Fetched
<1>6. list.counted # "never" => \A x \in S : Rank(x) <= w.total
  BY <1>2, <1>3, RankFacts DEF WalkInv
<1>7. w.page \in Nat /\ w.total \in Nat /\ w.pages \in Seq(SUBSET (1..MaxRow)) /\ Len(w.pages) \in Nat
  BY <1>2, <1>3, WalkFacts
<1> HIDE DEF w
<1>8. list.counted # "before" => w.page = Len(w.pages)
  BY <1>5, <1>7
<1>9. ASSUME list.counted # "before", list.counted # "never", list.paged, w.total <= w.page * Take
      PROVE  AllSeen(w, S)
  <2>1. w.total <= Len(w.pages) * Take
    BY <1>8, <1>9
  <2>2. \A x \in S : Seen(w.pages, x)
    BY <1>5, <1>6, <1>7, <1>9, <2>1, PagesOver DEF WalkInv
  <2> QED
    BY <2>2 DEF AllSeen
<1>10. CASE list.cached
  <2>1. list.counted = "after"
    BY <1>10 DEF WalkInv, ListingShape
  <2>2. Moves(r, pc[r], "fill") /\ walk' = [walk EXCEPT ![r] = w]
    BY <1>0, <1>4, <1>10
  <2>3. WalkAt("fill", w, S, T, r \in fresh')
    BY <1>0, <1>2, <1>3, <1>5, <1>8, <1>9, <2>1 DEF WalkAt, Fetched
  <2> QED
    BY <1>0, <1>3, <2>2, <2>3, AwaitStep DEF ListingSteps
<1>11. CASE ~list.cached /\ list.counted = "before"
  <2>1. Moves(r, pc[r], "fetch") /\ walk' = [walk EXCEPT ![r] = w]
    BY <1>0, <1>4, <1>11
  <2>2. WalkAt("fetch", w, S, T, r \in fresh')
    BY <1>5, <1>6, <1>11 DEF WalkAt, Fetched
  <2> QED
    BY <1>0, <1>3, <2>1, <2>2, AwaitStep DEF ListingSteps
<1>12. CASE ~list.cached /\ list.counted # "before"
  <2>1. /\ S \in SUBSET (1..MaxRow) /\ T \in SUBSET (1..MaxRow)
        /\ steady' = [steady EXCEPT ![r] = S] /\ still' = [still EXCEPT ![r] = T]
    BY <1>0, WalkFacts DEF WalkInv, ListingShape
  <2>2. Turns(r, w)
    BY <1>4, <1>12
  <2> HIDE DEF S, T
  <2> QED
    BY <1>0, <1>3, <1>5, <1>8, <1>9, <1>12, <2>1, <2>2, TurnStep DEF ListingSteps
<1> QED
  BY <1>10, <1>11, <1>12

LEMMA FillStep ==
  ASSUME ControlInv, WalkInv, NEW r \in Requests, WalkFill(r)
  PROVE  WalkInv'
<1> DEFINE w == walk[r]
           S == steady[r]
           T == still[r]
           kept == [page |-> w.page, rows |-> w.pages[Len(w.pages)], total |-> w.total,
                    current |-> r \in fresh]
<1>0. /\ pc[r] = "fill" /\ UNCHANGED <<list, rows, place, fresh, steady, still>> /\ Turns(r, w)
      /\ shelf' = {e \in shelf : e.page # w.page} \cup {kept} /\ shelf \subseteq Answer
  BY DEF WalkFill, WalkInv, ListingShape
<1>1. WalkAt("fill", w, S, T, r \in fresh)
  BY <1>0, WalkFacts DEF ListingLabels
<1>2. w.page = Len(w.pages)
  BY <1>1, WalkFacts DEF WalkAt, Fetched
<1>3. kept \in Answer
  <2>1. Len(w.pages) \in DOMAIN w.pages
    BY <1>2, WalkFacts
  <2>2. w.pages[Len(w.pages)] \in SUBSET (1..MaxRow)
    BY <2>1, WalkFacts
  <2> QED
    BY <2>2, WalkFacts DEF Answer
<1>4. kept.current => kept.rows \in PagesOf(rows, kept.page) /\ kept.total = Cardinality(rows)
  BY <1>1 DEF WalkAt, Fetched
<1>5. AllAlone(S) /\ AllAlone(T) /\ PagesFact(w.pages, S, T)
      /\ (list.paged /\ w.total <= w.page * Take => AllSeen(w, S))
  BY <1>1 DEF WalkAt
<1>6. /\ S \in SUBSET (1..MaxRow) /\ T \in SUBSET (1..MaxRow) /\ w \in WalkRecord
      /\ steady' = [steady EXCEPT ![r] = S] /\ still' = [still EXCEPT ![r] = T]
  BY <1>0, WalkFacts DEF WalkInv, ListingShape
<1> HIDE DEF kept, w, S, T
<1>7. shelf' \subseteq Answer
  BY <1>0, <1>3
<1>8. \A e \in shelf' : e \in shelf \/ (e.current => e.rows \in PagesOf(rows, e.page)
                                                     /\ e.total = Cardinality(rows))
  BY <1>0, <1>4
<1> QED
  BY <1>0, <1>2, <1>5, <1>6, <1>7, <1>8, TurnStep DEF ListingSteps

LEMMA WalksAlive ==
  ASSUME ControlInv, WalkInv, NEW x \in Requests
  PROVE  WalkFact(x) /\ (pc[x] \in ListingLabels => Live(x))
  BY DEF WalkInv, Live, ListingLabels, Ended

(* Rows come in, go or move in the middle of walks.                        *)
LEMMA OutdatesStep ==
  ASSUME ControlInv, WalkInv, NEW r \in Requests, Ends(r, "done"), pc[r] = "new", Outdates,
         rows' \subseteq 1..MaxRow, place' \in [1..MaxRow -> 0..LastPlace], \A x \in rows' : place'[x] >= 1
  PROVE  WalkInv'
<1>0. /\ ListingShape /\ pc' = [pc EXCEPT ![r] = "done"] /\ pc \in [Requests -> Labels]
      /\ UNCHANGED <<list, walk>> /\ fresh' = {} /\ rows' \in SUBSET (1..MaxRow)
      /\ shelf' = {[e EXCEPT !.current = FALSE] : e \in shelf} /\ shelf \subseteq Answer
      /\ steady \in [Requests -> SUBSET (1..MaxRow)] /\ still \in [Requests -> SUBSET (1..MaxRow)]
  BY DEF WalkInv, ListingShape, Ends, ControlInv, Outdates
<1>1. ASSUME NEW x \in Requests, NEW z \in steady'[x]
      PROVE  /\ z \in steady[x] /\ z \in rows' /\ Alone(z)' /\ Rank(z)' >= Rank(z)
             /\ list.counted = "before" => Rank(z)' = Rank(z)
  BY <1>1 DEF Outdates
<1>2. ASSUME NEW x \in Requests, NEW z \in still'[x]
      PROVE  z \in still[x] /\ z \in rows' /\ Alone(z)' /\ Rank(z)' <= Rank(z)
  BY <1>2 DEF Outdates
<1>3. ASSUME NEW z PROVE Rank(z)' \in Nat /\ Rank(z) \in Nat
  <2>1. Rank(z)' \in Nat
    BY <1>0, UpToCounts DEF Rank, UpTo
  <2> QED
    BY <1>0, <2>1, RankFacts
<1>4. steady' \in [Requests -> SUBSET (1..MaxRow)] /\ still' \in [Requests -> SUBSET (1..MaxRow)]
  <2>1. \A x \in Requests : steady'[x] \in SUBSET (1..MaxRow) /\ still'[x] \in SUBSET (1..MaxRow)
    BY <1>0, <1>1, <1>2
  <2>2. steady' = [x \in Requests |-> steady'[x]] /\ still' = [x \in Requests |-> still'[x]]
    BY DEF Outdates
  <2> QED
    BY <2>1, <2>2
<1>5. ListingShape'
  <2>1. shelf' \subseteq Answer
    BY <1>0 DEF Answer
  <2> QED
    BY <1>0, <1>4, <2>1 DEF ListingShape
<1>6. ShelfFact'
  <2>1. \A e \in shelf' : ~e.current
    BY <1>0 DEF Answer
  <2> QED
    BY <2>1 DEF ShelfFact
<1>7. ASSUME NEW x \in Requests, x # r, pc[x] \in ListingLabels
      PROVE  WalkAt(pc[x], walk[x], steady[x], still[x], x \in fresh)'
  <2>0. pc'[x] = pc[x] /\ walk'[x] = walk[x] /\ x \notin fresh'
    BY <1>0, <1>7
  <2> DEFINE w == walk[x]
  <2>1. WalkAt(pc[x], w, steady[x], still[x], x \in fresh)
    BY <1>7, WalkFacts
  <2>2. Len(w.pages) \in Nat /\ Len(w.pages) * Take \in Nat /\ w.total \in Nat /\ w.page \in Nat
        /\ w.pages \in Seq(SUBSET (1..MaxRow))
    BY WalkFacts, ListingsAssumption, PageEnds
  <2>3. AllAlone(steady[x])' /\ AllAlone(still[x])'
    BY <1>1, <1>2 DEF AllAlone
  <2>4. \A l : Fetched(l)' <=> Fetched(l)
    BY <1>0 DEF Fetched
  <2>5. PagesFact(walk[x].pages, steady[x], still[x])'
    <3>1. ASSUME list.paged, NEW z \in steady'[x]
          PROVE  Seen(w.pages, z) \/ Rank(z)' > Len(w.pages) * Take
      <4>1. Seen(w.pages, z) \/ Rank(z) > Len(w.pages) * Take
        BY <1>1, <2>1, <3>1 DEF WalkAt, PagesFact, Covers
      <4> QED
        BY <1>1, <1>3, <2>2, <3>1, <4>1
    <3>2. ASSUME list.paged, NEW z \in still'[x]
          PROVE  /\ \A i \in DOMAIN w.pages : z \in w.pages[i] => Rank(z)' <= i * Take
                 /\ \A i, j \in DOMAIN w.pages : z \in w.pages[i] /\ z \in w.pages[j] => i = j
      <4>1. z \in still[x] /\ Once(w.pages, still[x])
        BY <1>2, <2>1, <3>2 DEF WalkAt, PagesFact
      <4>2. ASSUME NEW i \in DOMAIN w.pages, z \in w.pages[i] PROVE Rank(z)' <= i * Take
        <5>1. Rank(z) <= i * Take /\ Rank(z)' <= Rank(z)
          BY <1>2, <3>2, <4>1, <4>2 DEF Once
        <5>2. i * Take \in Nat
          <6>1. i \in Nat
            BY <2>2
          <6> QED
            BY <6>1, ListingsAssumption, PageEnds
        <5> QED
          BY <1>3, <5>1, <5>2
      <4> QED
        BY <4>1, <4>2 DEF Once
    <3> HIDE DEF w
    <3>3. list'.paged = list.paged /\ walk'[x].pages = w.pages
      BY <1>0, <2>0 DEF w
    <3> QED
      BY <3>1, <3>2, <3>3 DEF PagesFact, Covers, Once, Seen
  <2>6. (pc[x] = "lookup" => list.cached) /\ w.page = Len(w.pages) + (IF Fetched(pc[x]) THEN 0 ELSE 1)
    BY <2>1 DEF WalkAt
  <2>7. pc[x] = "fetch" /\ list.counted = "before" => \A z \in steady'[x] : Rank(z)' <= w.total
    <3> SUFFICES ASSUME pc[x] = "fetch", list.counted = "before", NEW z \in steady'[x]
                 PROVE  Rank(z)' <= w.total
      OBVIOUS
    <3>1. Rank(z) <= w.total
      BY <1>1, <2>1 DEF WalkAt
    <3> QED
      BY <1>1, <3>1
  <2>8. pc[x] = "fill" /\ list.paged /\ w.total <= w.page * Take => AllSeen(walk[x], steady[x])'
    BY <1>1, <2>0, <2>1 DEF WalkAt, AllSeen, Seen
  <2>9. (pc'[x] = "lookup" => list'.cached)
        /\ walk'[x].page = Len(walk'[x].pages) + (IF Fetched(pc[x])' THEN 0 ELSE 1)
    <3>1. Fetched(pc[x])' <=> Fetched(pc[x])
      BY <1>0, <2>0 DEF Fetched
    <3> QED
      BY <1>0, <2>0, <2>6, <3>1
  <2>10. pc'[x] = "fetch" /\ list'.counted = "before" => \A z \in steady'[x] : Rank(z)' <= walk'[x].total
    BY <1>0, <2>0, <2>7
  <2>11. pc'[x] = "fill" /\ list'.paged /\ walk'[x].total <= walk'[x].page * Take
           => AllSeen(walk[x], steady[x])'
    BY <1>0, <2>0, <2>8
  <2> QED
    BY <2>0, <2>3, <2>5, <2>9, <2>10, <2>11 DEF WalkAt
<1>8. ASSUME NEW x \in Requests, x # r, pc[x] = "done"
      PROVE  OverAt(walk[x], steady[x], still[x])'
  <2>1. OverAt(walk[x], steady[x], still[x])
    BY <1>8, WalksAlive DEF WalkFact
  <2> QED
    BY <1>0, <1>1, <1>2, <1>8, <2>1 DEF OverAt, AllSeen, Seen
<1>9. ASSUME NEW x \in Requests PROVE WalkFact(x)'
  <2>1. CASE x = r
    <3>1. pc'[r] = "done" /\ walk'[r].pages = <<>>
      BY <1>0, WalksAlive DEF WalkFact, Unasked, ListingLabels, Ended
    <3> QED
      BY <2>1, <3>1 DEF WalkFact, OverAt, ListingLabels, Ended
  <2>2. CASE x # r
    <3>1. pc'[x] = pc[x] /\ walk'[x] = walk[x]
      BY <1>0, <2>2
    <3> QED
      BY <1>7, <1>8, <2>2, <3>1, WalksAlive DEF WalkFact
  <2> QED
    BY <2>1, <2>2
<1> QED
  BY <1>5, <1>6, <1>9 DEF WalkInv

LEMMA WritersStep ==
  ASSUME ControlInv, WalkInv, NEW r \in Requests, AddRows(r) \/ RemoveRows(r) \/ MoveRows(r)
  PROVE  WalkInv'
<1>0. /\ rows \subseteq 1..MaxRow /\ place \in [1..MaxRow -> 0..LastPlace] /\ \A x \in rows : place[x] >= 1
      /\ Places \subseteq 1..LastPlace
  BY ListingsAssumption DEF WalkInv, ListingShape, Places
<1>1. Ends(r, "done") /\ pc[r] = "new" /\ Outdates
  BY DEF AddRows, RemoveRows, MoveRows, MayRun
<1>2. rows' \subseteq 1..MaxRow /\ place' \in [1..MaxRow -> 0..LastPlace] /\ \A x \in rows' : place'[x] >= 1
  <2>1. CASE AddRows(r)
    BY <1>0, <2>1, ListingsAssumption DEF AddRows
  <2>2. CASE RemoveRows(r)
    BY <1>0, <2>2, ListingsAssumption DEF RemoveRows
  <2>3. CASE MoveRows(r)
    BY <1>0, <2>3, ListingsAssumption DEF MoveRows
  <2> QED
    BY <2>1, <2>2, <2>3
<1> QED
  BY <1>1, <1>2, OutdatesStep

LEMMA ClearStep ==
  ASSUME ControlInv, WalkInv, NEW r \in Requests, ClearList(r)
  PROVE  WalkInv'
<1>0. /\ pc' = [pc EXCEPT ![r] = "done"] /\ pc \in [Requests -> Labels] /\ pc[r] = "new"
      /\ UNCHANGED <<list, rows, place, walk, fresh, steady, still>> /\ shelf' \subseteq shelf
  BY DEF ClearList, MayRun, Ends, ControlInv
<1>1. ListingShape'
  BY <1>0 DEF WalkInv, ListingShape
<1>2. ShelfFact'
  BY <1>0, ShelfKept DEF WalkInv
<1>3. ASSUME NEW x \in Requests PROVE WalkFact(x)'
  <2>1. CASE x = r
    <3>1. pc'[r] = "done" /\ walk'[r].pages = <<>>
      BY <1>0, WalksAlive DEF WalkFact, Unasked, ListingLabels, Ended
    <3> QED
      BY <2>1, <3>1 DEF WalkFact, OverAt, ListingLabels, Ended
  <2>2. CASE x # r
    BY <1>0, <2>2, WalkKept, WalksAlive
  <2> QED
    BY <2>1, <2>2
<1> QED
  BY <1>1, <1>2, <1>3 DEF WalkInv

(* The steps of the other parts: a walk goes on or is cut by a crash, and  *)
(* who ends there never began one.                                         *)
AsideOfWalks ==
    /\ UNCHANGED listingVars
    /\ \A x \in Requests :
         \/ pc'[x] = pc[x]
         \/ pc'[x] = "dead"
         \/ pc[x] \notin ListingLabels \cup Ended /\ pc'[x] \notin ListingLabels

LEMMA WalkCases ==
  ASSUME ControlInv, [Next]_vars
  PROVE  AsideOfWalks \/ \E r \in Requests : ListingSteps(r)
<1>0. ASSUME NEW r \in Requests, NEW S \in {CacheLabels, CatalogLabels, RankingLabels}, StepOf(r, S),
             NEW x \in Requests, pc'[x] # pc[x]
      PROVE  pc[x] \notin ListingLabels \cup Ended /\ pc'[x] \notin ListingLabels
  <2>1. S \cap (ListingLabels \cup Ended) = {} /\ ListingLabels \cap Ended = {} /\ "new" \notin ListingLabels \cup Ended
    BY DEF CacheLabels, CatalogLabels, ListingLabels, RankingLabels, Ended
  <2> QED
    BY <1>0, <2>1 DEF StepOf, Moved, ControlInv
<1>1. ASSUME NEW r \in Requests, OtherStep(r), ~ListingSteps(r) PROVE AsideOfWalks
  <2>1. UNCHANGED listingVars /\ (StepOf(r, CacheLabels) \/ StepOf(r, RankingLabels))
    BY <1>1, RankingControl DEF OtherStep
  <2> QED
    BY <1>0, <2>1 DEF AsideOfWalks
<1>2. ASSUME NEW r \in Requests, CatalogSteps(r), UNCHANGED <<cacheVars, listingVars, rankingVars>>
      PROVE  AsideOfWalks
  <2>1. UNCHANGED listingVars /\ StepOf(r, CatalogLabels)
    BY <1>2, CatalogControl
  <2> QED
    BY <1>0, <2>1 DEF AsideOfWalks
<1>3. CASE Crash
  BY <1>3 DEF Crash, Crashes, AsideOfWalks
<1>4. CASE UNCHANGED vars \/ UNCHANGED <<handlers, catalogVars, listingVars, rankingVars>>
  BY <1>4 DEF vars, handlers, AsideOfWalks
<1> QED
  BY <1>1, <1>2, <1>3, <1>4, NextCases

LEMMA WalkAside == WalkInv /\ AsideOfWalks => WalkInv'
<1> SUFFICES ASSUME WalkInv, AsideOfWalks PROVE WalkInv'
  OBVIOUS
<1>1. UNCHANGED <<list, rows, place, shelf, walk, fresh, steady, still>>
  BY DEF AsideOfWalks, listingVars
<1>2. ListingShape'
  BY <1>1 DEF WalkInv, ListingShape
<1>3. ShelfFact'
  BY <1>1, ShelfKept DEF WalkInv
<1>4. ASSUME NEW x \in Requests PROVE WalkFact(x)'
  <2>0. WalkFact(x) /\ "dead" \in Ended /\ "dead" \notin ListingLabels /\ "done" \notin ListingLabels
    BY DEF WalkInv, Ended, ListingLabels
  <2>1. CASE pc'[x] = pc[x]
    BY <1>1, <2>0, <2>1, WalkKept
  <2>2. CASE pc'[x] = "dead"
    BY <2>0, <2>2 DEF WalkFact
  <2>3. CASE pc[x] \notin ListingLabels \cup Ended /\ pc'[x] \notin ListingLabels
    <3>1. walk'[x] = Unasked /\ walk'[x].pages = <<>>
      BY <1>1, <2>0, <2>3 DEF WalkFact, Unasked
    <3> QED
      BY <2>3, <3>1 DEF WalkFact, OverAt
  <2> QED
    BY <2>1, <2>2, <2>3 DEF AsideOfWalks
<1> QED
  BY <1>2, <1>3, <1>4 DEF WalkInv

LEMMA WalkStep == ControlInv /\ WalkInv /\ [Next]_vars => WalkInv'
<1> SUFFICES ASSUME ControlInv, WalkInv, [Next]_vars PROVE WalkInv'
  OBVIOUS
<1>1. ASSUME NEW r \in Requests, ListingSteps(r) PROVE WalkInv'
  BY <1>1, StartStep, CachedStep, MissStep, FetchStep, CountStep, FillStep, WritersStep, ClearStep
     DEF ListingSteps
<1> QED
  BY <1>1, WalkAside, WalkCases

(* The lists that are kept are counted after the page.                     *)
LEMMA KeptLists ==
  ASSUME NEW l \in Lists
  PROVE  l.cached => l.counted = "after"
<1>1. ASSUME NEW by PROVE Sorted(by).cached = FALSE /\ FromCache(by).counted = "after"
                          /\ HeadOf(by).cached = FALSE
  BY DEF Sorted, FromCache, HeadOf
<1>2. /\ Whole.cached = FALSE /\ GetAllCandidate.cached = FALSE /\ SearchJobs.cached = FALSE
  BY DEF Whole, GetAllCandidate, SearchJobs, Sorted
<1> QED
  BY <1>1, <1>2
     DEF Lists, GetAllUsers, FilterUsers, GetAllCandidatesDashboard, GetAllJobs,
         GetAllJobsOrdered, GetFilterJobs, GetJobWishList, JobsOfEnterprise, FilteredJobs,
         FindAllEnterprises, GetPendingStatusEnterprises, FindPrimaryCategories,
         FindPrimaryCategoriesEnterprise, FindChildren, FindAllTags, FindAllAddresses, FindAllWebsites,
         GetAppliedJobByProfileId, GetNotifications, ListCandidatesApplyJob,
         ListCandidateApplyDashboard, FindAllCategories, FindByName, FindByProfileId,
         FindByEnterpriseId, GetOverviewEnterprises, GetJobHomePage, GetTopAppliedJobs,
         GetJobByIdEnterprise, FindChildrenHomePage, FindParentCategories

LEMMA WalkInvariant == Spec => []WalkInv
<1>1. Init => WalkInv
  <2> SUFFICES ASSUME Init PROVE WalkInv
    OBVIOUS
  <2>1. /\ rows = 1..FirstRows /\ walk = [r \in Requests |-> Unasked] /\ shelf = {}
        /\ steady = [r \in Requests |-> {}] /\ still = [r \in Requests |-> {}]
        /\ pc = [r \in Requests |-> "new"]
    BY DEF Init, HandlersInit, ListingInit
  <2>2. Unasked \in WalkRecord
    <3>1. <<>> \in Seq(SUBSET (1..MaxRow)) /\ 1 \in 1..(MaxRow + 1) /\ 0 \in 0..MaxRow
      BY ListingsAssumption
    <3> QED
      BY <3>1 DEF Unasked, WalkRecord
  <2>3. place \in [1..MaxRow -> 0..LastPlace] /\ \A x \in rows : place[x] >= 1
    <3>1. rows \subseteq 1..MaxRow /\ \A x \in 1..MaxRow : x \in rows => x <= FirstRows
      BY <2>1, ListingsAssumption
    <3>2. CASE place = Together
      <4>1. \A x \in 1..MaxRow : Together[x] = IF x <= FirstRows THEN 1 ELSE 0
        BY DEF Together
      <4>2. place \in [1..MaxRow -> 0..LastPlace]
        BY <3>2, ListingsAssumption DEF Together
      <4> QED
        BY <3>1, <3>2, <4>1, <4>2
    <3>3. CASE place \in FirstPlaces
      BY <3>1, <3>3, ListingsAssumption DEF FirstPlaces
    <3> QED
      BY <3>2, <3>3 DEF Init, ListingInit
  <2>4. list.cached => list.counted = "after"
    <3>1. list \in Lists
      BY DEF Init, ListingInit, Lists
    <3> QED
      BY <3>1, KeptLists
  <2>5. ListingShape
    BY <2>1, <2>2, <2>3, <2>4, ListingsAssumption DEF ListingShape
  <2>6. \A r \in Requests : WalkFact(r)
    BY <2>1 DEF WalkFact, ListingLabels, Ended
  <2> QED
    BY <2>1, <2>5, <2>6 DEF WalkInv, ShelfFact
<1> QED
  BY <1>1, WalkStep, ControlInvariant, PTL DEF Spec

(* How often a row was shown, from whether and where it was.               *)
LEMMA TimesFacts ==
  ASSUME WalkInv, NEW r \in Requests, NEW x
  PROVE  /\ Seen(walk[r].pages, x) => Times(r, x) > 0
         /\ (\A i, j \in DOMAIN walk[r].pages : x \in walk[r].pages[i] /\ x \in walk[r].pages[j] => i = j)
              => Times(r, x) <= 1
<1> DEFINE I == {i \in DOMAIN walk[r].pages : x \in walk[r].pages[i]}
<1>1. Times(r, x) = Cardinality(I)
  BY DEF Times
<1>2. IsFiniteSet(DOMAIN walk[r].pages)
  <2>1. walk[r].pages \in Seq(SUBSET (1..MaxRow))
    BY DEF WalkInv, ListingShape, WalkRecord
  <2>2. DOMAIN walk[r].pages = 1..Len(walk[r].pages) /\ Len(walk[r].pages) \in Nat
    BY <2>1
  <2> QED
    BY <2>2, FS_Interval
<1>3. IsFiniteSet(I) /\ Cardinality(I) \in Nat
  BY <1>2, FS_Subset, FS_CardinalityType
<1>4. Seen(walk[r].pages, x) => I # {}
  BY DEF Seen
<1>5. I # {} => Cardinality(I) > 0
  BY <1>3, FS_EmptySet
<1>6. ASSUME \A i, j \in DOMAIN walk[r].pages : x \in walk[r].pages[i] /\ x \in walk[r].pages[j] => i = j
      PROVE  Cardinality(I) <= 1
  <2>1. I = {} \/ \E i : I = {i}
    BY <1>6
  <2> HIDE DEF I
  <2>2. I = {} => Cardinality(I) = 0
    BY FS_EmptySet
  <2>3. ASSUME NEW i, I = {i} PROVE Cardinality(I) = 1
    BY <2>3, FS_Singleton
  <2> QED
    BY <2>1, <2>2, <2>3
<1> QED
  BY <1>1, <1>4, <1>5, <1>6

(* A client that follows PageMetaDto's hasNextPage is shown every row that *)
(* no write brought forward, and none twice that no write put back, under  *)
(* the conditions WalkComplete names: whatever rows are added, removed and *)
(* moved meanwhile, whatever ties, whatever the cache keeps or loses, for  *)
(* every size of list and page.                                            *)
THEOREM WalksAreComplete == Spec => []WalkComplete
<1>1. WalkInv => WalkComplete
  <2> SUFFICES ASSUME WalkInv, NEW r \in Requests,
                      pc[r] = "done", walk[r].pages # <<>>, list.paged, list.counted # "never"
               PROVE  /\ \A x \in steady[r] : Times(r, x) > 0
                      /\ \A x \in still[r] : Times(r, x) <= 1
    BY DEF WalkComplete
  <2>1. OverAt(walk[r], steady[r], still[r])
    BY DEF WalkInv, WalkFact
  <2>2. /\ \A x \in steady[r] : Seen(walk[r].pages, x)
        /\ \A x \in still[r] : \A i, j \in DOMAIN walk[r].pages :
              x \in walk[r].pages[i] /\ x \in walk[r].pages[j] => i = j
    BY <2>1 DEF OverAt, AllSeen
  <2> QED
    BY <2>2, TimesFacts
<1> QED
  BY <1>1, WalkInvariant, PTL
=============================================================================
