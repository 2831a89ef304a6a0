------------------------------ MODULE Ranking -------------------------------
(***************************************************************************)
(* What JobService.estimateRankIfBoost tells the owner of a job: where the *)
(* job would stand among the boosted ones with some points more, while     *)
(* other jobs are boosted, expire and change their categories.             *)
(***************************************************************************)
EXTENDS Handlers

CONSTANTS
    RankedJobs,
    Subject,    \* the job the estimates are about
    Unlisted,   \* the jobs the list leaves out: past their deadline, or not OPEN
    Fields,     \* categories of jobs
    Points      \* points a boost may use

ASSUME RankingAssumption ==
    /\ IsFiniteSet(RankedJobs) /\ IsFiniteSet(Fields)
    /\ Subject \in RankedJobs /\ Unlisted \subseteq RankedJobs /\ Points \subseteq Nat \ {0}

VARIABLES
    fields,     \* [RankedJobs -> the categories of a job], job_categories
    used,       \* [RankedJobs -> pointsUsed of its row in boosted_jobs, or 0]
    estimate    \* [Requests -> the points asked about, and what was read for it]

rankingVars == <<fields, used, estimate>>

Unestimated == [plus |-> 0, fields |-> {}, own |-> 0, rank |-> 0]

RankingInit ==
    /\ fields \in (IF Takes("estimateRank") THEN [RankedJobs -> SUBSET Fields]
                   ELSE {[j \in RankedJobs |-> {}]})
    /\ used = [j \in RankedJobs |-> 0]
    /\ estimate = [r \in Requests |-> Unestimated]

(* estimateRankIfBoost: the job with its categories, its own points, and   *)
(* then the points of the others.                                          *)
EstimateLoad(r) ==
    /\ MayRun(r, "estimateRank")
    /\ Starts(r, "estimateRank", "ownTotal")
    /\ \E p \in Points :
          estimate' = [estimate EXCEPT ![r] = [Unestimated EXCEPT !.plus = p, !.fields = fields[Subject]]]
    /\ UNCHANGED <<fields, used>>

TotalPointsByJobId(j) == used[j]

EstimateOwn(r) ==
    /\ Moves(r, "ownTotal", "others")
    /\ estimate' = [estimate EXCEPT ![r].own = TotalPointsByJobId(Subject)]
    /\ UNCHANGED <<fields, used>>

Projected(e) == e.own + e.plus

(* The rows are joined with the categories before they are summed: points  *)
(* count once for each category of C the job has.                          *)
BoostedTotal(j, C) == used[j] * Cardinality(fields[j] \cap C)
BoostedOthers(C) == {j \in RankedJobs \ {Subject} : BoostedTotal(j, C) > 0}

(* The sort keeps the order of equals, and the subject comes last in it.   *)
MutEstimatedRank(e) == 1 + Cardinality({j \in BoostedOthers(e.fields) : BoostedTotal(j, e.fields) > Projected(e)})
EstimatedRank(e) == 1 + Cardinality({j \in BoostedOthers(e.fields) : BoostedTotal(j, e.fields) >= Projected(e)})

(* IN () of no categories is an error.                                     *)
EstimateAnswer(r) ==
    /\ pc[r] = "others"
    /\ IF estimate[r].fields = {}
       THEN Ends(r, "failed") /\ UNCHANGED estimate
       ELSE /\ Ends(r, "done")
            /\ estimate' = [estimate EXCEPT ![r].rank = EstimatedRank(estimate[r])]
    /\ UNCHANGED <<fields, used>>

(* BoostJobService.create, the end of a boost and JobService.updateJob, as *)
(* far as an estimate sees them.                                           *)
BoostOfJob(r) ==
    /\ MayRun(r, "boost")
    /\ Ends(r, "done")
    /\ \E j \in RankedJobs, p \in Points :
          used[j] = 0 /\ used' = [used EXCEPT ![j] = p]
    /\ UNCHANGED <<fields, estimate>>

BoostEnds(r) ==
    /\ MayRun(r, "unboost")
    /\ Ends(r, "done")
    /\ \E j \in RankedJobs : used[j] > 0 /\ used' = [used EXCEPT ![j] = 0]
    /\ UNCHANGED <<fields, estimate>>

Recategorise(r) ==
    /\ MayRun(r, "recategorise")
    /\ Ends(r, "done")
    /\ \E j \in RankedJobs, c \in Fields : fields' = [fields EXCEPT ![j] = {c}]
    /\ UNCHANGED <<used, estimate>>

RankingSteps(r) ==
    \/ EstimateLoad(r) \/ EstimateOwn(r) \/ EstimateAnswer(r)
    \/ BoostOfJob(r) \/ BoostEnds(r) \/ Recategorise(r)

-----------------------------------------------------------------------------
RankingTypeOK ==
    /\ \A r \in Requests : estimate[r].rank \in 0..Cardinality(RankedJobs)
    /\ \A r \in Requests : estimate[r].own \in Points \cup {0}

(* The order of the list of jobs: more points first, then earlier boosts;  *)
(* it shows OPEN jobs, and none past its deadline.                         *)
PlaceIn(c, points) ==
    1 + Cardinality({j \in RankedJobs \ (Unlisted \cup {Subject}) :
                        c \in fields[j] /\ used[j] > 0 /\ used[j] >= points})

(* An estimate is never better than the place a job would take, boosted    *)
(* with those points at that moment, in the list of any category it was    *)
(* read with; and it is that place for a job of one category when the list *)
(* leaves out none of the others - unless the job's own boost began or     *)
(* ended meanwhile.                                                        *)
EstimateNeverFlatters ==
    [][\A r \in Requests :
          (pc[r] = "others" /\ pc'[r] = "done" /\ estimate[r].own = used[Subject])
             => \A c \in estimate[r].fields :
                   LET place == PlaceIn(c, Projected(estimate[r]))
                   IN  /\ estimate'[r].rank >= place
                       /\ (estimate[r].fields = {c} /\ Unlisted \subseteq {Subject})
                             => estimate'[r].rank = place]_<<handlers, rankingVars>>
=============================================================================
