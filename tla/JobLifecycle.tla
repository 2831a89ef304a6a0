---------------------------- MODULE JobLifecycle ----------------------------
(***************************************************************************)
(* The jobs an enterprise has posted: what JobService and the job expiry   *)
(* cron do to the rows of "jobs" and to the junction rows that relate a    *)
(* job to its tags, addresses, category and specializations, against the   *)
(* rows of other tables that refer to a job.                               *)
(*                                                                         *)
(* A handler is a sequence of actions, one per round trip that touches     *)
(* shared rows.  Time is counted in days: jobs.deadline is a date.         *)
(***************************************************************************)
EXTENDS Integers, FiniteSets

CONSTANTS
    Jobs, Absent,
    Relations,      \* tags, addresses, specializations a job may be related to
    Updates,        \* calls of updateJob
    Deletes,        \* calls of deleteJob
    Closes,         \* calls of closeJob
    Opens,          \* calls of openJob
    Changes,        \* calls of changeStatus
    Applies,        \* calls of applyJob, each by another candidate
    Crons,          \* expiry cron schedules: one per server process
    Target,         \* [calls -> Jobs], the job each call names
    Choices,        \* sets of relations an update may ask for
    Deadlines,      \* deadlines an update may ask for
    NoDeadline,     \* an update whose payload has none
    Verdicts,       \* statuses a change may ask for
    FirstStatus,    \* status and
    FirstDeadline,  \* deadline of every job at the start
    FirstRelations, \* relations of every job at the start
    Month,          \* days openJob adds to today (30 in the code)
    BatchSize,      \* rows per page of the cron (100 in the code)
    Promoted,       \* bound on the jobs that are boosted
    Visited,        \* bound on the jobs candidates look at
    LastDay,        \* bound on the days that pass
    MaxCrashes      \* bound on process crashes

Requests == Updates \cup Deletes \cup Closes \cup Opens \cup Changes \cup Applies

ASSUME TargetAssumption == Target \in [Requests -> Jobs]
ASSUME RelationsAssumption ==
    Choices \subseteq SUBSET Relations /\ FirstRelations \subseteq Relations
ASSUME DaysAssumption ==
    /\ Deadlines \subseteq Nat /\ NoDeadline \notin Nat
    /\ FirstDeadline \in Nat /\ Month \in Nat /\ LastDay \in Nat
ASSUME BoundsAssumption == BatchSize \in Nat \ {0} /\ MaxCrashes \in Nat
ASSUME KindsAssumption ==
    /\ Updates \cap (Deletes \cup Closes \cup Opens \cup Changes \cup Applies) = {}
    /\ Deletes \cap (Closes \cup Opens \cup Changes \cup Applies) = {}
    /\ Closes \cap (Opens \cup Changes \cup Applies) = {}
    /\ Opens \cap (Changes \cup Applies) = {} /\ Changes \cap Applies = {}
    /\ Crons \cap Requests = {} /\ "boost" \notin Requests \cup Crons

VARIABLES
    input,      \* [deadline, choice : of Updates, verdict : of Changes], fixed
    now,        \* the day
    \* ---- database
    job,        \* [Jobs -> row or Absent]
    rels,       \* [Jobs -> SUBSET Relations], the junction rows
    applied,    \* applications stored, each named by its call
    boosted,    \* jobs with a row in boosted_jobs
    viewed,     \* jobs with a row in jobs_recently
    \* ---- handlers in memory
    pc,         \* [Requests -> label of the next step]
    held,       \* [Updates -> the row it will save, then the plan of the save]
    cron,       \* [Crons -> [pc, offset, found]]
    crashes,
    \* ---- history variables, read by the properties only
    chosen,     \* [Jobs -> the relations of the last update that succeeded]
    forced,     \* jobs whose status an administrator set last
    stale,      \* <<actor, job>>: another actor wrote the job since the actor read it
    torn,       \* jobs written by an actor whose reading of them was stale
    clashed     \* jobs on which two updates overlapped from strip to save

tables == <<job, rels, applied, boosted, viewed>>
history == <<chosen, forced, stale, torn, clashed>>
vars == <<input, now, tables, pc, held, cron, crashes, history>>

-----------------------------------------------------------------------------
Statuses == {"OPEN", "CLOSED", "EXPIRED"}
Columns == {"status", "deadline", "isBoost"}

Days == Deadlines \cup 0..(LastDay + Month) \cup {FirstDeadline}
Row == [status : Statuses, deadline : Days, isBoost : BOOLEAN]

ASSUME StatusAssumption ==
    /\ Verdicts \subseteq Statuses /\ FirstStatus \in Statuses
    /\ FirstStatus = "EXPIRED" => FirstDeadline = 0
ASSUME AbsentAssumption == Absent \notin Row

Exists(j) == job[j] # Absent
Applied(j) == \E a \in applied : Target[a] = j

Ended == {"rejected", "failed", "done", "dead"}
Live(r) == pc[r] \notin Ended \cup {"new"}
Goto(r, label) == pc' = [pc EXCEPT ![r] = label]

(* The actors that have read job j and may still write it.                 *)
Readers(j) ==
    {r \in Requests \ Applies : Live(r) /\ Target[r] = j}
      \cup {c \in Crons : j \in cron[c].found}

(* Actor x writes the jobs J: everyone else's reading of them becomes      *)
(* stale, and a job is torn if x's own was.                                *)
Writes(x, J) ==
    /\ stale' = (stale \ ({x} \X J)) \cup UNION {(Readers(j) \ {x}) \X {j} : j \in J}
    /\ torn' = torn \cup {j \in J : <<x, j>> \in stale}

(* Actor x leaves without a further write.                                 *)
Leaves(x) == stale' = {p \in stale : p[1] # x}

Nothing == [row |-> Absent, cols |-> {}, add |-> {}, remove |-> {}]
Sleeping == [pc |-> "idle", offset |-> 0, found |-> {}]

Init ==
    /\ input \in [deadline : [Updates -> Deadlines \cup {NoDeadline}],
                  choice : [Updates -> Choices],
                  verdict : [Changes -> Verdicts]]
    /\ now = 0
    /\ job = [j \in Jobs |-> [status |-> FirstStatus, deadline |-> FirstDeadline, isBoost |-> FALSE]]
    /\ rels = [j \in Jobs |-> FirstRelations]
    /\ applied = {} /\ boosted = {} /\ viewed = {}
    /\ pc = [r \in Requests |-> "new"]
    /\ held = [u \in Updates |-> Nothing]
    /\ cron = [c \in Crons |-> Sleeping]
    /\ crashes = 0
    /\ chosen = [j \in Jobs |-> FirstRelations]
    /\ forced = {} /\ stale = {} /\ torn = {} /\ clashed = {}

-----------------------------------------------------------------------------
(* JobService.updateJob                                                    *)

(* Mutant: the check for applications is dropped.                          *)
MutAppliedIgnored(j) == TRUE
Unapplied(j) == ~Applied(j)

UpdateCheck(u) ==
    /\ pc[u] = "new"
    /\ Goto(u, IF Unapplied(Target[u]) THEN "checked" ELSE "rejected")
    /\ UNCHANGED <<input, now, tables, held, cron, crashes, history>>

(* Mutant: a closed job is updated like any other.                         *)
MutClosedUpdated(j) == Exists(j)
Updatable(j) == Exists(j) /\ job[j].status # "CLOSED"

(* Mutant: a deadline to come leaves the status as it is.                  *)
MutStaysExpired(u, status) ==
    LET d == input.deadline[u]
    IN  IF d # NoDeadline /\ d < now THEN {"EXPIRED"} ELSE {status}

(* The deadline of the payload is compared with the time of day, the       *)
(* column keeps its date only: a deadline of today may be either.          *)
StatusesFor(u, status) ==
    LET d == input.deadline[u]
    IN  IF d = NoDeadline THEN {status}
        ELSE {s \in {"EXPIRED", "OPEN"} : (d < now => s = "EXPIRED") /\ (d > now => s = "OPEN")}

(* Mutant: the payload brings the default of isBoost with it.              *)
MutUnboosted(u, status) ==
    LET r == job[Target[u]]
    IN  [status |-> status, isBoost |-> FALSE,
         deadline |-> IF input.deadline[u] = NoDeadline THEN r.deadline ELSE input.deadline[u]]
(* Mutant: a payload without a deadline overwrites the one there is.       *)
MutNoDeadline(u, status) ==
    LET r == job[Target[u]]
    IN  [status |-> status, isBoost |-> r.isBoost, deadline |-> input.deadline[u]]
Edited(u, status) ==
    LET r == job[Target[u]]
    IN  [status |-> status, isBoost |-> r.isBoost,
         deadline |-> IF input.deadline[u] = NoDeadline THEN r.deadline ELSE input.deadline[u]]

(* findOne, then the checks of the payload and the reads of the entities   *)
(* it names; an invalid payload is one more way to be rejected here.       *)
UpdateLoad(u) ==
    /\ pc[u] = "checked"
    /\ \/ /\ Updatable(Target[u])
          /\ \E s \in StatusesFor(u, job[Target[u]].status) :
               held' = [held EXCEPT ![u] = [Nothing EXCEPT !.row = Edited(u, s)]]
          /\ Goto(u, "loaded")
          /\ UNCHANGED stale
       \/ /\ Goto(u, "rejected")
          /\ Leaves(u)
          /\ UNCHANGED held
    /\ UNCHANGED <<input, now, tables, cron, crashes, chosen, forced, torn, clashed>>

(* removeJobRelates: one transaction over the four junction tables.        *)
(* Mutant: it forgets one of them.                                         *)
MutStripSome(j) == [rels EXCEPT ![j] = @ \ {CHOOSE t \in Relations : TRUE}]
Stripped(j) == [rels EXCEPT ![j] = {}]

BetweenStripAndSave(u) == pc[u] \in {"stripped", "diffed", "inserting"}

UpdateStrip(u) ==
    LET j == Target[u] IN
    /\ pc[u] = "loaded"
    /\ rels' = Stripped(j)
    /\ Goto(u, "stripped")
    /\ Writes(u, {j})
    /\ clashed' = clashed \cup
                  {i \in {j} : \E x \in Updates : Target[x] = i /\ BetweenStripAndSave(x)}
    /\ UNCHANGED <<input, now, job, applied, boosted, viewed, held, cron, crashes, chosen, forced>>

(* save: its SELECT, which fixes the columns and the junction rows the     *)
(* transaction will write.  A row that is gone will be inserted.           *)
ChangedColumns(r, db) == {c \in Columns : r[c] # db[c]}

SaveSelect(u) ==
    LET j == Target[u]
        r == held[u].row
    IN  /\ pc[u] = "stripped"
        /\ held' = [held EXCEPT ![u] =
               [row |-> r,
                cols |-> IF Exists(j) THEN ChangedColumns(r, job[j]) ELSE Columns,
                add |-> input.choice[u] \ rels[j],
                remove |-> rels[j] \ input.choice[u]]]
        /\ Goto(u, IF Exists(j) THEN "diffed" ELSE "inserting")
        /\ UNCHANGED <<input, now, tables, cron, crashes, history>>

(* The constraints of the transaction: the primary key of the row and of   *)
(* the junction rows, and their foreign key.                               *)
SaveCommits(u) ==
    LET j == Target[u]
    IN  \/ pc[u] = "inserting" /\ ~Exists(j)
        \/ pc[u] = "diffed" /\ Exists(j) /\ held[u].add \cap rels[j] = {}
        \/ pc[u] = "diffed" /\ ~Exists(j) /\ held[u].add = {}

Saved(u) ==
    LET j == Target[u]
        h == held[u]
    IN  IF Exists(j) THEN [c \in Columns |-> IF c \in h.cols THEN h.row[c] ELSE job[j][c]]
        ELSE IF pc[u] = "inserting" THEN h.row
        ELSE Absent

(* save: its transaction.  The embedding and the caches that follow leave  *)
(* the rows alone.                                                         *)
SaveWrite(u) ==
    LET j == Target[u] IN
    /\ pc[u] \in {"diffed", "inserting"}
    /\ SaveCommits(u)
    /\ job' = [job EXCEPT ![j] = Saved(u)]
    /\ rels' = [rels EXCEPT ![j] = (@ \ held[u].remove) \cup held[u].add]
    /\ chosen' = [chosen EXCEPT ![j] = input.choice[u]]
    /\ forced' = IF input.deadline[u] = NoDeadline THEN forced ELSE forced \ {j}
    /\ held' = [held EXCEPT ![u] = Nothing]
    /\ Goto(u, "done")
    /\ Writes(u, {j})
    /\ UNCHANGED <<input, now, applied, boosted, viewed, cron, crashes, clashed>>

SaveFails(u) ==
    /\ pc[u] \in {"diffed", "inserting"}
    /\ ~SaveCommits(u)
    /\ held' = [held EXCEPT ![u] = Nothing]
    /\ Goto(u, "failed")
    /\ Leaves(u)
    /\ UNCHANGED <<input, now, tables, cron, crashes, chosen, forced, torn, clashed>>

-----------------------------------------------------------------------------
(* JobService.deleteJob                                                    *)

DeleteCheck(d) ==
    /\ pc[d] = "new"
    /\ Goto(d, IF Exists(Target[d]) /\ Unapplied(Target[d]) THEN "loaded" ELSE "rejected")
    /\ UNCHANGED <<input, now, tables, held, cron, crashes, history>>

DeleteStrip(d) ==
    /\ pc[d] = "loaded"
    /\ rels' = Stripped(Target[d])
    /\ Goto(d, "stripped")
    /\ Writes(d, {Target[d]})
    /\ UNCHANGED <<input, now, job, applied, boosted, viewed, held, cron, crashes,
                   chosen, forced, clashed>>

(* The rows whose foreign key to jobs has no ON DELETE.                    *)
(* Mutant: applications go with their job.                                 *)
MutCascade(j) == j \in boosted \cup viewed
Referenced(j) == Applied(j) \/ j \in boosted \cup viewed

DeleteRow(d) ==
    LET j == Target[d] IN
    /\ pc[d] = "stripped"
    /\ \/ /\ Referenced(j)
          /\ Goto(d, "failed")
          /\ Leaves(d)
          /\ UNCHANGED <<job, rels, torn>>
       \/ /\ ~Referenced(j)
          /\ job' = [job EXCEPT ![j] = Absent]
          /\ rels' = [rels EXCEPT ![j] = {}]
          /\ Goto(d, "done")
          /\ Writes(d, {j})
    /\ UNCHANGED <<input, now, applied, boosted, viewed, held, cron, crashes,
                   chosen, forced, clashed>>

-----------------------------------------------------------------------------
(* closeJob, openJob and changeStatus: one read, one UPDATE by id          *)

(* changeStatus selects no column of the job itself, so whether the status *)
(* it compares with the payload is there is left open.                     *)
Accepts(r, status) ==
    \/ r \in Closes /\ status # "CLOSED"
    \/ r \in Opens /\ status # "OPEN"
    \/ r \in Changes

Refuses(r, status) ==
    \/ r \in Closes /\ status = "CLOSED"
    \/ r \in Opens /\ status = "OPEN"
    \/ r \in Changes

StatusLoad(r) ==
    LET j == Target[r] IN
    /\ r \in Closes \cup Opens \cup Changes
    /\ pc[r] = "new"
    /\ \/ Exists(j) /\ Accepts(r, job[j].status) /\ Goto(r, "loaded")
       \/ (Exists(j) => Refuses(r, job[j].status)) /\ Goto(r, "rejected")
    /\ UNCHANGED <<input, now, tables, held, cron, crashes, history>>

StatusSet(r) ==
    LET old == job[Target[r]]
    IN  CASE r \in Closes -> [old EXCEPT !.status = "CLOSED", !.deadline = now]
          [] r \in Opens -> [old EXCEPT !.status = "OPEN", !.deadline = now + Month]
          [] r \in Changes -> [old EXCEPT !.status = input.verdict[r]]

StatusWrite(r) ==
    LET j == Target[r] IN
    /\ r \in Closes \cup Opens \cup Changes
    /\ pc[r] = "loaded"
    /\ job' = IF Exists(j) THEN [job EXCEPT ![j] = StatusSet(r)] ELSE job
    /\ forced' = IF r \in Changes THEN forced \cup {j} ELSE forced \ {j}
    /\ Goto(r, "done")
    /\ Writes(r, {j})
    /\ UNCHANGED <<input, now, rels, applied, boosted, viewed, held, cron, crashes,
                   chosen, clashed>>

-----------------------------------------------------------------------------
(* Other writers of rows that refer to a job                               *)

(* applyJob reads the job, whatever its status, and inserts.               *)
ApplyLoad(a) ==
    /\ pc[a] = "new"
    /\ Goto(a, IF Exists(Target[a]) THEN "loaded" ELSE "rejected")
    /\ UNCHANGED <<input, now, tables, held, cron, crashes, history>>

ApplyInsert(a) ==
    /\ pc[a] = "loaded"
    /\ IF Exists(Target[a])
         THEN applied' = applied \cup {a} /\ Goto(a, "done") /\ Writes(a, {Target[a]})
         ELSE Goto(a, "failed") /\ UNCHANGED <<applied, stale, torn>>
    /\ UNCHANGED <<input, now, job, rels, boosted, viewed, held, cron, crashes,
                   chosen, forced, clashed>>

(* BoostJobService.create and the boost cron, as seen from here: the flag  *)
(* and the row in one step (BoostPoints has their steps).                  *)
Boost(j) ==
    /\ j \in Promoted
    /\ Exists(j) /\ job[j].status = "OPEN" /\ j \notin boosted
    /\ job' = [job EXCEPT ![j].isBoost = TRUE]
    /\ boosted' = boosted \cup {j}
    /\ Writes("boost", {j})
    /\ UNCHANGED <<input, now, rels, applied, viewed, pc, held, cron, crashes,
                   chosen, forced, clashed>>

BoostEnds(j) ==
    /\ j \in boosted
    /\ job' = [job EXCEPT ![j].isBoost = FALSE]
    /\ boosted' = boosted \ {j}
    /\ Writes("boost", {j})
    /\ UNCHANGED <<input, now, rels, applied, viewed, pc, held, cron, crashes,
                   chosen, forced, clashed>>

(* createRecentJob: a candidate has looked at the job.                     *)
View(j) ==
    /\ j \in Visited
    /\ Exists(j)
    /\ viewed' = viewed \cup {j}
    /\ UNCHANGED <<input, now, job, rels, applied, boosted, pc, held, cron, crashes, history>>

-----------------------------------------------------------------------------
(* JobCronService.handleCronJob                                            *)

CronStart(c) ==
    /\ cron[c].pc = "idle"
    /\ cron' = [cron EXCEPT ![c].pc = "fetch"]
    /\ UNCHANGED <<input, now, tables, pc, held, crashes, history>>

(* batchExpiredJobs: a closed job is fetched as well.                      *)
DueJobs == {j \in Jobs : Exists(j) /\ job[j].status # "EXPIRED" /\ job[j].deadline < now}

PageSize(offset) ==
    LET left == Cardinality(DueJobs) - offset
    IN  IF left < 0 THEN 0 ELSE IF left > BatchSize THEN BatchSize ELSE left

(* The query has skip and take and names no order.                         *)
Page(offset) == {B \in SUBSET DueJobs : Cardinality(B) = PageSize(offset)}

(* Mutant: each page replaces the one before.                              *)
MutLastPage(found, B) == B
Collected(found, B) == found \cup B

(* One page; the loop ends with the first that is not full.                *)
CronFetch(c) ==
    /\ cron[c].pc = "fetch"
    /\ \E B \in Page(cron[c].offset) :
         LET found == Collected(cron[c].found, B)
         IN  cron' = [cron EXCEPT ![c] =
                 IF Cardinality(B) = BatchSize
                   THEN [pc |-> "fetch", offset |-> @.offset + BatchSize, found |-> found]
                 ELSE IF found = {} THEN Sleeping
                 ELSE [pc |-> "expire", offset |-> 0, found |-> found]]
    /\ UNCHANGED <<input, now, tables, pc, held, crashes, history>>

(* updateBulkJobExpired: by id, whatever has become of the jobs.  The      *)
(* embeddings, the queue and the notifications leave the rows alone.       *)
CronExpire(c) ==
    LET J == cron[c].found IN
    /\ cron[c].pc = "expire"
    /\ job' = [j \in Jobs |-> IF j \in J /\ Exists(j) THEN [job[j] EXCEPT !.status = "EXPIRED"]
                              ELSE job[j]]
    /\ forced' = forced \ J
    /\ cron' = [cron EXCEPT ![c] = Sleeping]
    /\ Writes(c, J)
    /\ UNCHANGED <<input, now, rels, applied, boosted, viewed, pc, held, crashes,
                   chosen, clashed>>

-----------------------------------------------------------------------------
Tick ==
    /\ now < LastDay
    /\ now' = now + 1
    /\ UNCHANGED <<input, tables, pc, held, cron, crashes, history>>

(* The process ends; everything in memory is lost.                         *)
Crash ==
    /\ crashes < MaxCrashes
    /\ crashes' = crashes + 1
    /\ pc' = [r \in Requests |-> IF Live(r) THEN "dead" ELSE pc[r]]
    /\ held' = [u \in Updates |-> Nothing]
    /\ cron' = [c \in Crons |-> Sleeping]
    /\ stale' = {}
    /\ UNCHANGED <<input, now, tables, chosen, forced, torn, clashed>>

UpdateStep(u) ==
    \/ UpdateCheck(u) \/ UpdateLoad(u) \/ UpdateStrip(u)
    \/ SaveSelect(u) \/ SaveWrite(u) \/ SaveFails(u)
DeleteStep(d) == DeleteCheck(d) \/ DeleteStrip(d) \/ DeleteRow(d)
StatusStep(r) == StatusLoad(r) \/ StatusWrite(r)
ApplyStep(a) == ApplyLoad(a) \/ ApplyInsert(a)
CronStep(c) == CronStart(c) \/ CronFetch(c) \/ CronExpire(c)

Next ==
    \/ \E u \in Updates : UpdateStep(u)
    \/ \E d \in Deletes : DeleteStep(d)
    \/ \E r \in Closes \cup Opens \cup Changes : StatusStep(r)
    \/ \E a \in Applies : ApplyStep(a)
    \/ \E j \in Jobs : Boost(j) \/ BoostEnds(j) \/ View(j)
    \/ \E c \in Crons : CronStep(c)
    \/ Tick
    \/ Crash

Spec == Init /\ [][Next]_vars

(* The cron fires every five hours while the process is up.                *)
FairSpec == Spec /\ \A c \in Crons : WF_vars(CronStep(c))

-----------------------------------------------------------------------------
(* Properties *)

Labels == Ended \cup {"new", "checked", "loaded", "stripped", "diffed", "inserting"}

Plan == [row : Row \cup {Absent}, cols : SUBSET Columns,
         add : SUBSET Relations, remove : SUBSET Relations]

(* Type invariant of every variable.                                       *)
TypeOK ==
    /\ input \in [deadline : [Updates -> Deadlines \cup {NoDeadline}],
                  choice : [Updates -> Choices],
                  verdict : [Changes -> Verdicts]]
    /\ now \in 0..LastDay
    /\ job \in [Jobs -> Row \cup {Absent}]
    /\ rels \in [Jobs -> SUBSET Relations]
    /\ applied \subseteq Applies /\ boosted \subseteq Jobs /\ viewed \subseteq Jobs
    /\ pc \in [Requests -> Labels]
    /\ held \in [Updates -> Plan]
    /\ cron \in [Crons -> [pc : {"idle", "fetch", "expire"}, offset : Nat, found : SUBSET Jobs]]
    /\ crashes \in 0..MaxCrashes
    /\ chosen \in [Jobs -> SUBSET Relations]
    /\ forced \subseteq Jobs /\ torn \subseteq Jobs /\ clashed \subseteq Jobs
    /\ stale \subseteq (Requests \cup Crons) \X Jobs

(* A job is EXPIRED only when its deadline is over, unless an              *)
(* administrator said so, or something wrote the job from an outdated      *)
(* reading of it: the cron, the updates and the reopening of jobs agree on *)
(* what expired means, in whatever order they come.                        *)
ExpiredIsPast ==
    \A j \in Jobs \ (torn \cup forced) :
        Exists(j) /\ job[j].status = "EXPIRED" => job[j].deadline <= now

(* updateJob first removes the relations of the job and then saves it.     *)
(* Unless two updates of the same job overlap in that stretch, a job has   *)
(* exactly the relations its last update asked for, or none because a      *)
(* handler stopped half way: never a part of them or a mixture, whatever   *)
(* else runs, fails or crashes.                                            *)
RelationsWhole ==
    \A j \in Jobs \ clashed : Exists(j) => rels[j] \in {{}, chosen[j]}

(* The flag of a job says whether it has a boosted row, unless something   *)
(* wrote the job from an outdated reading of it: saving the whole row does *)
(* not undo a boost.                                                       *)
FlagAgrees ==
    \A j \in Jobs \ torn : Exists(j) => (job[j].isBoost <=> j \in boosted)

(* An application refers to a job that exists: the check of deleteJob      *)
(* comes long before the deletion.                                         *)
ApplicationsKeepJob == \A a \in applied : Exists(Target[a])

(* Once a candidate has applied, the relations of the job no longer        *)
(* change, except by a handler that checked before the application came.   *)
AppliedKeepsRelations ==
    [][\A j \in Jobs : Applied(j) /\ rels'[j] # rels[j] => j \in torn']_vars

ReopensNow(j) ==
    \E r \in Opens \cup Changes : Target[r] = j /\ pc[r] = "loaded" /\ pc'[r] = "done"

(* A closed job is opened only by openJob or by an administrator, never by *)
(* an update, except from an outdated reading.                             *)
ClosedReopens ==
    [][\A j \in Jobs :
          /\ Exists(j) /\ job[j].status = "CLOSED"
          /\ job'[j] # Absent /\ job'[j].status = "OPEN"
          => ReopensNow(j) \/ j \in torn']_vars

PastDeadline(j) == Exists(j) /\ job[j].status = "OPEN" /\ job[j].deadline < now

(* A job does not stay open past its deadline: some run of the cron finds  *)
(* it, although the pages have no order and rows change between them.      *)
JobsExpire == \A j \in Jobs : PastDeadline(j) ~> ~PastDeadline(j)

ReopenedByAdmin(j) == j \in forced /\ Exists(j) /\ job[j].status = "OPEN"
ExpiredByCron(j) == j \notin forced /\ Exists(j) /\ job[j].status = "EXPIRED"

=============================================================================
