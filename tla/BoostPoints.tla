----------------------------- MODULE BoostPoints -----------------------------
(***************************************************************************)
(* The points of one enterprise: what the request handlers and the boost   *)
(* cron do to its row in "enterprises", to the rows of "boosted_jobs",     *)
(* "transactions" and "history_transactions", and to the isBoost flag of   *)
(* its jobs.                                                               *)
(*                                                                         *)
(* Node runs one callback at a time and every await lets the others run,   *)
(* so a handler is a sequence of actions, one per database round trip or   *)
(* per group of awaits between which nothing shared is touched.  None of   *)
(* these handlers opens a transaction or takes a lock.                     *)
(***************************************************************************)
EXTENDS EnterpriseRow, FiniteSets

CONSTANTS
    Jobs,           \* the jobs a boost may name
    OwnJobs,        \* the jobs of this enterprise
    OpenJobs,       \* the jobs whose status is OPEN
    Boosts,         \* calls of BoostJobService.create
    Orders,         \* calls of TransactionService.completeOrder
    Savers,         \* handlers that save the whole enterprise row back
    Reviews,        \* calls of EnterpriseService.updateEnterpriseStatus
    Crons,          \* boost cron schedules: one per server process
    BatchSize,      \* rows per cron batch (100 in the code)
    PointsUsed,     \* values of CreateBoostJobDto.pointsUsed
    InitialPoints,  \* total_points at the start
    InitialStatus,  \* status at the start
    PayloadStatuses, \* values of the optional UpdateEnterpriseDto.status, when it is there
    MaxCrashes      \* bound on process crashes

Requests == Boosts \cup Orders \cup Savers \cup Reviews

ASSUME JobsAssumption == OwnJobs \subseteq Jobs /\ OpenJobs \subseteq Jobs
ASSUME PointsAssumption == PointsUsed \subseteq Int /\ InitialPoints \in Nat
ASSUME StatusAssumption == InitialStatus \in Statuses /\ PayloadStatuses \subseteq Statuses
ASSUME BatchAssumption == BatchSize \in Nat \ {0}
ASSUME CrashAssumption == MaxCrashes \in Nat
ASSUME KindsAssumption ==
    /\ Boosts \cap Orders = {} /\ Boosts \cap Savers = {} /\ Boosts \cap Reviews = {}
    /\ Orders \cap Savers = {} /\ Orders \cap Reviews = {} /\ Savers \cap Reviews = {}

VARIABLES
    \* ---- what the requests ask for, fixed when they arrive
    input,          \* [want : Boosts -> [job, points], plan, save, verdict]
    \* ---- database
    row,            \* the enterprise row
    isBoost,        \* [Jobs -> BOOLEAN], column jobs.is_boost
    boosted,        \* rows of boosted_jobs, each named by the call that inserted it
    aged,           \* those whose boosted_at is at least 24 hours ago
    transactions,   \* rows of transactions, named by their order
    history,        \* rows of history_transactions, named by their order
    queued,         \* boosts put on the boostJob-expired queue
    \* ---- handlers in memory
    pc,             \* [Requests -> label of the next step]
    seen,           \* [Boosts \cup Orders -> totalPoints as findOneById returned it]
    entity,         \* [Requests -> Entity] the object given to save, then its UPDATE
    open,           \* [Boosts -> SUBSET {"flag", "insert"}] branches of Promise.all
    ok,             \* [Boosts -> BOOLEAN] no branch has rejected
    cron,           \* [Crons -> [pc, offset, batch, open]]
    crashes,        \* number of process crashes so far
    \* ---- history variables, read by the properties only
    written,        \* requests whose UPDATE of the enterprise row has run
    inserted,       \* boosts that ever had a row
    granted, spent, \* points added and taken by the UPDATEs so far
    decided,        \* the status the last UPDATE meant to set one has set
    torn,           \* two read-modify-write windows on the row have overlapped
    overlapped,     \* two boosts have overlapped, from the check to the charge
    contended,      \* jobs on which a boost overlapped a boost or the cron, or died
    due             \* [Crons -> the rows that were due when its last run began]

tables == <<boosted, aged, transactions, history, queued, isBoost>>
memory == <<seen, entity, open, ok>>
ghosts == <<written, inserted, granted, spent, decided, torn, overlapped, contended, due>>
vars == <<input, row, tables, pc, memory, cron, crashes, ghosts>>

-----------------------------------------------------------------------------
(* Inputs and amounts *)

Plans == {"STANDARD", "PREMIUM"}

(* company: updatePartialInfoActive; patch: update(id, payload);           *)
(* address: updateCompanyAddress of an enterprise without an address;      *)
(* register: updateRegisterEnterprise; wishlist: create/deleteCandidate-   *)
(* WishList.                                                               *)
SaverKinds == {"company", "patch", "address", "register", "wishlist"}

(* Only "patch" and "register" take an UpdateEnterpriseDto, which may name *)
(* a status; the validation pipe strips it from the other payloads.        *)
Saves == [kind : SaverKinds, status : {"unset"}]
           \cup [kind : {"patch", "register"}, status : PayloadStatuses]

Kind(s) == input.save[s].kind

JobOf(b) == input.want[b].job
PointsOf(b) == input.want[b].points

PlanPoints(plan) == IF plan = "STANDARD" THEN 50 ELSE 100

(* What the UPDATE of request r is meant to add to totalPoints.            *)
Delta(r) ==
    IF r \in Boosts THEN 0 - PointsOf(r)
    ELSE IF r \in Orders THEN PlanPoints(input.plan[r])
    ELSE 0

(* Whether r is meant to set the status, and which one.                    *)
SetsStatus(r) == r \in Reviews \/ (r \in Savers /\ input.save[r].status # "unset")
StatusOf(r) == IF r \in Reviews THEN input.verdict[r] ELSE input.save[r].status

Gain(r) == IF Delta(r) > 0 THEN Delta(r) ELSE 0
Loss(r) == IF Delta(r) < 0 THEN 0 - Delta(r) ELSE 0

-----------------------------------------------------------------------------
(* Where a request is *)

Ended == {"rejected", "failed", "done", "dead"}
Live(r) == pc[r] \notin Ended \cup {"new"}

Goto(r, label) == pc' = [pc EXCEPT ![r] = label]

(* From the read a later UPDATE is computed from to that UPDATE.           *)
InWindow(r) == pc[r] \in {"quoted", "read", "diffed"}

OpensWindow == torn' = (torn \/ \E r \in Requests : InWindow(r))

(* From the read of the points create checks to their deduction.           *)
Boosting(b) == pc[b] \in {"priced", "saving", "charging", "read", "diffed"}

SavingJobs == {JobOf(b) : b \in {x \in Boosts : pc[x] = "saving"}}
BatchJobs(c) == {JobOf(b) : b \in cron[c].batch}
ExpiringJobs == UNION {BatchJobs(c) : c \in {x \in Crons : cron[x].pc = "expire"}}

NoEntity == [cols |-> {},
             val |-> [totalPoints |-> 0, isPremium |-> FALSE, status |-> InitialStatus]]
Sleeping == [pc |-> "idle", offset |-> 0, batch |-> {}, open |-> {}]

Init ==
    /\ input \in [want : [Boosts -> [job : Jobs, points : PointsUsed]],
                  plan : [Orders -> Plans],
                  save : [Savers -> Saves],
                  verdict : [Reviews -> Statuses]]
    /\ row = [totalPoints |-> InitialPoints, isPremium |-> FALSE, status |-> InitialStatus]
    /\ isBoost = [j \in Jobs |-> FALSE]
    /\ boosted = {} /\ aged = {} /\ transactions = {} /\ history = {} /\ queued = {}
    /\ pc = [r \in Requests |-> "new"]
    /\ seen = [r \in Boosts \cup Orders |-> 0]
    /\ entity = [r \in Requests |-> NoEntity]
    /\ open = [b \in Boosts |-> {}]
    /\ ok = [b \in Boosts |-> TRUE]
    /\ cron = [c \in Crons |-> Sleeping]
    /\ crashes = 0
    /\ written = {} /\ inserted = {} /\ granted = 0 /\ spent = 0
    /\ decided = InitialStatus
    /\ torn = FALSE /\ overlapped = FALSE /\ contended = {}
    /\ due = [c \in Crons |-> {}]

-----------------------------------------------------------------------------
(* BoostJobService.create *)

(* getJobById and findOneById, then the checks on the job.                 *)
BoostRefused(b) ==
    /\ pc[b] = "new"
    /\ JobOf(b) \notin OwnJobs \cap OpenJobs
    /\ Goto(b, "rejected")
    /\ UNCHANGED <<input, row, tables, memory, cron, crashes, ghosts>>

BoostReadPoints(b) ==
    /\ pc[b] = "new"
    /\ JobOf(b) \in OwnJobs \cap OpenJobs
    /\ seen' = [seen EXCEPT ![b] = row.totalPoints]
    /\ Goto(b, "priced")
    /\ overlapped' = (overlapped \/ \E x \in Boosts : Boosting(x))
    /\ UNCHANGED <<input, row, tables, entity, open, ok, cron, crashes,
                   written, inserted, granted, spent, decided, torn, contended, due>>

HasRow(j) == \E x \in boosted : JobOf(x) = j

(* The price against the points read before.                               *)
MutAffordableAlways(b) == TRUE
Affordable(b) == PointsOf(b) <= seen[b]

(* findOne on boosted_jobs, then the price; Promise.all starts both of its *)
(* branches.                                                               *)
BoostCheck(b) ==
    /\ pc[b] = "priced"
    /\ \/ /\ HasRow(JobOf(b)) \/ ~Affordable(b)
          /\ Goto(b, "rejected")
          /\ UNCHANGED <<open, contended>>
       \/ /\ ~HasRow(JobOf(b)) /\ Affordable(b)
          /\ Goto(b, "saving")
          /\ open' = [open EXCEPT ![b] = {"flag", "insert"}]
          /\ contended' = contended \cup ({JobOf(b)} \cap (SavingJobs \cup ExpiringJobs))
    /\ seen' = [seen EXCEPT ![b] = 0]
    /\ UNCHANGED <<input, row, tables, entity, ok, cron, crashes,
                   written, inserted, granted, spent, decided, torn, overlapped, due>>

(* Mutant: a branch that throws never settles.                             *)
MutSettleOnSuccess(b, branch, succeeds) ==
    /\ open' = IF succeeds THEN [open EXCEPT ![b] = @ \ {branch}] ELSE open
    /\ ok' = [ok EXCEPT ![b] = @ /\ succeeds]

Settle(b, branch, succeeds) ==
    /\ open' = [open EXCEPT ![b] = @ \ {branch}]
    /\ ok' = [ok EXCEPT ![b] = @ /\ succeeds]

(* updateBoostJob: UPDATE jobs, then the embedding call, which may throw.  *)
BoostFlag(b) ==
    /\ pc[b] = "saving" /\ "flag" \in open[b]
    /\ isBoost' = [isBoost EXCEPT ![JobOf(b)] = TRUE]
    /\ \E embedded \in BOOLEAN : Settle(b, "flag", embedded)
    /\ UNCHANGED <<input, row, boosted, aged, transactions, history, queued, pc, seen, entity,
                   cron, crashes, ghosts>>

(* job_id is the owning column of a one-to-one relation, hence UNIQUE.     *)
Unique(b) == ~HasRow(JobOf(b))

(* boostedJobRepo.save: the insert fails when the job already has a row.   *)
BoostInsert(b) ==
    /\ pc[b] = "saving" /\ "insert" \in open[b]
    /\ boosted' = IF Unique(b) THEN boosted \cup {b} ELSE boosted
    /\ inserted' = IF Unique(b) THEN inserted \cup {b} ELSE inserted
    /\ Settle(b, "insert", Unique(b))
    /\ UNCHANGED <<input, row, aged, transactions, history, queued, isBoost, pc, seen, entity,
                   cron, crashes, written, granted, spent, decided, torn, overlapped, contended, due>>

(* Mutant: Promise.allSettled instead of Promise.all.                      *)
MutAfterSave(b, embedded) == IF embedded THEN "charging" ELSE "failed"
AfterSave(b, embedded) == IF ok[b] /\ embedded THEN "charging" ELSE "failed"

(* Promise.all has settled.  When it resolved, createJobEmbedding follows, *)
(* which may throw; only after it does the response go out and the         *)
(* deduction start in the background.                                      *)
BoostEmbed(b) ==
    /\ pc[b] = "saving" /\ open[b] = {}
    /\ \E embedded \in BOOLEAN : Goto(b, AfterSave(b, embedded))
    /\ ok' = [ok EXCEPT ![b] = TRUE]
    /\ UNCHANGED <<input, row, tables, seen, entity, open, cron, crashes, ghosts>>

(* Mutant: create passes pointsUsed and not its opposite.                  *)
MutChargedAdds(b) == [row EXCEPT !.totalPoints = @ + PointsOf(b)]
Charged(b) == [row EXCEPT !.totalPoints = @ - PointsOf(b)]

(* updateBoostLimit: findOneById again, then totalPoints += points.        *)
ChargeRead(b) ==
    /\ pc[b] = "charging"
    /\ entity' = [entity EXCEPT ![b] = PointsOnly(Charged(b))]
    /\ Goto(b, "read")
    /\ OpensWindow
    /\ UNCHANGED <<input, row, tables, seen, open, ok, cron, crashes,
                   written, inserted, granted, spent, decided, overlapped, contended, due>>

-----------------------------------------------------------------------------
(* TransactionService.completeOrder, started by its controller without     *)
(* await                                                                   *)

OrderReadPoints(o) ==
    /\ pc[o] = "new"
    /\ seen' = [seen EXCEPT ![o] = row.totalPoints]
    /\ Goto(o, "quoted")
    /\ OpensWindow
    /\ UNCHANGED <<input, row, tables, entity, open, ok, cron, crashes,
                   written, inserted, granted, spent, decided, overlapped, contended, due>>

(* Mutant: the points bought replace those the enterprise had.             *)
MutCreditedReplaces(o) ==
    [row EXCEPT !.isPremium = TRUE, !.totalPoints = PlanPoints(input.plan[o])]
Credited(o) ==
    [row EXCEPT !.isPremium = TRUE, !.totalPoints = PlanPoints(input.plan[o]) + seen[o]]

(* updateEnterprisePayment: reads the whole row, then sets premium and     *)
(* totalPoints + currentPoint, the points completeOrder saw.               *)
OrderLoad(o) ==
    /\ pc[o] = "quoted"
    /\ entity' = [entity EXCEPT ![o] = WholeRow(Credited(o))]
    /\ seen' = [seen EXCEPT ![o] = 0]
    /\ Goto(o, "read")
    /\ UNCHANGED <<input, row, tables, open, ok, cron, crashes, ghosts>>

(* Mutant: the transaction is recorded without awaiting the payment.       *)
MutOrderRecordFirst(o) ==
    /\ pc[o] = "quoted"
    /\ transactions' = transactions \cup {o}
    /\ Goto(o, "recorded")
    /\ UNCHANGED <<input, row, isBoost, boosted, aged, history, queued, memory, cron, crashes, ghosts>>

OrderRecord(o) ==
    /\ pc[o] = "paid"
    /\ transactions' = transactions \cup {o}
    /\ Goto(o, "recorded")
    /\ UNCHANGED <<input, row, isBoost, boosted, aged, history, queued, memory, cron, crashes, ghosts>>

OrderHistory(o) ==
    /\ pc[o] = "recorded"
    /\ history' = history \cup {o}
    /\ Goto(o, "done")
    /\ UNCHANGED <<input, row, isBoost, boosted, aged, transactions, queued, memory, cron, crashes, ghosts>>

-----------------------------------------------------------------------------
(* Handlers of EnterpriseService that save the row they read               *)

SaverAllowed(s) ==
    /\ Kind(s) = "company" => row.status = "ACTIVE"
    /\ Kind(s) = "register" => row.status = "PENDING"

SaverRefused(s) ==
    /\ pc[s] = "new"
    /\ ~SaverAllowed(s)
    /\ Goto(s, "rejected")
    /\ UNCHANGED <<input, row, tables, memory, cron, crashes, ghosts>>

(* Mutant: a payload without a status sends the enterprise back to review. *)
MutPatchedPending(s) ==
    [row EXCEPT !.status = IF SetsStatus(s) THEN StatusOf(s) ELSE "PENDING"]

(* {...enterprise, ...payload}: of the columns of Row only the status may  *)
(* be in a payload.                                                        *)
Patched(s) == IF SetsStatus(s) THEN [row EXCEPT !.status = StatusOf(s)] ELSE row

SaverLoad(s) ==
    /\ pc[s] = "new"
    /\ SaverAllowed(s)
    /\ entity' = [entity EXCEPT ![s] = WholeRow(Patched(s))]
    /\ Goto(s, "read")
    /\ OpensWindow
    /\ UNCHANGED <<input, row, tables, seen, open, ok, cron, crashes,
                   written, inserted, granted, spent, decided, overlapped, contended, due>>

(* The await between the read and the save throws: the embedding call of   *)
(* update, or addressService.create.                                       *)
SaverFails(s) ==
    /\ pc[s] = "read"
    /\ Kind(s) \in {"company", "address"}
    /\ entity' = [entity EXCEPT ![s] = NoEntity]
    /\ Goto(s, "failed")
    /\ UNCHANGED <<input, row, tables, seen, open, ok, cron, crashes, ghosts>>

(* updateEnterpriseStatus: reads the status and refuses the one it has.    *)
ReviewJudge(v) ==
    /\ pc[v] = "new"
    /\ Goto(v, IF row.status = input.verdict[v] THEN "rejected" ELSE "judged")
    /\ UNCHANGED <<input, row, tables, memory, cron, crashes, ghosts>>

(* update(id, {status}): findOne reads the row again.                      *)
ReviewLoad(v) ==
    /\ pc[v] = "judged"
    /\ entity' = [entity EXCEPT ![v] = WholeRow([row EXCEPT !.status = input.verdict[v]])]
    /\ Goto(v, "read")
    /\ OpensWindow
    /\ UNCHANGED <<input, row, tables, seen, open, ok, cron, crashes,
                   written, inserted, granted, spent, decided, overlapped, contended, due>>

-----------------------------------------------------------------------------
(* enterpriseRepository.save, for every handler above                      *)

(* Spread objects ({...enterprise, ...payload}) are not class instances    *)
(* and get no @BeforeUpdate.                                               *)
Hooked(r) == r \in Boosts \cup Orders \/ (r \in Savers /\ Kind(r) = "wishlist")

SaveSelect(r) ==
    /\ pc[r] = "read"
    /\ entity' = [entity EXCEPT ![r] = UpdateOf(@, row, Hooked(r))]
    /\ Goto(r, "diffed")
    /\ UNCHANGED <<input, row, tables, seen, open, ok, cron, crashes, ghosts>>

SaveUpdate(r) ==
    /\ pc[r] = "diffed"
    /\ row' = Updated(row, entity[r])
    /\ entity' = [entity EXCEPT ![r] = NoEntity]
    /\ Goto(r, IF r \in Orders THEN "paid" ELSE "done")
    /\ written' = written \cup {r}
    /\ granted' = granted + Gain(r)
    /\ spent' = spent + Loss(r)
    /\ decided' = IF SetsStatus(r) THEN StatusOf(r) ELSE decided
    /\ UNCHANGED <<input, tables, seen, open, ok, cron, crashes,
                   inserted, torn, overlapped, contended, due>>

-----------------------------------------------------------------------------
(* BoostJobCronService.handleCronBoostJob                                  *)

(* 24 hours pass over a boosted row; no handler lives that long.           *)
RowAges(b) ==
    /\ b \in boosted \ aged
    /\ pc[b] \in Ended
    /\ aged' = aged \cup {b}
    /\ UNCHANGED <<input, row, isBoost, boosted, transactions, history, queued, pc, memory,
                   cron, crashes, ghosts>>

CronStart(c) ==
    /\ cron[c].pc = "idle"
    /\ cron' = [cron EXCEPT ![c] = [Sleeping EXCEPT !.pc = "fetch"]]
    /\ due' = [due EXCEPT ![c] = aged]
    /\ UNCHANGED <<input, row, tables, pc, memory, crashes,
                   written, inserted, granted, spent, decided, torn, overlapped, contended>>

(* The rows whose boosted_at is 24 hours old.                              *)
MutAllRows == boosted
DueRows == aged

(* How many of them a batch holds.                                         *)
MutPageSizeFromOne(offset) ==
    LET left == Cardinality(DueRows) - offset - 1
    IN  IF left < 0 THEN 0 ELSE IF left > BatchSize THEN BatchSize ELSE left
PageSize(offset) ==
    LET left == Cardinality(DueRows) - offset
    IN  IF left < 0 THEN 0 ELSE IF left > BatchSize THEN BatchSize ELSE left

(* Which: the query has skip and take and no order.                        *)
Page(offset) == {B \in SUBSET DueRows : Cardinality(B) = PageSize(offset)}

MutPreviousOffset(offset) == offset - BatchSize
NextOffset(offset) == offset + BatchSize

(* Promise.all of the two bulk statements has resolved.                    *)
MutBatchUnawaited(c) == cron[c].pc = "expire"
BatchDone(c) == cron[c].pc = "expire" /\ cron[c].open = {}

CronFetch(c) ==
    /\ cron[c].pc = "fetch"
    /\ \E B \in Page(cron[c].offset) :
         /\ cron' = [cron EXCEPT ![c] =
                       IF B = {} THEN Sleeping
                       ELSE [pc |-> "expire", offset |-> @.offset, batch |-> B,
                             open |-> {"remove", "clear"}]]
         /\ contended' = contended \cup ({JobOf(b) : b \in B} \cap SavingJobs)
    /\ UNCHANGED <<input, row, tables, pc, memory, crashes,
                   written, inserted, granted, spent, decided, torn, overlapped, due>>

CronRemove(c) ==
    /\ cron[c].pc = "expire" /\ "remove" \in cron[c].open
    /\ boosted' = boosted \ cron[c].batch
    /\ aged' = aged \ cron[c].batch
    /\ cron' = [cron EXCEPT ![c].open = @ \ {"remove"}]
    /\ UNCHANGED <<input, row, isBoost, transactions, history, queued, pc, memory, crashes, ghosts>>

(* Mutant: the flag is set again.                                          *)
MutKept(c) == [j \in Jobs |-> isBoost[j] \/ j \in BatchJobs(c)]
Cleared(c) == [j \in Jobs |-> isBoost[j] /\ j \notin BatchJobs(c)]

CronClear(c) ==
    /\ cron[c].pc = "expire" /\ "clear" \in cron[c].open
    /\ isBoost' = Cleared(c)
    /\ cron' = [cron EXCEPT ![c].open = @ \ {"clear"}]
    /\ UNCHANGED <<input, row, boosted, aged, transactions, history, queued, pc, memory, crashes, ghosts>>

(* Both branches are done: the embeddings are created again and the batch  *)
(* goes to the queue, then the loop continues if the batch was full.       *)
CronQueue(c) ==
    /\ BatchDone(c)
    /\ queued' = queued \cup cron[c].batch
    /\ cron' = [cron EXCEPT ![c] =
                  IF Cardinality(@.batch) = BatchSize
                    THEN [Sleeping EXCEPT !.pc = "fetch", !.offset = NextOffset(cron[c].offset)]
                    ELSE Sleeping]
    /\ UNCHANGED <<input, row, isBoost, boosted, aged, transactions, history, pc, memory, crashes, ghosts>>

(* An embedding call or addBulk throws: the run ends without the queue.    *)
CronFails(c) ==
    /\ BatchDone(c)
    /\ cron' = [cron EXCEPT ![c] = Sleeping]
    /\ UNCHANGED <<input, row, tables, pc, memory, crashes, ghosts>>

-----------------------------------------------------------------------------
(* The process ends: a deployment, or a rejection in a promise nobody      *)
(* awaits (updateBoostLimit, completeOrder).  Everything in memory is lost.*)
Crash ==
    /\ crashes < MaxCrashes
    /\ crashes' = crashes + 1
    /\ pc' = [r \in Requests |-> IF Live(r) THEN "dead" ELSE pc[r]]
    /\ seen' = [r \in Boosts \cup Orders |-> 0]
    /\ entity' = [r \in Requests |-> NoEntity]
    /\ open' = [b \in Boosts |-> {}]
    /\ ok' = [b \in Boosts |-> TRUE]
    /\ cron' = [c \in Crons |-> Sleeping]
    /\ contended' = contended \cup SavingJobs \cup ExpiringJobs
    /\ UNCHANGED <<input, row, tables, written, inserted, granted, spent, decided, torn, overlapped, due>>

-----------------------------------------------------------------------------
Start(r) ==
    \/ r \in Boosts /\ (BoostRefused(r) \/ BoostReadPoints(r))
    \/ r \in Orders /\ OrderReadPoints(r)
    \/ r \in Savers /\ (SaverRefused(r) \/ SaverLoad(r))
    \/ r \in Reviews /\ ReviewJudge(r)

Continue(r) ==
    \/ r \in Boosts /\ (BoostCheck(r) \/ BoostFlag(r) \/ BoostInsert(r) \/ BoostEmbed(r) \/ ChargeRead(r))
    \/ r \in Orders /\ (OrderLoad(r) \/ OrderRecord(r) \/ OrderHistory(r))
    \/ r \in Savers /\ SaverFails(r)
    \/ r \in Reviews /\ ReviewLoad(r)
    \/ SaveSelect(r)
    \/ SaveUpdate(r)

CronStep(c) ==
    \/ CronStart(c) \/ CronFetch(c) \/ CronRemove(c) \/ CronClear(c) \/ CronQueue(c) \/ CronFails(c)

Next ==
    \/ \E r \in Requests : Start(r) \/ Continue(r)
    \/ \E b \in Boosts : RowAges(b)
    \/ \E c \in Crons : CronStep(c)
    \/ Crash

Spec == Init /\ [][Next]_vars

(* A request may never come, but the steps of one that came are taken: the *)
(* database and the HTTP calls answer or throw.  The cron fires every five *)
(* hours for as long as the process is up.                                 *)
Fairness ==
    /\ \A r \in Requests : WF_vars(Continue(r))
    /\ \A c \in Crons : WF_vars(CronStep(c))

FairSpec == Spec /\ Fairness

-----------------------------------------------------------------------------
(* Properties *)

Labels == Ended \cup {"new", "priced", "saving", "charging", "quoted", "judged",
                      "read", "diffed", "paid", "recorded"}

(* Type invariant of every variable.                                       *)
TypeOK ==
    /\ input \in [want : [Boosts -> [job : Jobs, points : PointsUsed]],
                  plan : [Orders -> Plans],
                  save : [Savers -> Saves],
                  verdict : [Reviews -> Statuses]]
    /\ row \in Row
    /\ isBoost \in [Jobs -> BOOLEAN]
    /\ boosted \subseteq Boosts /\ aged \subseteq boosted /\ queued \subseteq Boosts
    /\ transactions \subseteq Orders /\ history \subseteq Orders
    /\ pc \in [Requests -> Labels]
    /\ seen \in [Boosts \cup Orders -> Int]
    /\ entity \in [Requests -> Entity]
    /\ open \in [Boosts -> SUBSET {"flag", "insert"}]
    /\ ok \in [Boosts -> BOOLEAN]
    /\ cron \in [Crons -> [pc : {"idle", "fetch", "expire"}, offset : Nat,
                           batch : SUBSET Boosts, open : SUBSET {"remove", "clear"}]]
    /\ crashes \in 0..MaxCrashes
    /\ written \subseteq Requests /\ inserted \subseteq Boosts
    /\ granted \in Nat /\ spent \in Nat
    /\ decided \in Statuses
    /\ torn \in BOOLEAN /\ overlapped \in BOOLEAN /\ contended \subseteq Jobs
    /\ due \in [Crons -> SUBSET Boosts]

(* However the handlers interleave, and whatever stale value one of them   *)
(* writes back, the balance stays between what the charges that ran leave  *)
(* at least and what the payments that ran allow at most: no order of      *)
(* steps makes points that were not bought, or takes points twice.         *)
PointsBounded ==
    /\ row.totalPoints <= InitialPoints + granted
    /\ row.totalPoints >= InitialPoints - spent

(* The balance is wrong only if two read-modify-write windows overlapped:  *)
(* the deduction, the payment, the review and the saves of the company's   *)
(* data lose no update of each other when each has the row to itself, even *)
(* when handlers fail, the process crashes and the windows of one handler  *)
(* are separated by anything else the others do.                           *)
PointsExact == ~torn => row.totalPoints = InitialPoints + granted - spent

(* Under the same condition the status is the one the last review set, or  *)
(* the last payload that names one, and is not undone by a handler that    *)
(* saves a row it read before.                                             *)
StatusExact == ~torn => row.status = decided

(* Under the same condition an enterprise without points is not premium:   *)
(* the @BeforeUpdate hook and the handlers that bypass it agree.           *)
PremiumHasPoints == ~torn => (row.isPremium => row.totalPoints # 0)

(* The check in create reads the points long before they are deducted.  It *)
(* keeps the balance from going negative as long as no two boosts overlap  *)
(* between their checks and their deductions, whatever the orders do.      *)
NoOverdraft == ~torn /\ ~overlapped => row.totalPoints >= 0

(* A call that charged points had inserted a row of its own: a call whose  *)
(* insert lost the race for the job is never charged.                      *)
ChargedHasRow == written \cap Boosts \subseteq inserted

(* A history row has its transaction row, and a transaction row was        *)
(* credited, wherever the process crashes.                                 *)
PaperTrail == history \subseteq transactions /\ transactions \subseteq written

(* isBoost says whether the job has a boosted_jobs row, except on jobs     *)
(* where a boost overlapped another boost or the cron, or a crash hit one: *)
(* handlers that fail half way do not break it.                            *)
FlagMatchesRow ==
    \A j \in Jobs \ (contended \cup SavingJobs \cup ExpiringJobs) :
        isBoost[j] <=> HasRow(j)

(* The "expired" message of a boost goes out only once its row is gone.    *)
QueuedIsExpired == queued \cap boosted = {}

(* Until two windows overlap, every step of the handlers, the cron and a   *)
(* crash is a step of the account PointLedger or leaves it alone: every    *)
(* purchase and every boost reaches the balance at most once, for its      *)
(* amount, and its rows are written in the promised order.                 *)
Ledger == INSTANCE PointLedger WITH
    Purchases <- Orders, Charges <- Boosts, Opening <- InitialPoints,
    amount <- [r \in Orders \cup Boosts |-> Delta(r)],
    balance <- row.totalPoints,
    posted <- written \cap (Orders \cup Boosts),
    backed <- inserted, recorded <- transactions, journaled <- history

LedgerUnlessTorn == Ledger!Init /\ [][torn' \/ Ledger!Next]_(Ledger!ledger)

(* A boosted row disappears only when its 24 hours are over.               *)
FullDayOfBoost == [][\A b \in boosted \ boosted' : b \in aged]_vars

(* A boost ends: every row that reached 24 hours is removed, by this run   *)
(* of the cron or by a later one, in spite of failed calls and crashes.    *)
BoostsExpire == \A b \in Boosts : b \in aged ~> b \notin boosted

(* Every request that starts ends.                                         *)
RequestsEnd == \A r \in Requests : Live(r) ~> ~Live(r)

(* What the program says: when the last batch is empty the cron logs "No   *)
(* expired boost jobs found".  It would mean that the run left no row that *)
(* was due when it began.                                                  *)
NoneFoundMeansNone ==
    [][\A c \in Crons : (cron[c].pc = "fetch" /\ cron'[c].pc = "idle" /\ UNCHANGED crashes)
                          => due[c] \cap aged = {}]_vars
=============================================================================
