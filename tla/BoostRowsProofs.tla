--------------------------- MODULE BoostRowsProofs ---------------------------
(***************************************************************************)
(* Proofs about the rows that boosts and purchases leave in BoostPoints:   *)
(* boosted_jobs, transactions, history_transactions, the queue and the     *)
(* isBoost flags; and about the balance beyond its bounds: every step is a *)
(* step of PointLedger, the balance is not overdrawn, and an enterprise    *)
(* without points is not premium, each until windows overlap.              *)
(***************************************************************************)
EXTENDS BoostPointsProofs

(* Where the purchases are that are credited, and those that are recorded. *)
(* The last conjunct says that no request updates the row twice.           *)
TrailInv ==
    /\ \A o \in Orders :
         /\ pc[o] \in {"paid", "recorded"} => o \in written
         /\ pc[o] = "recorded" => o \in transactions
    /\ transactions \subseteq written /\ history \subseteq transactions
    /\ \A r \in written : pc[r] \in {"paid", "recorded", "done", "dead"}

(* A boost gets past Promise.all only with its insert done, and inserts    *)
(* at most once.                                                           *)
RowsInv ==
    /\ \A b \in Boosts :
         /\ pc[b] = "saving" /\ ok[b] /\ "insert" \notin open[b] => b \in inserted
         /\ pc[b] \in {"charging", "read", "diffed"} => b \in inserted
         /\ b \in inserted => pc[b] \notin {"new", "priced"} /\ "insert" \notin open[b]
    /\ written \cap Boosts \subseteq inserted

(* What the cron holds of the rows it fetched.  A row that has gone cannot *)
(* come back, because its boost has inserted already.                      *)
QueueInv ==
    /\ boosted \subseteq inserted /\ queued \subseteq inserted
    /\ queued \cap boosted = {}
    /\ \A c \in Crons : cron[c].pc = "expire" =>
         /\ cron[c].batch \subseteq inserted
         /\ cron[c].batch \cap boosted \subseteq aged
         /\ "remove" \notin cron[c].open => cron[c].batch \cap boosted = {}

-----------------------------------------------------------------------------
(* Trail and rows *)

LEMMA KindsInRequests ==
  /\ Boosts \subseteq Requests /\ Orders \subseteq Requests
  /\ Savers \subseteq Requests /\ Reviews \subseteq Requests
  BY DEF Requests

LEMMA TrailInvInit == Init => TrailInv
  BY KindsInRequests DEF Init, TrailInv

LEMMA TrailInvStep ==
  ASSUME TypeOK, TrailInv, [Next]_vars
  PROVE  TrailInv'
<1> USE KindsInRequests DEF TrailInv, tables, memory, ghosts, Goto
<1>0. pc \in [Requests -> Labels] /\ transactions \subseteq Orders /\ written \subseteq Requests
  BY DEF TypeOK
<1>1. ASSUME NEW r \in Requests, Start(r) PROVE TrailInv'
  BY <1>0, <1>1
     DEF Start, BoostRefused, BoostReadPoints, OrderReadPoints, SaverRefused, SaverLoad, ReviewJudge
<1>2. ASSUME NEW r \in Requests, Continue(r) PROVE TrailInv'
  <2>1. CASE r \in Boosts
               /\ (BoostCheck(r) \/ BoostFlag(r) \/ BoostInsert(r) \/ BoostEmbed(r) \/ ChargeRead(r))
    BY <1>0, <2>1 DEF BoostCheck, BoostFlag, BoostInsert, BoostEmbed, ChargeRead, AfterSave
  <2>2. CASE r \in Orders /\ OrderLoad(r)
    BY <1>0, <2>2 DEF OrderLoad
  <2>3. CASE r \in Orders /\ OrderRecord(r)
    BY <1>0, <2>3 DEF OrderRecord
  <2>4. CASE r \in Orders /\ OrderHistory(r)
    BY <1>0, <2>4 DEF OrderHistory
  <2>5. CASE r \in Savers /\ SaverFails(r)
    BY <1>0, <2>5 DEF SaverFails
  <2>6. CASE r \in Reviews /\ ReviewLoad(r)
    BY <1>0, <2>6 DEF ReviewLoad
  <2>7. CASE SaveSelect(r)
    BY <1>0, <2>7 DEF SaveSelect
  <2>8. CASE SaveUpdate(r)
    BY <1>0, <2>8 DEF SaveUpdate
  <2>9. QED
    BY <1>2, <2>1, <2>2, <2>3, <2>4, <2>5, <2>6, <2>7, <2>8 DEF Continue
<1>3. ASSUME NEW c \in Crons, CronStep(c) PROVE TrailInv'
  BY <1>3 DEF CronStep, CronStart, CronFetch, CronRemove, CronClear, CronQueue, CronFails
<1>4. ASSUME NEW b \in Boosts, RowAges(b) PROVE TrailInv'
  BY <1>4 DEF RowAges
<1>5. CASE Crash
  BY <1>0, <1>5 DEF Crash
<1>6. CASE UNCHANGED vars
  BY <1>6 DEF vars
<1>7. QED
  BY <1>1, <1>2, <1>3, <1>4, <1>5, <1>6 DEF Next

(* PaperTrail: wherever handlers fail or the process ends, a history row   *)
(* has its transaction row and a transaction row its credit.               *)
THEOREM TrailKept == Spec => []PaperTrail
<1>1. TrailInv => PaperTrail
  BY DEF TrailInv, PaperTrail
<1>2. QED
  BY <1>1, TrailInvInit, TrailInvStep, TypeCorrect, PTL DEF Spec

LEMMA RowsInvInit == Init => RowsInv
  BY KindsInRequests DEF Init, RowsInv

LEMMA RowsInvStep ==
  ASSUME TypeOK, RowsInv, [Next]_vars
  PROVE  RowsInv'
<1> USE KindsInRequests DEF RowsInv, tables, memory, ghosts, Goto
<1>0. /\ pc \in [Requests -> Labels] /\ inserted \subseteq Boosts /\ written \subseteq Requests
      /\ open \in [Boosts -> SUBSET {"flag", "insert"}] /\ ok \in [Boosts -> BOOLEAN]
  BY DEF TypeOK
<1>1. ASSUME NEW r \in Requests, Start(r) PROVE RowsInv'
  BY <1>0, <1>1, KindsAssumption
     DEF Start, BoostRefused, BoostReadPoints, OrderReadPoints, SaverRefused, SaverLoad, ReviewJudge
<1>2. ASSUME NEW r \in Requests, Continue(r) PROVE RowsInv'
  <2>1. CASE r \in Boosts /\ BoostCheck(r)
    BY <1>0, <2>1 DEF BoostCheck
  <2>2. CASE r \in Boosts /\ BoostFlag(r)
    BY <1>0, <2>2 DEF BoostFlag, Settle
  <2>3. CASE r \in Boosts /\ BoostInsert(r)
    BY <1>0, <2>3 DEF BoostInsert, Settle
  <2>4. CASE r \in Boosts /\ BoostEmbed(r)
    BY <1>0, <2>4 DEF BoostEmbed, AfterSave
  <2>5. CASE r \in Boosts /\ ChargeRead(r)
    BY <1>0, <2>5 DEF ChargeRead
  <2>6. CASE r \in Orders /\ (OrderLoad(r) \/ OrderRecord(r) \/ OrderHistory(r))
    BY <1>0, <2>6, KindsAssumption DEF OrderLoad, OrderRecord, OrderHistory
  <2>7. CASE \/ r \in Savers /\ SaverFails(r)
             \/ r \in Reviews /\ ReviewLoad(r)
    BY <1>0, <2>7, KindsAssumption DEF SaverFails, ReviewLoad
  <2>8. CASE SaveSelect(r)
    BY <1>0, <2>8 DEF SaveSelect
  <2>9. CASE SaveUpdate(r)
    BY <1>0, <2>9 DEF SaveUpdate
  <2>10. QED
    BY <1>2, <2>1, <2>2, <2>3, <2>4, <2>5, <2>6, <2>7, <2>8, <2>9 DEF Continue
<1>3. ASSUME NEW c \in Crons, CronStep(c) PROVE RowsInv'
  BY <1>3 DEF CronStep, CronStart, CronFetch, CronRemove, CronClear, CronQueue, CronFails
<1>4. ASSUME NEW b \in Boosts, RowAges(b) PROVE RowsInv'
  BY <1>4 DEF RowAges
<1>5. CASE Crash
  BY <1>0, <1>5 DEF Crash, Live, Ended
<1>6. CASE UNCHANGED vars
  BY <1>6 DEF vars
<1>7. QED
  BY <1>1, <1>2, <1>3, <1>4, <1>5, <1>6 DEF Next

(* ChargedHasRow: a call that charged points had inserted a row of its own *)
(* and was not one whose insert lost the race for the job.                 *)
THEOREM ChargesHaveRows == Spec => []ChargedHasRow
<1>1. RowsInv => ChargedHasRow
  BY DEF RowsInv, ChargedHasRow
<1>2. QED
  BY <1>1, RowsInvInit, RowsInvStep, TypeCorrect, PTL DEF Spec

-----------------------------------------------------------------------------
(* The cron's batches and the queue *)

LEMMA QueueInvInit == Init => QueueInv
  BY DEF Init, QueueInv, Sleeping

(* A step that leaves the rows, the queue and the batches alone.           *)
LEMMA QueueFrame ==
  ASSUME QueueInv, UNCHANGED <<boosted, aged, queued, inserted, cron>>
  PROVE  QueueInv'
  BY DEF QueueInv

LEMMA QueueInvStep ==
  ASSUME TypeOK, RowsInv, QueueInv, [Next]_vars
  PROVE  QueueInv'
<1> USE DEF QueueInv, tables, memory, ghosts
<1>0. /\ boosted \subseteq Boosts /\ aged \subseteq boosted /\ queued \subseteq Boosts
      /\ cron \in [Crons -> [pc : {"idle", "fetch", "expire"}, offset : Nat,
                            batch : SUBSET Boosts, open : SUBSET {"remove", "clear"}]]
  BY DEF TypeOK
<1>1. ASSUME NEW r \in Requests, Start(r) PROVE QueueInv'
  BY <1>1, QueueFrame
     DEF Start, BoostRefused, BoostReadPoints, OrderReadPoints, SaverRefused, SaverLoad, ReviewJudge
<1>2. ASSUME NEW r \in Requests, Continue(r) PROVE QueueInv'
  <2>1. CASE r \in Boosts /\ BoostInsert(r)
    <3>1. r \notin inserted /\ UNCHANGED <<aged, queued, cron>>
      BY <2>1 DEF BoostInsert, RowsInv
    <3>2. \/ boosted' = boosted /\ inserted' = inserted
          \/ boosted' = boosted \cup {r} /\ inserted' = inserted \cup {r}
      BY <2>1 DEF BoostInsert
    <3>3. QED
      BY <3>1, <3>2
  <2>2. CASE ~(r \in Boosts /\ BoostInsert(r))
    BY <1>2, <2>2, QueueFrame
       DEF Continue, BoostCheck, BoostFlag, BoostEmbed, ChargeRead, OrderLoad, OrderRecord,
           OrderHistory, SaverFails, ReviewLoad, SaveSelect, SaveUpdate
  <2>3. QED
    BY <2>1, <2>2
<1>3. ASSUME NEW c \in Crons, CronStep(c) PROVE QueueInv'
  <2>1. CASE CronStart(c)
    BY <1>0, <2>1 DEF CronStart, Sleeping
  <2>2. CASE CronFetch(c)
    <3>1. PICK B \in Page(cron[c].offset) :
            cron' = [cron EXCEPT ![c] =
                       IF B = {} THEN Sleeping
                       ELSE [pc |-> "expire", offset |-> @.offset, batch |-> B,
                             open |-> {"remove", "clear"}]]
      BY <2>2 DEF CronFetch
    <3>2. B \subseteq aged
      BY DEF Page, DueRows
    <3>3. UNCHANGED <<boosted, aged, queued, inserted>>
      BY <2>2 DEF CronFetch
    <3>4. cron'[c].pc = "expire" =>
            cron'[c].batch = B /\ cron'[c].open = {"remove", "clear"}
      BY <1>0, <3>1 DEF Sleeping
    <3>5. \A x \in Crons \ {c} : cron'[x] = cron[x]
      BY <1>0, <3>1
    <3>6. ASSUME NEW x \in Crons, cron'[x].pc = "expire"
          PROVE  /\ cron'[x].batch \subseteq inserted'
                 /\ cron'[x].batch \cap boosted' \subseteq aged'
                 /\ "remove" \notin cron'[x].open => cron'[x].batch \cap boosted' = {}
      <4>1. CASE x = c
        BY <1>0, <3>2, <3>3, <3>4, <3>6, <4>1
      <4>2. CASE x # c
        BY <3>3, <3>5, <3>6, <4>2
      <4>3. QED
        BY <4>1, <4>2
    <3>7. QED
      BY <3>3, <3>6
  <2>3. CASE CronRemove(c)
    <3>1. /\ cron[c].pc = "expire"
          /\ boosted' = boosted \ cron[c].batch /\ aged' = aged \ cron[c].batch
          /\ UNCHANGED <<queued, inserted>>
          /\ cron'[c].batch = cron[c].batch
          /\ \A x \in Crons : /\ cron'[x].pc = cron[x].pc /\ cron'[x].batch = cron[x].batch
                              /\ x # c => cron'[x].open = cron[x].open
      BY <1>0, <2>3 DEF CronRemove
    <3>2. QED
      BY <3>1
  <2>4. CASE CronClear(c)
    <3>1. /\ UNCHANGED <<boosted, aged, queued, inserted>>
          /\ \A x \in Crons : /\ cron'[x].pc = cron[x].pc /\ cron'[x].batch = cron[x].batch
                              /\ "remove" \in cron'[x].open <=> "remove" \in cron[x].open
      BY <1>0, <2>4 DEF CronClear
    <3>2. QED
      BY <3>1
  <2>5. CASE CronQueue(c)
    <3>1. /\ cron[c].pc = "expire" /\ cron[c].open = {}
          /\ queued' = queued \cup cron[c].batch
          /\ UNCHANGED <<boosted, aged, inserted>>
          /\ cron'[c].pc # "expire"
          /\ \A x \in Crons \ {c} : cron'[x] = cron[x]
      BY <1>0, <2>5 DEF CronQueue, BatchDone, Sleeping
    <3>2. QED
      BY <3>1
  <2>6. CASE CronFails(c)
    BY <1>0, <2>6 DEF CronFails, Sleeping
  <2>7. QED
    BY <1>3, <2>1, <2>2, <2>3, <2>4, <2>5, <2>6 DEF CronStep
<1>4. ASSUME NEW b \in Boosts, RowAges(b) PROVE QueueInv'
  BY <1>4 DEF RowAges
<1>5. CASE Crash
  BY <1>5 DEF Crash, Sleeping
<1>6. CASE UNCHANGED vars
  BY <1>6, QueueFrame DEF vars
<1>7. QED
  BY <1>1, <1>2, <1>3, <1>4, <1>5, <1>6 DEF Next

LEMMA QueueInvariant == Spec => [](TypeOK /\ RowsInv /\ QueueInv)
  BY RowsInvInit, RowsInvStep, QueueInvInit, QueueInvStep, TypeCorrect, PTL DEF Spec

(* QueuedIsExpired: however the boosts and several crons interleave, the   *)
(* message that a boost is over goes out only once its row has gone, and   *)
(* the row does not come back.                                             *)
THEOREM QueuedStaysExpired == Spec => []QueuedIsExpired
<1>1. QueueInv => QueuedIsExpired
  BY DEF QueueInv, QueuedIsExpired
<1>2. QED
  BY <1>1, QueueInvariant, PTL

(* FullDayOfBoost: no step removes a boosted row whose 24 hours are not    *)
(* over, not even that of a cron with a batch read long ago.               *)
THEOREM BoostsLastADay == Spec => FullDayOfBoost
<1>1. ASSUME TypeOK, QueueInv, [Next]_vars
      PROVE  [\A b \in boosted \ boosted' : b \in aged]_vars
  <2> SUFFICES ASSUME Next, NEW b \in boosted \ boosted'
               PROVE  b \in aged
    BY <1>1
  <2> USE DEF tables, memory, ghosts
  <2>1. PICK c \in Crons : CronRemove(c)
    BY DEF Next, Start, BoostRefused, BoostReadPoints, OrderReadPoints, SaverRefused, SaverLoad,
           ReviewJudge, Continue, BoostCheck, BoostFlag, BoostInsert, BoostEmbed, ChargeRead,
           OrderLoad, OrderRecord, OrderHistory, SaverFails, ReviewLoad, SaveSelect, SaveUpdate,
           CronStep, CronStart, CronFetch, CronClear, CronQueue, CronFails, RowAges, Crash
  <2>2. QED
    BY <1>1, <2>1 DEF CronRemove, QueueInv
<1>2. QED
  BY <1>1, QueueInvariant, PTL DEF Spec, FullDayOfBoost

-----------------------------------------------------------------------------
(* The flag of a job and its row                                           *)

(* job_id is UNIQUE.                                                       *)
OneRow == \A x, y \in boosted : JobOf(x) = JobOf(y) => x = y

(* On a job where nothing contends, a boost between its two branches is    *)
(* alone, and each branch has done its part or has yet to do it.           *)
SavingInv ==
    \A b \in Boosts : pc[b] = "saving" /\ JobOf(b) \notin contended =>
      /\ JobOf(b) \notin ExpiringJobs
      /\ \A x \in Boosts : pc[x] = "saving" /\ JobOf(x) = JobOf(b) => x = b
      /\ HasRow(JobOf(b)) <=> "insert" \notin open[b]
      /\ isBoost[JobOf(b)] <=> "flag" \notin open[b]

(* So has each of the two statements of a cron.  Several crons may work on *)
(* the same row.                                                           *)
ExpiringInv ==
    \A c \in Crons : cron[c].pc = "expire" =>
      \A j \in BatchJobs(c) \ contended :
        /\ \A x \in boosted : JobOf(x) = j => x \in cron[c].batch
        /\ "remove" \notin cron[c].open => ~HasRow(j)
        /\ "clear" \notin cron[c].open => ~isBoost[j]

FlagInv == OneRow /\ SavingInv /\ ExpiringInv /\ FlagMatchesRow

LEMMA FlagInvInit == Init => FlagInv
<1> SUFFICES ASSUME Init PROVE FlagInv
  OBVIOUS
<1>1. /\ \A b \in Boosts : pc[b] = "new"
      /\ \A c \in Crons : cron[c].pc = "idle"
      /\ boosted = {} /\ \A j \in Jobs : ~isBoost[j]
  BY KindsInRequests DEF Init, Sleeping
<1>2. QED
  BY <1>1 DEF FlagInv, OneRow, SavingInv, ExpiringInv, FlagMatchesRow, HasRow

(* What the job sets mean, now and after a step.                           *)
LEMMA JobTerms ==
  ASSUME input' = input
  PROVE  /\ \A b : JobOf(b)' = JobOf(b)
         /\ \A j : j \in SavingJobs <=> \E b \in Boosts : pc[b] = "saving" /\ JobOf(b) = j
         /\ \A j : j \in SavingJobs' <=> \E b \in Boosts : pc'[b] = "saving" /\ JobOf(b) = j
         /\ \A c, j : j \in BatchJobs(c) <=> \E b \in cron[c].batch : JobOf(b) = j
         /\ \A c, j : j \in BatchJobs(c)' <=> \E b \in cron'[c].batch : JobOf(b) = j
         /\ \A j : j \in ExpiringJobs <=>
                \E c \in Crons : cron[c].pc = "expire" /\ j \in BatchJobs(c)
         /\ \A j : j \in ExpiringJobs' <=>
                \E c \in Crons : cron'[c].pc = "expire" /\ j \in BatchJobs(c)'
         /\ \A j : HasRow(j) <=> \E x \in boosted : JobOf(x) = j
         /\ \A j : HasRow(j)' <=> \E x \in boosted' : JobOf(x) = j
<1>1. \A b : JobOf(b)' = JobOf(b)
  BY DEF JobOf
<1>2. QED
  BY <1>1 DEF SavingJobs, BatchJobs, ExpiringJobs, HasRow

(* A step that leaves rows, flags and crons alone, and lets no boost into  *)
(* the two branches.  A boost that leaves them has none open.              *)
LEMMA FlagFrame ==
  ASSUME TypeOK, FlagInv,
         UNCHANGED <<input, boosted, isBoost, contended>>,
         \A c \in Crons : /\ cron'[c].pc = "expire" <=> cron[c].pc = "expire"
                          /\ cron[c].pc = "expire" => cron'[c] = cron[c],
         \A b \in Boosts : pc'[b] = "saving" => pc[b] = "saving" /\ open'[b] = open[b],
         \A b \in Boosts : pc[b] = "saving" /\ pc'[b] # "saving" => open[b] = {}
  PROVE  FlagInv'
<1> USE DEF FlagInv
<1>0. ASSUME NEW c \in Crons, cron[c].pc = "expire"
      PROVE  BatchJobs(c)' = BatchJobs(c)
  <2>1. cron'[c] = cron[c]
    BY <1>0
  <2>2. QED
    BY <2>1 DEF BatchJobs, JobOf
<1>1. /\ \A b : JobOf(b)' = JobOf(b)
      /\ \A j : HasRow(j)' <=> HasRow(j)
      /\ \A j : j \in ExpiringJobs' <=> j \in ExpiringJobs
  <2>1. \A j : j \in ExpiringJobs' <=> j \in ExpiringJobs
    BY <1>0 DEF ExpiringJobs
  <2>2. QED
    BY <2>1 DEF JobOf, HasRow
<1>2. OneRow'
  BY <1>1 DEF OneRow
<1>3. SavingInv'
  BY <1>1 DEF SavingInv
<1>4. ExpiringInv'
  <2> SUFFICES ASSUME NEW c \in Crons, cron[c].pc = "expire", NEW j \in BatchJobs(c)', j \notin contended
               PROVE  /\ \A x \in boosted : JobOf(x) = j => x \in cron[c].batch
                      /\ "remove" \notin cron[c].open => ~HasRow(j)
                      /\ "clear" \notin cron[c].open => ~isBoost[j]
    BY <1>1 DEF ExpiringInv
  <2>1. QED
    BY <1>0 DEF ExpiringInv
<1>5. FlagMatchesRow'
  <2> SUFFICES ASSUME NEW j \in Jobs, j \notin contended', j \notin SavingJobs', j \notin ExpiringJobs'
               PROVE  isBoost'[j] <=> HasRow(j)'
    BY DEF FlagMatchesRow
  <2>1. CASE j \notin SavingJobs
    BY <1>1, <2>1 DEF FlagMatchesRow
  <2>2. CASE j \in SavingJobs
    <3>1. PICK b \in Boosts : pc[b] = "saving" /\ JobOf(b) = j
      BY <2>2, JobTerms
    <3>2. pc'[b] # "saving"
      BY <3>1, JobTerms
    <3>3. open[b] = {}
      BY <3>1, <3>2
    <3>4. isBoost[j] /\ HasRow(j)
      BY <3>1, <3>3 DEF SavingInv
    <3>5. QED
      BY <1>1, <3>4
  <2>3. QED
    BY <2>1, <2>2
<1>6. QED
  BY <1>2, <1>3, <1>4, <1>5

LEMMA FlagCheckStep ==
  ASSUME TypeOK, FlagInv, NEW b \in Boosts, BoostCheck(b)
  PROVE  FlagInv'
<1> USE DEF FlagInv, tables
<1>0. pc \in [Requests -> Labels] /\ open \in [Boosts -> SUBSET {"flag", "insert"}] /\ b \in Requests
  BY KindsInRequests DEF TypeOK
<1>1. CASE pc'[b] = "rejected"
  <2>1. pc[b] = "priced" /\ UNCHANGED <<input, boosted, isBoost, contended, open, cron>>
        /\ pc' = [pc EXCEPT ![b] = "rejected"]
    BY <1>0, <1>1 DEF BoostCheck, Goto
  <2>2. QED
    BY <1>0, <2>1, KindsInRequests, FlagFrame
<1>2. CASE pc'[b] = "saving"
  <2> DEFINE j == JobOf(b)
  <2>1. /\ UNCHANGED <<input, boosted, isBoost, cron>>
        /\ pc' = [pc EXCEPT ![b] = "saving"] /\ open' = [open EXCEPT ![b] = {"flag", "insert"}]
        /\ contended' = contended \cup ({j} \cap (SavingJobs \cup ExpiringJobs))
        /\ ~HasRow(j) /\ j \in Jobs
    BY <1>0, <1>2, BoostInputs DEF BoostCheck, Goto
  <2>2. /\ pc'[b] = "saving" /\ open'[b] = {"flag", "insert"}
        /\ \A x \in Boosts \ {b} : pc'[x] = pc[x] /\ open'[x] = open[x]
    BY <1>0, <2>1, KindsInRequests
  <2>3. OneRow'
    BY <2>1, JobTerms DEF OneRow
  <2>4. SavingInv'
    <3> SUFFICES ASSUME NEW x \in Boosts, pc'[x] = "saving", JobOf(x) \notin contended'
                 PROVE  /\ JobOf(x) \notin ExpiringJobs'
                        /\ \A y \in Boosts : pc'[y] = "saving" /\ JobOf(y) = JobOf(x) => y = x
                        /\ HasRow(JobOf(x)) <=> "insert" \notin open'[x]
                        /\ isBoost[JobOf(x)] <=> "flag" \notin open'[x]
      BY <2>1, JobTerms DEF SavingInv
    <3>1. CASE x = b
      <4>1. j \notin SavingJobs /\ j \notin ExpiringJobs /\ j \notin contended
        BY <2>1, <3>1
      <4>2. ~isBoost[j]
        BY <2>1, <4>1 DEF FlagMatchesRow
      <4>3. QED
        BY <2>1, <2>2, <3>1, <4>1, <4>2, JobTerms
    <3>2. CASE x # b
      <4>1. pc[x] = "saving" /\ JobOf(x) \in SavingJobs /\ JobOf(x) \notin contended
        BY <2>1, <2>2, <3>2, JobTerms
      <4>2. JobOf(x) # j
        BY <2>1, <4>1
      <4>3. QED
        BY <2>1, <2>2, <3>2, <4>1, <4>2, JobTerms DEF SavingInv
    <3>3. QED
      BY <3>1, <3>2
  <2>5. ExpiringInv'
    BY <2>1, JobTerms DEF ExpiringInv
  <2>6. FlagMatchesRow'
    BY <2>1, <2>2, JobTerms DEF FlagMatchesRow
  <2>7. QED
    BY <2>3, <2>4, <2>5, <2>6
<1>3. QED
  BY <1>0, <1>1, <1>2 DEF BoostCheck, Goto

LEMMA FlagBranchStep ==
  ASSUME TypeOK, FlagInv, NEW b \in Boosts, BoostFlag(b) \/ BoostInsert(b)
  PROVE  FlagInv'
<1> USE DEF FlagInv, tables
<1> DEFINE j == JobOf(b)
<1>0. /\ isBoost \in [Jobs -> BOOLEAN] /\ open \in [Boosts -> SUBSET {"flag", "insert"}]
      /\ j \in Jobs
  BY BoostInputs DEF TypeOK
<1>1. /\ pc[b] = "saving" /\ UNCHANGED <<input, pc, cron, contended>>
      /\ \A x \in Boosts \ {b} : open'[x] = open[x]
      /\ \/ /\ isBoost' = [isBoost EXCEPT ![j] = TRUE] /\ boosted' = boosted
            /\ "flag" \notin open'[b] /\ ("insert" \in open'[b] <=> "insert" \in open[b])
         \/ /\ isBoost' = isBoost
            /\ boosted' = IF HasRow(j) THEN boosted ELSE boosted \cup {b}
            /\ "insert" \notin open'[b] /\ ("flag" \in open'[b] <=> "flag" \in open[b])
  BY <1>0 DEF BoostFlag, BoostInsert, Settle, Unique, ghosts
<1>2. /\ \A k : k # j => (HasRow(k)' <=> HasRow(k))
      /\ \A k \in Jobs : k # j => (isBoost'[k] <=> isBoost[k])
      /\ HasRow(j)' <=> HasRow(j) \/ boosted' # boosted
  BY <1>0, <1>1, JobTerms
<1>3. OneRow'
  BY <1>1, JobTerms DEF OneRow
<1>4. j \in SavingJobs /\ (j \notin contended => j \notin ExpiringJobs)
  BY <1>1, JobTerms DEF SavingInv
<1>5. SavingInv'
  <2> SUFFICES ASSUME NEW x \in Boosts, pc'[x] = "saving", JobOf(x) \notin contended'
               PROVE  /\ JobOf(x) \notin ExpiringJobs'
                      /\ \A y \in Boosts : pc'[y] = "saving" /\ JobOf(y) = JobOf(x) => y = x
                      /\ HasRow(JobOf(x))' <=> "insert" \notin open'[x]
                      /\ isBoost'[JobOf(x)] <=> "flag" \notin open'[x]
    BY <1>1, JobTerms DEF SavingInv
  <2>1. /\ JobOf(x) \notin ExpiringJobs /\ JobOf(x) \in Jobs
        /\ \A y \in Boosts : pc[y] = "saving" /\ JobOf(y) = JobOf(x) => y = x
        /\ HasRow(JobOf(x)) <=> "insert" \notin open[x]
        /\ isBoost[JobOf(x)] <=> "flag" \notin open[x]
    BY <1>1, BoostInputs DEF SavingInv
  <2>2. JobOf(x) \notin ExpiringJobs'
    BY <1>1, <2>1, JobTerms
  <2>3. CASE x = b
    BY <1>0, <1>1, <1>2, <2>1, <2>2, <2>3, JobTerms
  <2>4. CASE x # b
    <3>1. JobOf(x) # j
      BY <1>1, <2>1, <2>4
    <3>2. QED
      BY <1>1, <1>2, <2>1, <2>2, <2>4, <3>1, JobTerms
  <2>5. QED
    BY <2>3, <2>4
<1>6. ExpiringInv'
  <2> SUFFICES ASSUME NEW c \in Crons, cron[c].pc = "expire", NEW k \in BatchJobs(c) \ contended
               PROVE  /\ \A x \in boosted' : JobOf(x) = k => x \in cron[c].batch
                      /\ "remove" \notin cron[c].open => ~HasRow(k)'
                      /\ "clear" \notin cron[c].open => ~isBoost'[k]
    BY <1>1, JobTerms DEF ExpiringInv
  <2>1. k \in ExpiringJobs
    BY JobTerms, <1>1
  <2>2. k # j
    BY <1>4, <2>1
  <2>3. k \in Jobs
    <3>1. cron[c].batch \subseteq Boosts
      BY DEF TypeOK
    <3>2. QED
      BY <1>1, <3>1, JobTerms, BoostInputs
  <2>4. /\ \A x \in boosted : JobOf(x) = k => x \in cron[c].batch
        /\ "remove" \notin cron[c].open => ~HasRow(k)
        /\ "clear" \notin cron[c].open => ~isBoost[k]
    BY DEF ExpiringInv
  <2>5. QED
    BY <1>1, <1>2, <2>2, <2>3, <2>4
<1>7. FlagMatchesRow'
  <2> SUFFICES ASSUME NEW k \in Jobs, k \notin contended', k \notin SavingJobs', k \notin ExpiringJobs'
               PROVE  isBoost'[k] <=> HasRow(k)'
    BY DEF FlagMatchesRow
  <2>1. k \notin contended /\ k \notin SavingJobs /\ k \notin ExpiringJobs /\ k # j
    BY <1>1, <1>4, JobTerms
  <2>2. QED
    BY <1>2, <2>1 DEF FlagMatchesRow
<1>8. QED
  BY <1>3, <1>5, <1>6, <1>7

LEMMA FlagFetchStep ==
  ASSUME TypeOK, FlagInv, NEW c \in Crons, CronFetch(c)
  PROVE  FlagInv'
<1> USE DEF FlagInv, tables
<1>0. /\ cron \in [Crons -> [pc : {"idle", "fetch", "expire"}, offset : Nat,
                             batch : SUBSET Boosts, open : SUBSET {"remove", "clear"}]]
      /\ aged \subseteq boosted
  BY DEF TypeOK
<1>1. PICK B \in Page(cron[c].offset) :
        /\ cron' = [cron EXCEPT ![c] =
                      IF B = {} THEN Sleeping
                      ELSE [pc |-> "expire", offset |-> @.offset, batch |-> B,
                            open |-> {"remove", "clear"}]]
        /\ contended' = contended \cup ({JobOf(b) : b \in B} \cap SavingJobs)
  BY DEF CronFetch
<1>2. B \subseteq boosted /\ cron[c].pc = "fetch"
      /\ UNCHANGED <<input, boosted, isBoost, pc, open>>
  BY <1>0 DEF Page, DueRows, CronFetch, memory
<1>3. /\ cron'[c].pc = "expire" => cron'[c].batch = B /\ cron'[c].open = {"remove", "clear"}
      /\ \A x \in Crons \ {c} : cron'[x] = cron[x]
  BY <1>0, <1>1 DEF Sleeping
<1>4. \A j : j \in ExpiringJobs' <=> \/ j \in ExpiringJobs
                                     \/ cron'[c].pc = "expire" /\ \E b \in B : JobOf(b) = j
  BY <1>2, <1>3, JobTerms
<1>5. \A j : \/ j \in contended
             \/ (\E b \in B : JobOf(b) = j) /\ j \in SavingJobs
             \/ j \notin contended'
  BY <1>1
<1>6. OneRow'
  BY <1>2, JobTerms DEF OneRow
<1>7. SavingInv'
  <2>1. ASSUME NEW x \in Boosts, pc[x] = "saving", JobOf(x) \notin contended'
        PROVE  JobOf(x) \notin ExpiringJobs' /\ JobOf(x) \notin contended
    <3>1. JobOf(x) \in SavingJobs /\ JobOf(x) \notin contended
      BY <1>1, <1>2, <2>1, JobTerms
    <3>2. \A b \in B : JobOf(b) # JobOf(x)
      BY <1>1, <2>1, <3>1
    <3>3. QED
      BY <1>4, <2>1, <3>1, <3>2 DEF SavingInv
  <2>2. QED
    BY <1>2, <2>1, JobTerms DEF SavingInv
<1>8. ExpiringInv'
  <2> SUFFICES ASSUME NEW d \in Crons, cron'[d].pc = "expire",
                      NEW j, j \in BatchJobs(d)', j \notin contended'
               PROVE  /\ \A x \in boosted : JobOf(x) = j => x \in cron'[d].batch
                      /\ "remove" \notin cron'[d].open => ~HasRow(j)
                      /\ "clear" \notin cron'[d].open => ~isBoost[j]
    BY <1>2, JobTerms DEF ExpiringInv
  <2>1. CASE d = c
    <3>1. PICK b \in B : JobOf(b) = j
      BY <1>2, <1>3, <2>1, JobTerms
    <3>2. QED
      BY <1>2, <1>3, <2>1, <3>1 DEF OneRow
  <2>2. CASE d # c
    <3>1. cron'[d] = cron[d] /\ j \in BatchJobs(d) /\ j \notin contended
      BY <1>1, <1>2, <1>3, <2>2, JobTerms
    <3>2. QED
      BY <3>1 DEF ExpiringInv
  <2>3. QED
    BY <2>1, <2>2
<1>9. FlagMatchesRow'
  BY <1>1, <1>2, <1>4, JobTerms DEF FlagMatchesRow
<1>10. QED
  BY <1>6, <1>7, <1>8, <1>9

LEMMA FlagCronStep ==
  ASSUME TypeOK, FlagInv, NEW c \in Crons, CronStep(c)
  PROVE  FlagInv'
<1> USE DEF FlagInv, tables
<1>0. /\ cron \in [Crons -> [pc : {"idle", "fetch", "expire"}, offset : Nat,
                             batch : SUBSET Boosts, open : SUBSET {"remove", "clear"}]]
      /\ isBoost \in [Jobs -> BOOLEAN]
  BY DEF TypeOK
<1>1. CASE CronStart(c)
  <2>1. /\ UNCHANGED <<input, boosted, isBoost, contended, pc, open>>
        /\ cron[c].pc # "expire" /\ cron'[c].pc # "expire"
        /\ \A d \in Crons \ {c} : cron'[d] = cron[d]
    BY <1>0, <1>1 DEF CronStart, Sleeping, memory
  <2>2. QED
    BY <2>1, FlagFrame
<1>2. CASE CronFetch(c)
  BY <1>2, FlagFetchStep
<1>3. CASE CronRemove(c)
  <2>1. /\ cron[c].pc = "expire" /\ boosted' = boosted \ cron[c].batch
        /\ UNCHANGED <<input, isBoost, contended, pc, open>>
        /\ \A d \in Crons : /\ cron'[d].pc = cron[d].pc /\ cron'[d].batch = cron[d].batch
                            /\ "clear" \in cron'[d].open <=> "clear" \in cron[d].open
                            /\ d # c => cron'[d].open = cron[d].open
    BY <1>0, <1>3 DEF CronRemove, memory, ghosts
  <2>2. /\ \A j : j \in ExpiringJobs' <=> j \in ExpiringJobs
        /\ \A d \in Crons : \A j : j \in BatchJobs(d)' <=> j \in BatchJobs(d)
        /\ \A j : HasRow(j)' => HasRow(j)
        /\ \A j : j \notin ExpiringJobs => (HasRow(j)' <=> HasRow(j))
    BY <2>1, JobTerms
  <2>3. OneRow'
    BY <2>1, JobTerms DEF OneRow
  <2>4. SavingInv'
    BY <2>1, <2>2, JobTerms DEF SavingInv
  <2>5. ExpiringInv'
    <3> SUFFICES ASSUME NEW d \in Crons, cron[d].pc = "expire", NEW j \in BatchJobs(d) \ contended
                 PROVE  /\ \A x \in boosted' : JobOf(x) = j => x \in cron[d].batch
                        /\ "remove" \notin cron'[d].open => ~HasRow(j)'
                        /\ "clear" \notin cron'[d].open => ~isBoost[j]
      BY <2>1, <2>2, JobTerms DEF ExpiringInv
    <3>1. /\ \A x \in boosted : JobOf(x) = j => x \in cron[d].batch
          /\ "remove" \notin cron[d].open => ~HasRow(j)
          /\ "clear" \notin cron[d].open => ~isBoost[j]
      BY DEF ExpiringInv
    <3>2. CASE d = c
      BY <2>1, <3>1, <3>2, JobTerms
    <3>3. CASE d # c
      BY <2>1, <2>2, <3>1, <3>3
    <3>4. QED
      BY <3>2, <3>3
  <2>6. FlagMatchesRow'
    BY <2>1, <2>2, JobTerms DEF FlagMatchesRow
  <2>7. QED
    BY <2>3, <2>4, <2>5, <2>6
<1>4. CASE CronClear(c)
  <2>1. /\ cron[c].pc = "expire"
        /\ \A j \in Jobs : isBoost'[j] <=> isBoost[j] /\ j \notin BatchJobs(c)
        /\ UNCHANGED <<input, boosted, contended, pc, open>>
        /\ \A d \in Crons : /\ cron'[d].pc = cron[d].pc /\ cron'[d].batch = cron[d].batch
                            /\ "remove" \in cron'[d].open <=> "remove" \in cron[d].open
                            /\ d # c => cron'[d].open = cron[d].open
    BY <1>0, <1>4 DEF CronClear, Cleared, memory, ghosts
  <2>2. /\ \A j : j \in ExpiringJobs' <=> j \in ExpiringJobs
        /\ \A d \in Crons : \A j : j \in BatchJobs(d)' <=> j \in BatchJobs(d)
        /\ \A j : HasRow(j)' <=> HasRow(j)
        /\ \A j : j \in BatchJobs(c) => j \in ExpiringJobs
    BY <2>1, JobTerms
  <2>3. OneRow'
    BY <2>1, JobTerms DEF OneRow
  <2>4. SavingInv'
    BY <2>1, <2>2, JobTerms, BoostInputs DEF SavingInv
  <2>5. ExpiringInv'
    <3> SUFFICES ASSUME NEW d \in Crons, cron[d].pc = "expire", NEW j \in BatchJobs(d) \ contended
                 PROVE  /\ \A x \in boosted : JobOf(x) = j => x \in cron[d].batch
                        /\ "remove" \notin cron'[d].open => ~HasRow(j)
                        /\ "clear" \notin cron'[d].open => ~isBoost'[j]
      BY <2>1, <2>2, JobTerms DEF ExpiringInv
    <3>1. /\ \A x \in boosted : JobOf(x) = j => x \in cron[d].batch
          /\ "remove" \notin cron[d].open => ~HasRow(j)
          /\ "clear" \notin cron[d].open => ~isBoost[j]
      BY DEF ExpiringInv
    <3>2. j \in Jobs
      <4>1. cron[d].batch \subseteq Boosts
        BY <1>0
      <4>2. QED
        BY <2>1, <4>1, JobTerms, BoostInputs
    <3>3. QED
      BY <2>1, <3>1, <3>2
  <2>6. FlagMatchesRow'
    BY <2>1, <2>2, JobTerms DEF FlagMatchesRow
  <2>7. QED
    BY <2>3, <2>4, <2>5, <2>6
<1>5. CASE CronQueue(c) \/ CronFails(c)
  <2>1. /\ cron[c].pc = "expire" /\ cron[c].open = {} /\ cron'[c].pc # "expire"
        /\ UNCHANGED <<input, boosted, isBoost, contended, pc, open>>
        /\ \A d \in Crons \ {c} : cron'[d] = cron[d]
    <3>1. CASE CronQueue(c)
      BY <1>0, <3>1 DEF CronQueue, BatchDone, Sleeping, memory, ghosts
    <3>2. CASE CronFails(c)
      BY <1>0, <3>2 DEF CronFails, BatchDone, Sleeping, memory, ghosts
    <3>3. QED
      BY <1>5, <3>1, <3>2
  <2>2. /\ \A j : j \in ExpiringJobs => j \in ExpiringJobs' \/ j \in BatchJobs(c)
        /\ \A j : j \in ExpiringJobs' => j \in ExpiringJobs
        /\ \A d \in Crons : d # c => \A j : j \in BatchJobs(d)' <=> j \in BatchJobs(d)
        /\ \A j : HasRow(j)' <=> HasRow(j)
    BY <2>1, JobTerms
  <2>3. OneRow'
    BY <2>1, JobTerms DEF OneRow
  <2>4. SavingInv'
    BY <2>1, <2>2, JobTerms DEF SavingInv
  <2>5. ExpiringInv'
    BY <2>1, <2>2, JobTerms DEF ExpiringInv
  <2>6. FlagMatchesRow'
    <3>1. \A j \in BatchJobs(c) \ contended : ~HasRow(j) /\ ~isBoost[j]
      BY <2>1 DEF ExpiringInv
    <3>2. QED
      BY <2>1, <2>2, <3>1, JobTerms DEF FlagMatchesRow
  <2>7. QED
    BY <2>3, <2>4, <2>5, <2>6
<1>6. QED
  BY <1>1, <1>2, <1>3, <1>4, <1>5 DEF CronStep

LEMMA FlagInvStep ==
  ASSUME TypeOK, FlagInv, [Next]_vars
  PROVE  FlagInv'
<1> USE KindsInRequests DEF tables, memory, ghosts, Goto
<1>0. pc \in [Requests -> Labels]
  BY DEF TypeOK
<1>1. ASSUME NEW r \in Requests, Start(r) PROVE FlagInv'
  BY <1>0, <1>1, FlagFrame
     DEF Start, BoostRefused, BoostReadPoints, OrderReadPoints, SaverRefused, SaverLoad, ReviewJudge
<1>2. ASSUME NEW r \in Requests, Continue(r) PROVE FlagInv'
  <2>1. CASE r \in Boosts /\ BoostCheck(r)
    BY <2>1, FlagCheckStep
  <2>2. CASE r \in Boosts /\ (BoostFlag(r) \/ BoostInsert(r))
    BY <2>2, FlagBranchStep
  <2>3. CASE r \in Boosts /\ BoostEmbed(r)
    BY <1>0, <2>3, FlagFrame DEF BoostEmbed, AfterSave
  <2>4. CASE r \in Boosts /\ ChargeRead(r)
    BY <1>0, <2>4, FlagFrame DEF ChargeRead
  <2>5. CASE r \in Orders /\ (OrderLoad(r) \/ OrderRecord(r) \/ OrderHistory(r))
    BY <1>0, <2>5, FlagFrame DEF OrderLoad, OrderRecord, OrderHistory
  <2>6. CASE \/ r \in Savers /\ SaverFails(r)
             \/ r \in Reviews /\ ReviewLoad(r)
    BY <1>0, <2>6, FlagFrame DEF SaverFails, ReviewLoad
  <2>7. CASE SaveSelect(r)
    BY <1>0, <2>7, FlagFrame DEF SaveSelect
  <2>8. CASE SaveUpdate(r)
    BY <1>0, <2>8, FlagFrame DEF SaveUpdate
  <2>9. QED
    BY <1>2, <2>1, <2>2, <2>3, <2>4, <2>5, <2>6, <2>7, <2>8 DEF Continue
<1>3. ASSUME NEW c \in Crons, CronStep(c) PROVE FlagInv'
  BY <1>3, FlagCronStep
<1>4. ASSUME NEW b \in Boosts, RowAges(b) PROVE FlagInv'
  BY <1>4, FlagFrame DEF RowAges
<1>5. CASE Crash
  <2>1. /\ UNCHANGED <<input, boosted, isBoost>>
        /\ contended' = contended \cup SavingJobs \cup ExpiringJobs
        /\ \A b \in Boosts : pc'[b] # "saving"
        /\ \A c \in Crons : cron'[c].pc # "expire"
    BY <1>0, <1>5 DEF Crash, Live, Ended, Sleeping
  <2>2. \A j : HasRow(j)' <=> HasRow(j)
    BY <2>1, JobTerms
  <2>3. OneRow'
    BY <2>1, JobTerms DEF FlagInv, OneRow
  <2>4. SavingInv' /\ ExpiringInv'
    BY <2>1 DEF SavingInv, ExpiringInv
  <2>5. FlagMatchesRow'
    BY <2>1, <2>2 DEF FlagInv, FlagMatchesRow
  <2>6. QED
    BY <2>3, <2>4, <2>5 DEF FlagInv
<1>6. CASE UNCHANGED vars
  BY <1>6, FlagFrame DEF vars
<1>7. QED
  BY <1>1, <1>2, <1>3, <1>4, <1>5, <1>6 DEF Next

(* FlagMatchesRow: isBoost says whether the job has a boosted row, on every *)
(* job where no boost met another boost, a cron or the end of the process, *)
(* whatever fails half way and however many crons work on the same batch.  *)
THEOREM FlagsMatchRows == Spec => []FlagMatchesRow
<1>1. FlagInv => FlagMatchesRow
  BY DEF FlagInv
<1>2. QED
  BY <1>1, FlagInvInit, FlagInvStep, TypeCorrect, PTL DEF Spec

-----------------------------------------------------------------------------
(* The handlers *)

(* What the handlers hold together.                                        *)
HandlersInv == TypeOK /\ PointsInv /\ TrailInv /\ RowsInv

LEMMA HandlersInvariant == Spec => []HandlersInv
<1>1. Init => PointsInv /\ TrailInv /\ RowsInv
  BY PointsInvInit, TrailInvInit, RowsInvInit
<1>2. TypeOK /\ PointsInv /\ TrailInv /\ RowsInv /\ [Next]_vars
        => PointsInv' /\ TrailInv' /\ RowsInv'
  BY PointsInvStep, TrailInvStep, RowsInvStep
<1>3. QED
  BY <1>1, <1>2, TypeCorrect, PTL DEF Spec, HandlersInv

-----------------------------------------------------------------------------
(* The account                                                             *)

(* What an UPDATE does to the balance while no windows have overlapped.    *)
LEMMA UpdateAddsDelta ==
  ASSUME TypeOK, PointsInv, ~torn, NEW r \in Requests, SaveUpdate(r)
  PROVE  row'.totalPoints = row.totalPoints + Delta(r)
  BY DEF SaveUpdate, PointsInv, ExactInv

LEMMA LedgerFixed ==
  ASSUME input' = input
  PROVE  [r \in Orders \cup Boosts |-> Delta(r)]' = [r \in Orders \cup Boosts |-> Delta(r)]
  BY DEF Delta, PointsOf

LEMMA LedgerInit == Init => Ledger!Init
<1> SUFFICES ASSUME Init PROVE Ledger!Init
  OBVIOUS
<1>1. \A r \in Orders \cup Boosts : Delta(r) \in Int
  <2>1. \A b \in Boosts : PointsOf(b) \in Int
    BY PointsAssumption DEF Init, PointsOf
  <2>2. \A plan : PlanPoints(plan) \in Int
    BY DEF PlanPoints
  <2>3. QED
    BY <2>1, <2>2 DEF Delta
<1>2. [r \in Orders \cup Boosts |-> Delta(r)] \in [Orders \cup Boosts -> Int]
  BY <1>1
<1>3. row.totalPoints = InitialPoints /\ written = {} /\ inserted = {}
      /\ transactions = {} /\ history = {}
  BY DEF Init
<1>4. QED
  BY <1>2, <1>3 DEF Ledger!Init, Ledger!Entries

(* A step that touches none of the columns the account is read from.       *)
LEMMA LedgerStutter ==
  ASSUME UNCHANGED <<input, row, written, inserted, transactions, history>>
  PROVE  UNCHANGED Ledger!ledger
  BY LedgerFixed DEF Ledger!ledger

(* The UPDATE of a handler posts what it was meant to add, once.           *)
LEMMA LedgerPost ==
  ASSUME HandlersInv, ~torn, NEW r \in Requests, SaveUpdate(r)
  PROVE  [Ledger!Next]_(Ledger!ledger)
<1> USE DEF HandlersInv
<1>1. /\ row'.totalPoints = row.totalPoints + Delta(r)
      /\ written' = written \cup {r} /\ r \notin written
      /\ UNCHANGED <<input, inserted, transactions, history>>
  BY UpdateAddsDelta DEF SaveUpdate, TrailInv, tables
<1>2. CASE r \in Orders \cup Boosts
  <2>1. r \in Boosts => r \in inserted
    BY DEF SaveUpdate, RowsInv
  <2>2. Ledger!Post(r)
    <3>1. /\ r \notin written \cap (Orders \cup Boosts)
          /\ (written \cap (Orders \cup Boosts))' = (written \cap (Orders \cup Boosts)) \cup {r}
      BY <1>1, <1>2
    <3>2. [x \in Orders \cup Boosts |-> Delta(x)][r] = Delta(r)
      BY <1>2
    <3>3. QED
      BY <1>1, <2>1, <3>1, <3>2, LedgerFixed DEF Ledger!Post
  <2>3. QED
    BY <1>2, <2>2 DEF Ledger!Next, Ledger!Entries
<1>3. CASE r \notin Orders \cup Boosts
  <2>1. Delta(r) = 0 /\ row.totalPoints \in Int
    BY <1>3 DEF Delta, TypeOK, Row
  <2>2. row'.totalPoints = row.totalPoints
    BY <1>1, <2>1
  <2>3. (written \cap (Orders \cup Boosts))' = written \cap (Orders \cup Boosts)
    BY <1>1, <1>3
  <2>4. UNCHANGED Ledger!ledger
    BY <1>1, <2>2, <2>3, LedgerFixed DEF Ledger!ledger
  <2>5. QED
    BY <2>4
<1>4. QED
  BY <1>2, <1>3

LEMMA LedgerStep ==
  ASSUME HandlersInv, [Next]_vars
  PROVE  [torn' \/ Ledger!Next]_(Ledger!ledger)
<1> USE DEF HandlersInv, tables, memory, ghosts
<1>1. ASSUME NEW r \in Requests, Start(r) PROVE UNCHANGED Ledger!ledger
  BY <1>1, LedgerStutter
     DEF Start, BoostRefused, BoostReadPoints, OrderReadPoints, SaverRefused, SaverLoad, ReviewJudge
<1>2. ASSUME NEW r \in Requests, Continue(r)
      PROVE  [torn' \/ Ledger!Next]_(Ledger!ledger)
  <2>1. CASE r \in Boosts /\ BoostInsert(r)
    <3>1. UNCHANGED <<input, row, written, transactions, history>>
          /\ (inserted' = inserted \/ inserted' = inserted \cup {r})
      BY <2>1 DEF BoostInsert
    <3>2. CASE inserted' = inserted
      BY <3>1, <3>2, LedgerStutter
    <3>3. CASE inserted' = inserted \cup {r}
      <4>1. Ledger!Back(r)
        BY <3>1, <3>3, LedgerFixed DEF Ledger!Back
      <4>2. QED
        BY <2>1, <4>1 DEF Ledger!Next
    <3>4. QED
      BY <3>1, <3>2, <3>3
  <2>2. CASE r \in Orders /\ OrderRecord(r)
    <3>1. Ledger!Record(r)
      <4>1. r \in written \cap (Orders \cup Boosts)
        BY <2>2 DEF OrderRecord, TrailInv
      <4>2. UNCHANGED <<input, row, written, inserted, history>> /\ transactions' = transactions \cup {r}
        BY <2>2 DEF OrderRecord
      <4>3. QED
        BY <4>1, <4>2, LedgerFixed DEF Ledger!Record
    <3>2. QED
      BY <2>2, <3>1 DEF Ledger!Next
  <2>3. CASE r \in Orders /\ OrderHistory(r)
    <3>1. Ledger!Journal(r)
      <4>1. r \in transactions
        BY <2>3 DEF OrderHistory, TrailInv
      <4>2. UNCHANGED <<input, row, written, inserted, transactions>> /\ history' = history \cup {r}
        BY <2>3 DEF OrderHistory
      <4>3. QED
        BY <4>1, <4>2, LedgerFixed DEF Ledger!Journal
    <3>2. QED
      BY <2>3, <3>1 DEF Ledger!Next
  <2>4. CASE SaveUpdate(r)
    <3>1. CASE torn
      BY <2>4, <3>1 DEF SaveUpdate
    <3>2. CASE ~torn
      BY <2>4, <3>2, LedgerPost
    <3>3. QED
      BY <3>1, <3>2
  <2>5. CASE \/ r \in Boosts /\ (BoostCheck(r) \/ BoostFlag(r) \/ BoostEmbed(r) \/ ChargeRead(r))
             \/ r \in Orders /\ OrderLoad(r)
             \/ r \in Savers /\ SaverFails(r)
             \/ r \in Reviews /\ ReviewLoad(r)
             \/ SaveSelect(r)
    <3>1. UNCHANGED Ledger!ledger
      BY <2>5, LedgerStutter
         DEF BoostCheck, BoostFlag, BoostEmbed, ChargeRead, OrderLoad, SaverFails, ReviewLoad, SaveSelect
    <3>2. QED
      BY <3>1
  <2>6. QED
    BY <1>2, <2>1, <2>2, <2>3, <2>4, <2>5 DEF Continue
<1>3. ASSUME NEW c \in Crons, CronStep(c) PROVE UNCHANGED Ledger!ledger
  BY <1>3, LedgerStutter
     DEF CronStep, CronStart, CronFetch, CronRemove, CronClear, CronQueue, CronFails
<1>4. ASSUME NEW b \in Boosts, RowAges(b) PROVE UNCHANGED Ledger!ledger
  BY <1>4, LedgerStutter DEF RowAges
<1>5. CASE Crash
  BY <1>5, LedgerStutter DEF Crash
<1>6. CASE UNCHANGED vars
  BY <1>6, LedgerStutter DEF vars
<1>7. QED
  BY <1>1, <1>2, <1>3, <1>4, <1>5, <1>6 DEF Next

(* LedgerUnlessTorn: until two windows overlap, BoostPoints implements the *)
(* account PointLedger: every step of a handler, a cron or a crash posts   *)
(* one entry for its amount, backs, records or journals one, or leaves the *)
(* account alone.                                                          *)
THEOREM LedgerImplemented == Spec => LedgerUnlessTorn
  BY LedgerInit, LedgerStep, HandlersInvariant, PTL DEF Spec, LedgerUnlessTorn

-----------------------------------------------------------------------------
(* No overdraft                                                            *)

(* Until boosts overlap there is one between its check and its deduction,  *)
(* and the balance still covers it: the others only add to the balance.    *)
OverdraftInv ==
    ~overlapped =>
      /\ \A x, y \in Boosts : Boosting(x) /\ Boosting(y) => x = y
      /\ ~torn =>
           /\ row.totalPoints >= 0
           /\ \A b \in Boosts :
                /\ pc[b] = "priced" => seen[b] <= row.totalPoints
                /\ pc[b] \in {"saving", "charging", "read", "diffed"}
                     => PointsOf(b) <= row.totalPoints

LEMMA OverdraftInvInit == Init => OverdraftInv
  BY PointsAssumption, KindsInRequests DEF Init, OverdraftInv, Boosting

(* A step that leaves the balance alone and moves no boost towards its     *)
(* deduction but over the labels after the check.                          *)
LEMMA OverdraftFrame ==
  ASSUME OverdraftInv, UNCHANGED <<input, row, overlapped>>, torn => torn',
         \A b \in Boosts :
            /\ Boosting(b)' => Boosting(b)
            /\ pc'[b] = "priced" => pc[b] = "priced" /\ seen'[b] = seen[b]
            /\ pc'[b] \in {"saving", "charging", "read", "diffed"} =>
                 pc[b] \in {"saving", "charging", "read", "diffed"}
  PROVE  OverdraftInv'
<1>1. \A b : PointsOf(b)' = PointsOf(b)
  BY DEF PointsOf
<1>2. QED
  BY <1>1 DEF OverdraftInv

LEMMA OverdraftUpdateStep ==
  ASSUME TypeOK, PointsInv, OverdraftInv, NEW r \in Requests, SaveUpdate(r)
  PROVE  OverdraftInv'
<1>0. pc \in [Requests -> Labels] /\ row.totalPoints \in Int
      /\ seen \in [Boosts \cup Orders -> Int]
  BY DEF TypeOK, Row
<1>1. /\ UNCHANGED <<input, seen, torn, overlapped>> /\ pc[r] = "diffed"
      /\ \A b \in Boosts : pc'[b] = IF b = r THEN "done" ELSE pc[b]
  BY <1>0, KindsInRequests, KindsAssumption DEF SaveUpdate, Goto
<1> SUFFICES ASSUME ~overlapped
             PROVE  /\ \A x, y \in Boosts : Boosting(x)' /\ Boosting(y)' => x = y
                    /\ ~torn =>
                         /\ row'.totalPoints >= 0
                         /\ \A b \in Boosts :
                              /\ pc'[b] = "priced" => seen[b] <= row'.totalPoints
                              /\ pc'[b] \in {"saving", "charging", "read", "diffed"}
                                   => PointsOf(b)' <= row'.totalPoints
  BY <1>1 DEF OverdraftInv
<1>2. \A x, y \in Boosts : Boosting(x)' /\ Boosting(y)' => x = y
  BY <1>1 DEF OverdraftInv, Boosting
<1>3. ASSUME ~torn
      PROVE  /\ row'.totalPoints >= 0
             /\ \A b \in Boosts :
                  /\ pc'[b] = "priced" => seen[b] <= row'.totalPoints
                  /\ pc'[b] \in {"saving", "charging", "read", "diffed"}
                       => PointsOf(b)' <= row'.totalPoints
  <2>1. row'.totalPoints = row.totalPoints + Delta(r)
    BY <1>3, UpdateAddsDelta
  <2>2. CASE r \in Boosts
    <3>1. Delta(r) = 0 - PointsOf(r) /\ PointsOf(r) <= row.totalPoints /\ PointsOf(r) \in Int
      BY <1>1, <1>3, <2>2, BoostInputs DEF Delta, OverdraftInv
    <3>2. \A b \in Boosts : pc'[b] \notin {"priced", "saving", "charging", "read", "diffed"}
      BY <1>1, <2>2 DEF OverdraftInv, Boosting
    <3>3. QED
      BY <1>0, <2>1, <3>1, <3>2
  <2>3. CASE r \notin Boosts
    <3>1. Delta(r) \in Nat
      BY <2>3 DEF Delta, PlanPoints
    <3>2. \A b \in Boosts : PointsOf(b)' = PointsOf(b) /\ PointsOf(b) \in Int
      BY <1>1, BoostInputs DEF PointsOf
    <3>3. QED
      BY <1>0, <1>1, <1>3, <2>1, <2>3, <3>1, <3>2 DEF OverdraftInv
  <2>4. QED
    BY <2>2, <2>3
<1>4. QED
  BY <1>2, <1>3

LEMMA OverdraftInvStep ==
  ASSUME TypeOK, PointsInv, OverdraftInv, [Next]_vars
  PROVE  OverdraftInv'
<1> USE KindsInRequests DEF tables, memory, ghosts, Goto
<1>0. pc \in [Requests -> Labels] /\ seen \in [Boosts \cup Orders -> Int]
      /\ row.totalPoints \in Int
  BY DEF TypeOK, Row
<1>1. ASSUME NEW r \in Requests, Start(r) PROVE OverdraftInv'
  <2>1. CASE r \in Boosts /\ BoostReadPoints(r)
    <3>1. /\ UNCHANGED <<input, row, torn>>
          /\ overlapped' <=> overlapped \/ \E x \in Boosts : Boosting(x)
          /\ pc'[r] = "priced" /\ seen'[r] = row.totalPoints
          /\ \A b \in Boosts \ {r} : pc'[b] = pc[b]
      BY <1>0, <2>1 DEF BoostReadPoints
    <3>2. QED
      BY <1>0, <3>1 DEF OverdraftInv, Boosting
  <2>2. CASE r \in Boosts /\ BoostRefused(r)
    BY <1>0, <2>2, OverdraftFrame DEF BoostRefused, Boosting
  <2>3. CASE r \in Orders /\ OrderReadPoints(r)
    BY <1>0, <2>3, KindsAssumption, OverdraftFrame DEF OrderReadPoints, OpensWindow, Boosting
  <2>4. CASE \/ r \in Savers /\ SaverRefused(r)
             \/ r \in Reviews /\ ReviewJudge(r)
    BY <1>0, <2>4, KindsAssumption, OverdraftFrame DEF SaverRefused, ReviewJudge, Boosting
  <2>5. CASE r \in Savers /\ SaverLoad(r)
    BY <1>0, <2>5, KindsAssumption, OverdraftFrame DEF SaverLoad, OpensWindow, Boosting
  <2>6. QED
    BY <1>1, <2>1, <2>2, <2>3, <2>4, <2>5 DEF Start
<1>2. ASSUME NEW r \in Requests, Continue(r) PROVE OverdraftInv'
  <2>1. CASE r \in Boosts /\ BoostCheck(r)
    <3>1. /\ UNCHANGED <<input, row, torn, overlapped>>
          /\ pc[r] = "priced"
          /\ \/ pc'[r] = "rejected"
             \/ pc'[r] = "saving" /\ PointsOf(r) <= seen[r]
          /\ \A b \in Boosts \ {r} : pc'[b] = pc[b] /\ seen'[b] = seen[b]
      BY <1>0, <2>1 DEF BoostCheck, Affordable
    <3>2. \A b \in Boosts : PointsOf(b)' = PointsOf(b) /\ PointsOf(b) \in Int /\ seen[b] \in Int
      BY <1>0, <3>1, BoostInputs DEF PointsOf
    <3>3. QED
      BY <1>0, <2>1, <3>1, <3>2 DEF OverdraftInv, Boosting
  <2>2. CASE r \in Boosts /\ (BoostFlag(r) \/ BoostInsert(r))
    BY <2>2, OverdraftFrame DEF BoostFlag, BoostInsert, Boosting
  <2>3. CASE r \in Boosts /\ BoostEmbed(r)
    BY <1>0, <2>3, OverdraftFrame DEF BoostEmbed, AfterSave, Boosting
  <2>4. CASE r \in Boosts /\ ChargeRead(r)
    BY <1>0, <2>4, OverdraftFrame DEF ChargeRead, OpensWindow, Boosting
  <2>5. CASE r \in Orders /\ (OrderLoad(r) \/ OrderRecord(r) \/ OrderHistory(r))
    BY <1>0, <2>5, KindsAssumption, OverdraftFrame DEF OrderLoad, OrderRecord, OrderHistory, Boosting
  <2>6. CASE r \in Savers /\ SaverFails(r)
    BY <1>0, <2>6, KindsAssumption, OverdraftFrame DEF SaverFails, Boosting
  <2>7. CASE r \in Reviews /\ ReviewLoad(r)
    BY <1>0, <2>7, KindsAssumption, OverdraftFrame DEF ReviewLoad, OpensWindow, Boosting
  <2>8. CASE SaveSelect(r)
    BY <1>0, <2>8, OverdraftFrame DEF SaveSelect, Boosting
  <2>9. CASE SaveUpdate(r)
    BY <2>9, OverdraftUpdateStep
  <2>10. QED
    BY <1>2, <2>1, <2>2, <2>3, <2>4, <2>5, <2>6, <2>7, <2>8, <2>9 DEF Continue
<1>3. ASSUME NEW c \in Crons, CronStep(c) PROVE OverdraftInv'
  BY <1>3, OverdraftFrame
     DEF CronStep, CronStart, CronFetch, CronRemove, CronClear, CronQueue, CronFails, Boosting
<1>4. ASSUME NEW b \in Boosts, RowAges(b) PROVE OverdraftInv'
  BY <1>4, OverdraftFrame DEF RowAges, Boosting
<1>5. CASE Crash
  <2>1. \A b \in Boosts : pc'[b] \notin {"priced", "saving", "charging", "read", "diffed"}
    BY <1>0, <1>5 DEF Crash, Live, Ended
  <2>2. QED
    BY <1>5, <2>1, OverdraftFrame DEF Crash, Boosting
<1>6. CASE UNCHANGED vars
  BY <1>6, OverdraftFrame DEF vars, Boosting
<1>7. QED
  BY <1>1, <1>2, <1>3, <1>4, <1>5, <1>6 DEF Next

(* NoOverdraft: the check in create, made long before the deduction, keeps *)
(* the balance from going negative as long as no two boosts overlap and no *)
(* windows do, for amounts of either sign and whatever the orders do.      *)
THEOREM NeverOverdrawn == Spec => []NoOverdraft
<1>1. OverdraftInv => NoOverdraft
  BY DEF OverdraftInv, NoOverdraft
<1>2. TypeOK /\ PointsInv /\ OverdraftInv /\ [Next]_vars => OverdraftInv'
  BY OverdraftInvStep
<1>3. HandlersInv => TypeOK /\ PointsInv
  BY DEF HandlersInv
<1>4. QED
  BY <1>1, <1>2, <1>3, OverdraftInvInit, HandlersInvariant, PTL DEF Spec

-----------------------------------------------------------------------------
(* Premium                                                                 *)

PremiumFits(r) == r.isPremium => r.totalPoints # 0

(* Until windows overlap: a handler the hook does not see saves the points *)
(* and the premium column as they are in the row, and an UPDATE that is    *)
(* computed leaves a row that fits.                                        *)
PremiumInv ==
    ~torn =>
      /\ PremiumFits(row)
      /\ \A r \in Requests :
           /\ pc[r] = "read" =>
                /\ "totalPoints" \in entity[r].cols
                /\ ~Hooked(r) => /\ entity[r].val.totalPoints = row.totalPoints
                                 /\ entity[r].val.isPremium = row.isPremium
           /\ pc[r] = "diffed" => PremiumFits(Updated(row, entity[r]))

(* Whatever is saved, the hook makes the UPDATE leave a row that fits; and *)
(* so does an object that changes neither column.                          *)
LEMMA HookFits ==
  ASSUME NEW e \in Entity, NEW db \in Row, NEW hooked \in BOOLEAN,
         PremiumFits(db), "totalPoints" \in e.cols,
         ~hooked => e.val.totalPoints = db.totalPoints /\ e.val.isPremium = db.isPremium
  PROVE  PremiumFits(Updated(db, UpdateOf(e, db, hooked)))
<1>1. CASE ~hooked \/ Changed(e, db) = {}
  <2>1. UpdateOf(e, db, hooked) = [cols |-> Changed(e, db), val |-> e.val]
    BY <1>1 DEF UpdateOf
  <2>2. "totalPoints" \notin Changed(e, db) /\ "isPremium" \notin Changed(e, db)
    BY <1>1 DEF Changed
  <2>3. QED
    BY <2>1, <2>2 DEF Updated, PremiumFits
<1>2. CASE hooked /\ Changed(e, db) # {} /\ e.val.totalPoints # 0
  <2>1. UpdateOf(e, db, hooked) = [cols |-> Changed(e, db), val |-> e.val]
    BY <1>2 DEF UpdateOf, CheckPremiumStatus
  <2>2. "totalPoints" \notin Changed(e, db) => e.val.totalPoints = db.totalPoints
    BY DEF Changed
  <2>3. Updated(db, UpdateOf(e, db, hooked)).totalPoints = e.val.totalPoints
    BY <2>1, <2>2 DEF Updated
  <2>4. QED
    BY <1>2, <2>3 DEF PremiumFits
<1>3. CASE hooked /\ Changed(e, db) # {} /\ e.val.totalPoints = 0
  <2> DEFINE h == [cols |-> e.cols \cup {"isPremium"}, val |-> [e.val EXCEPT !.isPremium = FALSE]]
  <2>1. UpdateOf(e, db, hooked) = [cols |-> Changed(h, db), val |-> h.val]
    BY <1>3 DEF UpdateOf, CheckPremiumStatus
  <2>2. "isPremium" \in h.cols /\ h.val.isPremium = FALSE
    BY DEF Entity, Row
  <2>3. "isPremium" \notin Changed(h, db) => db.isPremium = FALSE
    BY <2>2 DEF Changed
  <2> HIDE DEF h
  <2>4. QED
    BY <2>1, <2>2, <2>3 DEF Updated, PremiumFits
<1>4. QED
  BY <1>1, <1>2, <1>3

LEMMA PremiumInvInit == Init => PremiumInv
  BY DEF Init, PremiumInv, PremiumFits

LEMMA HookedFixed ==
  ASSUME input' = input, NEW r
  PROVE  Hooked(r)' <=> Hooked(r)
  BY DEF Hooked, Kind

LEMMA PremiumFrame ==
  ASSUME PremiumInv, UNCHANGED <<input, row>>, torn => torn',
         \A r \in Requests : pc'[r] \in {"read", "diffed"} =>
            pc'[r] = pc[r] /\ entity'[r] = entity[r]
  PROVE  PremiumInv'
  BY HookedFixed DEF PremiumInv

(* A step by which request r comes to hold e, the object it saves.         *)
LEMMA PremiumHoldStep ==
  ASSUME TypeOK, PremiumInv, NEW r \in Requests, NEW e,
         pc' = [pc EXCEPT ![r] = "read"], entity' = [entity EXCEPT ![r] = e],
         UNCHANGED <<input, row>>, torn => torn',
         "totalPoints" \in e.cols,
         ~Hooked(r) => e.val.totalPoints = row.totalPoints /\ e.val.isPremium = row.isPremium
  PROVE  PremiumInv'
<1>1. /\ pc'[r] = "read" /\ entity'[r] = e
      /\ \A s \in Requests \ {r} : pc'[s] = pc[s] /\ entity'[s] = entity[s]
  BY DEF TypeOK
<1>2. QED
  BY <1>1, HookedFixed DEF PremiumInv

LEMMA PremiumInvStep ==
  ASSUME TypeOK, PointsInv, PremiumInv, [Next]_vars
  PROVE  PremiumInv'
<1> USE KindsInRequests DEF tables, memory, ghosts, Goto
<1>0. /\ pc \in [Requests -> Labels] /\ entity \in [Requests -> Entity] /\ row \in Row
      /\ torn \in BOOLEAN
  BY DEF TypeOK
<1>1. ASSUME NEW r \in Requests, Start(r) PROVE PremiumInv'
  <2>1. CASE r \in Savers /\ SaverLoad(r)
    <3> DEFINE e == WholeRow(Patched(r))
    <3>1. /\ "totalPoints" \in e.cols /\ e.val.totalPoints = row.totalPoints
          /\ e.val.isPremium = row.isPremium
      BY <2>1, PatchedValue DEF WholeRow, Columns
    <3> HIDE DEF e
    <3>2. /\ pc' = [pc EXCEPT ![r] = "read"] /\ entity' = [entity EXCEPT ![r] = e]
          /\ UNCHANGED <<input, row>>
          /\ torn => torn'
      BY <2>1 DEF SaverLoad, OpensWindow, e
    <3>3. QED
      BY <3>1, <3>2, PremiumHoldStep
  <2>2. CASE ~(r \in Savers /\ SaverLoad(r))
    BY <1>0, <1>1, <2>2, PremiumFrame
       DEF Start, BoostRefused, BoostReadPoints, OrderReadPoints, SaverRefused, ReviewJudge, OpensWindow
  <2>3. QED
    BY <2>1, <2>2
<1>2. ASSUME NEW r \in Requests, Continue(r) PROVE PremiumInv'
  <2>1. CASE r \in Boosts /\ (BoostCheck(r) \/ BoostFlag(r) \/ BoostInsert(r) \/ BoostEmbed(r))
    BY <1>0, <2>1, PremiumFrame DEF BoostCheck, BoostFlag, BoostInsert, BoostEmbed, AfterSave
  <2>2. CASE r \in Boosts /\ ChargeRead(r)
    <3>1. "totalPoints" \in PointsOnly(Charged(r)).cols /\ Hooked(r)
      BY <2>2 DEF PointsOnly, Hooked
    <3>2. QED
      BY <2>2, <3>1, PremiumHoldStep DEF ChargeRead, OpensWindow
  <2>3. CASE r \in Orders /\ OrderLoad(r)
    <3>1. "totalPoints" \in WholeRow(Credited(r)).cols /\ Hooked(r)
      BY <2>3 DEF WholeRow, Columns, Hooked
    <3>2. QED
      BY <2>3, <3>1, PremiumHoldStep DEF OrderLoad
  <2>4. CASE r \in Orders /\ (OrderRecord(r) \/ OrderHistory(r))
    BY <1>0, <2>4, PremiumFrame DEF OrderRecord, OrderHistory
  <2>5. CASE r \in Savers /\ SaverFails(r)
    BY <1>0, <2>5, PremiumFrame DEF SaverFails
  <2>6. CASE r \in Reviews /\ ReviewLoad(r)
    <3> DEFINE e == WholeRow([row EXCEPT !.status = input.verdict[r]])
    <3>1. /\ "totalPoints" \in e.cols /\ e.val.totalPoints = row.totalPoints
          /\ e.val.isPremium = row.isPremium
      BY <1>0 DEF WholeRow, Columns, Row
    <3> HIDE DEF e
    <3>2. /\ pc' = [pc EXCEPT ![r] = "read"] /\ entity' = [entity EXCEPT ![r] = e]
          /\ UNCHANGED <<input, row>>
          /\ torn => torn'
      BY <2>6 DEF ReviewLoad, OpensWindow, e
    <3>3. QED
      BY <3>1, <3>2, PremiumHoldStep
  <2>7. CASE SaveSelect(r)
    <3>1. /\ pc[r] = "read" /\ UNCHANGED <<input, row, torn>>
          /\ pc'[r] = "diffed" /\ entity'[r] = UpdateOf(entity[r], row, Hooked(r))
          /\ \A s \in Requests \ {r} : pc'[s] = pc[s] /\ entity'[s] = entity[s]
      BY <1>0, <2>7 DEF SaveSelect
    <3>2. ~torn => PremiumFits(Updated(row, UpdateOf(entity[r], row, Hooked(r))))
      <4>1. Hooked(r) \in BOOLEAN /\ entity[r] \in Entity
        BY <1>0 DEF Hooked
      <4>2. QED
        BY <1>0, <3>1, <4>1, HookFits DEF PremiumInv
    <3>3. QED
      BY <3>1, <3>2, HookedFixed DEF PremiumInv
  <2>8. CASE SaveUpdate(r)
    <3>1. /\ pc[r] = "diffed" /\ row' = Updated(row, entity[r]) /\ torn' = torn
          /\ pc'[r] \notin {"read", "diffed"}
          /\ \A s \in Requests \ {r} : pc'[s] = pc[s]
      BY <1>0, <2>8 DEF SaveUpdate
    <3>2. ~torn => \A s \in Requests : pc'[s] \notin {"read", "diffed"}
      BY <3>1 DEF PointsInv, ExactInv, InWindow
    <3>3. QED
      BY <3>1, <3>2 DEF PremiumInv
  <2>9. QED
    BY <1>2, <2>1, <2>2, <2>3, <2>4, <2>5, <2>6, <2>7, <2>8 DEF Continue
<1>3. ASSUME NEW c \in Crons, CronStep(c) PROVE PremiumInv'
  BY <1>3, PremiumFrame
     DEF CronStep, CronStart, CronFetch, CronRemove, CronClear, CronQueue, CronFails
<1>4. ASSUME NEW b \in Boosts, RowAges(b) PROVE PremiumInv'
  BY <1>4, PremiumFrame DEF RowAges
<1>5. CASE Crash
  BY <1>0, <1>5, PremiumFrame DEF Crash, Live, Ended
<1>6. CASE UNCHANGED vars
  BY <1>6, PremiumFrame DEF vars
<1>7. QED
  BY <1>1, <1>2, <1>3, <1>4, <1>5, <1>6 DEF Next

(* PremiumHasPoints: until windows overlap, an enterprise without points   *)
(* is not premium, although only some handlers run the @BeforeUpdate hook. *)
THEOREM PremiumNeedsPoints == Spec => []PremiumHasPoints
<1>1. PremiumInv => PremiumHasPoints
  BY DEF PremiumInv, PremiumHasPoints, PremiumFits
<1>2. TypeOK /\ PointsInv /\ PremiumInv /\ [Next]_vars => PremiumInv'
  BY PremiumInvStep
<1>3. HandlersInv => TypeOK /\ PointsInv
  BY DEF HandlersInv
<1>4. QED
  BY <1>1, <1>2, <1>3, PremiumInvInit, HandlersInvariant, PTL DEF Spec
=============================================================================
