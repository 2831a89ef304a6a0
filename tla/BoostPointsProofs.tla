-------------------------- MODULE BoostPointsProofs --------------------------
(***************************************************************************)
(* Proofs about BoostPoints, for every set of jobs, requests and crons and *)
(* every initial balance.                                                  *)
(***************************************************************************)
EXTENDS BoostPoints, TLAPS

(* PointsBounded is not inductive: it says nothing of the values the       *)
(* handlers hold and have yet to write.  Each of them is within the same   *)
(* bounds, up to what its own UPDATE will add to them.                     *)
Within(n, gain, loss) ==
    /\ n <= InitialPoints + granted + gain
    /\ n >= InitialPoints - spent - loss

BoundsInv ==
    /\ Within(row.totalPoints, 0, 0)
    /\ \A o \in Orders : pc[o] = "quoted" => Within(seen[o], 0, 0)
    /\ \A r \in Requests :
         pc[r] \in {"read", "diffed"} /\ "totalPoints" \in entity[r].cols
           => Within(entity[r].val.totalPoints, Gain(r), Loss(r))

(* While no windows have overlapped, at most one is open, and the row after *)
(* its UPDATE would be the row now plus what that request is meant to add. *)
ExactInv ==
    ~torn =>
      /\ row.totalPoints = InitialPoints + granted - spent
      /\ row.status = decided
      /\ \A r, s \in Requests : InWindow(r) /\ InWindow(s) => r = s
      /\ \A o \in Orders : pc[o] = "quoted" => seen[o] = row.totalPoints
      /\ \A r \in Requests : pc[r] \in {"read", "diffed"} =>
           /\ Updated(row, entity[r]).totalPoints = row.totalPoints + Delta(r)
           /\ Updated(row, entity[r]).status =
                IF SetsStatus(r) THEN StatusOf(r) ELSE row.status

QuotedIsOrder == \A r \in Requests : pc[r] = "quoted" => r \in Orders

-----------------------------------------------------------------------------
(* Lemmas about the row *)

LEMMA NoEntityType == NoEntity \in Entity
  BY StatusAssumption DEF NoEntity, Entity, Row, Columns

LEMMA WholeRowType == ASSUME NEW r \in Row PROVE WholeRow(r) \in Entity
  BY DEF WholeRow, Entity, Columns

LEMMA PointsOnlyType == ASSUME NEW r \in Row PROVE PointsOnly(r) \in Entity
  BY DEF PointsOnly, Entity, Columns

LEMMA ColumnSetType ==
  ASSUME NEW r \in Row, NEW n \in Int, NEW s \in Statuses, NEW p \in BOOLEAN
  PROVE  /\ [r EXCEPT !.totalPoints = n] \in Row
         /\ [r EXCEPT !.status = s] \in Row
         /\ [r EXCEPT !.isPremium = p, !.totalPoints = n] \in Row
  BY DEF Row

(* What an UPDATE leaves in the two columns the balance and the review use. *)
LEMMA UpdatedColumns ==
  ASSUME NEW db, NEW v
  PROVE  /\ Updated(db, WholeRow(v)).totalPoints = v.totalPoints
         /\ Updated(db, WholeRow(v)).status = v.status
         /\ Updated(db, PointsOnly(v)).totalPoints = v.totalPoints
         /\ Updated(db, PointsOnly(v)).status = db.status
  BY DEF Updated, WholeRow, PointsOnly, Columns

LEMMA HookType ==
  ASSUME NEW e \in Entity
  PROVE  /\ CheckPremiumStatus(e) \in Entity
         /\ CheckPremiumStatus(e).val.totalPoints = e.val.totalPoints
         /\ CheckPremiumStatus(e).val.status = e.val.status
         /\ \A c \in {"totalPoints", "status"} : c \in CheckPremiumStatus(e).cols <=> c \in e.cols
  BY DEF CheckPremiumStatus, Entity, Row, Columns

LEMMA UpdatedType ==
  ASSUME NEW db \in Row, NEW u \in Entity
  PROVE  Updated(db, u) \in Row
  BY DEF Updated, Entity, Row

(* The UPDATE that save sends keeps the points and the status the entity   *)
(* carries, whatever the hook does: a column it leaves out has already     *)
(* that value in the row.                                                  *)
LEMMA UpdateOfKeeps ==
  ASSUME NEW e \in Entity, NEW db \in Row, NEW hooked \in BOOLEAN
  PROVE  LET u == UpdateOf(e, db, hooked) IN
         /\ u \in Entity
         /\ u.val.totalPoints = e.val.totalPoints
         /\ "totalPoints" \in u.cols => "totalPoints" \in e.cols
         /\ Updated(db, u).totalPoints = Updated(db, e).totalPoints
         /\ Updated(db, u).status = Updated(db, e).status
<1> DEFINE h == IF hooked /\ Changed(e, db) # {} THEN CheckPremiumStatus(e) ELSE e
           u == [cols |-> Changed(h, db), val |-> h.val]
<1>1. /\ h \in Entity
      /\ h.val.totalPoints = e.val.totalPoints
      /\ h.val.status = e.val.status
      /\ \A c \in {"totalPoints", "status"} : c \in h.cols <=> c \in e.cols
  BY HookType
<1>2. /\ Changed(h, db) \subseteq h.cols
      /\ "totalPoints" \in Changed(h, db) <=> "totalPoints" \in h.cols /\ h.val.totalPoints # db.totalPoints
      /\ "status" \in Changed(h, db) <=> "status" \in h.cols /\ h.val.status # db.status
  BY DEF Changed
<1>3. u = UpdateOf(e, db, hooked)
  BY DEF UpdateOf
<1> HIDE DEF h
<1>4. u \in Entity
  BY <1>1, <1>2 DEF Entity
<1>5. QED
  BY <1>1, <1>2, <1>3, <1>4 DEF Updated

-----------------------------------------------------------------------------
(* Type correctness *)

LEMMA DeltaType ==
  ASSUME TypeOK, NEW r \in Requests
  PROVE  /\ Delta(r) \in Int /\ Gain(r) \in Nat /\ Loss(r) \in Nat
         /\ Delta(r) = Gain(r) - Loss(r)
<1>1. r \in Boosts => PointsOf(r) \in Int
  BY PointsAssumption DEF TypeOK, PointsOf
<1>2. \A plan : PlanPoints(plan) \in Int
  BY DEF PlanPoints
<1>3. Delta(r) \in Int
  BY <1>1, <1>2 DEF Delta
<1>4. QED
  BY <1>3 DEF Gain, Loss

LEMMA BoostInputs ==
  ASSUME TypeOK, NEW b \in Boosts
  PROVE  JobOf(b) \in Jobs /\ PointsOf(b) \in Int
  BY PointsAssumption DEF TypeOK, JobOf, PointsOf

LEMMA ChargedValue ==
  ASSUME TypeOK, NEW b \in Boosts
  PROVE  /\ Charged(b) \in Row
         /\ Charged(b).totalPoints = row.totalPoints - PointsOf(b)
         /\ Charged(b).status = row.status
<1>1. row \in Row /\ row.totalPoints - PointsOf(b) \in Int
  BY BoostInputs DEF TypeOK, Row
<1>2. QED
  BY <1>1 DEF Charged, Row

LEMMA SetsStatusType ==
  ASSUME TypeOK, NEW r \in Requests, SetsStatus(r)
  PROVE  StatusOf(r) \in Statuses
<1>1. CASE r \in Reviews
  BY <1>1 DEF TypeOK, StatusOf
<1>2. CASE r \notin Reviews
  <2>1. r \in Savers /\ input.save[r] \in Saves /\ input.save[r].status # "unset"
    BY <1>2 DEF SetsStatus, TypeOK
  <2>2. input.save[r].status \in Statuses
    BY <2>1, StatusAssumption DEF Saves
  <2>3. QED
    BY <1>2, <2>2 DEF StatusOf
<1>3. QED
  BY <1>1, <1>2

LEMMA PatchedValue ==
  ASSUME TypeOK, NEW s \in Savers
  PROVE  /\ Patched(s) \in Row
         /\ Patched(s).totalPoints = row.totalPoints
         /\ Patched(s).isPremium = row.isPremium
         /\ Patched(s).status = IF SetsStatus(s) THEN StatusOf(s) ELSE row.status
<1>1. row \in Row /\ s \in Requests
  BY DEF TypeOK, Requests
<1>2. SetsStatus(s) => StatusOf(s) \in Statuses
  BY <1>1, SetsStatusType
<1>3. QED
  BY <1>1, <1>2 DEF Patched, Row

LEMMA CreditedValue ==
  ASSUME TypeOK, NEW o \in Orders
  PROVE  /\ Credited(o) \in Row
         /\ Credited(o).totalPoints = PlanPoints(input.plan[o]) + seen[o]
         /\ Credited(o).status = row.status
<1>1. row \in Row /\ PlanPoints(input.plan[o]) + seen[o] \in Int
  BY DEF TypeOK, PlanPoints
<1>2. QED
  BY <1>1 DEF Credited, Row

(* TypeOK is an invariant: every column, label and object in memory keeps  *)
(* its type along every behaviour.                                         *)
THEOREM TypeCorrect == Spec => []TypeOK
<1>1. Init => TypeOK
  <2> SUFFICES ASSUME Init PROVE TypeOK
    OBVIOUS
  <2>1. row \in Row /\ entity \in [Requests -> Entity]
    BY NoEntityType, PointsAssumption, StatusAssumption DEF Init, Row
  <2>2. cron \in [Crons -> [pc : {"idle", "fetch", "expire"}, offset : Nat,
                            batch : SUBSET Boosts, open : SUBSET {"remove", "clear"}]]
    BY DEF Init, Sleeping
  <2>3. seen \in [Boosts \cup Orders -> Int] /\ pc \in [Requests -> Labels]
    BY DEF Init, Labels
  <2>4. /\ open \in [Boosts -> SUBSET {"flag", "insert"}]
        /\ ok \in [Boosts -> BOOLEAN] /\ isBoost \in [Jobs -> BOOLEAN]
        /\ due \in [Crons -> SUBSET Boosts]
    BY DEF Init
  <2>5. crashes \in 0..MaxCrashes /\ decided \in Statuses /\ granted \in Nat /\ spent \in Nat
    BY CrashAssumption, StatusAssumption DEF Init
  <2>6. QED
    BY <2>1, <2>2, <2>3, <2>4, <2>5 DEF Init, TypeOK
<1>2. ASSUME TypeOK, [Next]_vars
      PROVE  TypeOK'
  <2> USE <1>2 DEF TypeOK
  <2> USE DEF tables, memory, ghosts, Goto, Labels, Ended, OpensWindow
  <2>1. Boosts \subseteq Requests /\ Orders \subseteq Requests
        /\ Savers \subseteq Requests /\ Reviews \subseteq Requests
    BY DEF Requests
  <2>2. ASSUME NEW b \in Boosts, BoostRefused(b) PROVE TypeOK'
    BY <2>2 DEF BoostRefused
  <2>3. ASSUME NEW b \in Boosts, BoostReadPoints(b) PROVE TypeOK'
    BY <2>3 DEF BoostReadPoints, Row
  <2>4. ASSUME NEW b \in Boosts, BoostCheck(b) PROVE TypeOK'
    <3>1. contended' \subseteq Jobs
      BY <2>4, BoostInputs DEF BoostCheck
    <3>2. open' \in [Boosts -> SUBSET {"flag", "insert"}]
      BY <2>4 DEF BoostCheck
    <3>3. pc' \in [Requests -> Labels]
      BY <2>1, <2>4 DEF BoostCheck
    <3>4. QED
      BY <2>4, <3>1, <3>2, <3>3 DEF BoostCheck
  <2>5. ASSUME NEW b \in Boosts, BoostFlag(b) PROVE TypeOK'
    BY <2>5, BoostInputs DEF BoostFlag, Settle
  <2>6. ASSUME NEW b \in Boosts, BoostInsert(b) PROVE TypeOK'
    <3>1. /\ open' \in [Boosts -> SUBSET {"flag", "insert"}]
          /\ ok' \in [Boosts -> BOOLEAN]
      BY <2>6 DEF BoostInsert, Settle
    <3>2. /\ boosted' \subseteq Boosts /\ boosted \subseteq boosted'
          /\ inserted' \subseteq Boosts
      BY <2>6 DEF BoostInsert
    <3>3. QED
      BY <2>6, <3>1, <3>2 DEF BoostInsert
  <2>7. ASSUME NEW b \in Boosts, BoostEmbed(b) PROVE TypeOK'
    BY <2>7 DEF BoostEmbed, AfterSave
  <2>8. ASSUME NEW b \in Boosts, ChargeRead(b) PROVE TypeOK'
    <3>1. Charged(b) \in Row
      BY ChargedValue
    <3>2. entity' \in [Requests -> Entity]
      BY <2>8, <3>1, PointsOnlyType DEF ChargeRead
    <3>3. QED
      BY <2>8, <3>2 DEF ChargeRead
  <2>9. ASSUME NEW o \in Orders, OrderReadPoints(o) PROVE TypeOK'
    BY <2>9 DEF OrderReadPoints, Row
  <2>10. ASSUME NEW o \in Orders, OrderLoad(o) PROVE TypeOK'
    <3>1. Credited(o) \in Row
      BY CreditedValue
    <3>2. entity' \in [Requests -> Entity]
      BY <2>10, <3>1, WholeRowType DEF OrderLoad
    <3>3. QED
      BY <2>10, <3>2 DEF OrderLoad
  <2>11. ASSUME NEW o \in Orders, OrderRecord(o) PROVE TypeOK'
    BY <2>11 DEF OrderRecord
  <2>12. ASSUME NEW o \in Orders, OrderHistory(o) PROVE TypeOK'
    BY <2>12 DEF OrderHistory
  <2>13. ASSUME NEW s \in Savers, SaverRefused(s) PROVE TypeOK'
    BY <2>13 DEF SaverRefused
  <2>14. ASSUME NEW s \in Savers, SaverLoad(s) PROVE TypeOK'
    <3>1. entity' \in [Requests -> Entity]
      BY <2>14, PatchedValue, WholeRowType DEF SaverLoad
    <3>2. QED
      BY <2>14, <3>1 DEF SaverLoad
  <2>15. ASSUME NEW s \in Savers, SaverFails(s) PROVE TypeOK'
    BY <2>15, NoEntityType DEF SaverFails
  <2>16. ASSUME NEW v \in Reviews, ReviewJudge(v) PROVE TypeOK'
    BY <2>16 DEF ReviewJudge
  <2>17. ASSUME NEW v \in Reviews, ReviewLoad(v) PROVE TypeOK'
    <3>1. [row EXCEPT !.status = input.verdict[v]] \in Row
      BY DEF Row
    <3>2. entity' \in [Requests -> Entity]
      BY <2>17, <3>1, WholeRowType DEF ReviewLoad
    <3>3. QED
      BY <2>17, <3>2 DEF ReviewLoad
  <2>18. ASSUME NEW r \in Requests, SaveSelect(r) PROVE TypeOK'
    <3>1. Hooked(r) \in BOOLEAN
      BY DEF Hooked
    <3>2. UpdateOf(entity[r], row, Hooked(r)) \in Entity
      BY <3>1, UpdateOfKeeps
    <3>3. entity' \in [Requests -> Entity]
      BY <2>18, <3>2 DEF SaveSelect
    <3>4. QED
      BY <2>18, <3>3 DEF SaveSelect
  <2>19. ASSUME NEW r \in Requests, SaveUpdate(r) PROVE TypeOK'
    <3>1. row' \in Row
      BY <2>19, UpdatedType DEF SaveUpdate
    <3>2. granted' \in Nat /\ spent' \in Nat
      BY <2>19, DeltaType DEF SaveUpdate
    <3>3. decided' \in Statuses
      BY <2>19, SetsStatusType DEF SaveUpdate
    <3>4. entity' \in [Requests -> Entity]
      BY <2>19, NoEntityType DEF SaveUpdate
    <3>5. pc' \in [Requests -> Labels]
      BY <2>19 DEF SaveUpdate
    <3>6. QED
      BY <2>19, <3>1, <3>2, <3>3, <3>4, <3>5 DEF SaveUpdate
  <2>20. ASSUME NEW b \in Boosts, RowAges(b) PROVE TypeOK'
    BY <2>20 DEF RowAges
  <2>21. ASSUME NEW c \in Crons, CronStep(c) PROVE TypeOK'
    <3>1. CASE CronStart(c)
      <4>1. cron' \in [Crons -> [pc : {"idle", "fetch", "expire"}, offset : Nat,
                                 batch : SUBSET Boosts, open : SUBSET {"remove", "clear"}]]
        BY <3>1 DEF CronStart, Sleeping
      <4>2. due' \in [Crons -> SUBSET Boosts]
        BY <3>1 DEF CronStart
      <4>3. QED
        BY <3>1, <4>1, <4>2 DEF CronStart
    <3>2. CASE CronFetch(c)
      <4>1. PICK B \in Page(cron[c].offset) :
              /\ cron' = [cron EXCEPT ![c] =
                            IF B = {} THEN Sleeping
                            ELSE [pc |-> "expire", offset |-> @.offset, batch |-> B,
                                  open |-> {"remove", "clear"}]]
              /\ contended' = contended \cup ({JobOf(b) : b \in B} \cap SavingJobs)
        BY <3>2 DEF CronFetch
      <4>2. B \subseteq Boosts
        BY DEF Page, DueRows
      <4>3. contended' \subseteq Jobs
        BY <4>1, <4>2, BoostInputs
      <4>4. cron' \in [Crons -> [pc : {"idle", "fetch", "expire"}, offset : Nat,
                                 batch : SUBSET Boosts, open : SUBSET {"remove", "clear"}]]
        BY <4>1, <4>2 DEF Sleeping
      <4>5. QED
        BY <3>2, <4>3, <4>4 DEF CronFetch
    <3>3. CASE CronRemove(c)
      BY <3>3 DEF CronRemove
    <3>4. CASE CronClear(c)
      BY <3>4 DEF CronClear, Cleared
    <3>5. CASE CronQueue(c)
      <4>1. [Sleeping EXCEPT !.pc = "fetch", !.offset = NextOffset(cron[c].offset)]
              \in [pc : {"idle", "fetch", "expire"}, offset : Nat,
                   batch : SUBSET Boosts, open : SUBSET {"remove", "clear"}]
        <5>1. NextOffset(cron[c].offset) \in Nat
          BY BatchAssumption DEF NextOffset
        <5>2. QED
          BY <5>1 DEF Sleeping
      <4>2. Sleeping \in [pc : {"idle", "fetch", "expire"}, offset : Nat,
                          batch : SUBSET Boosts, open : SUBSET {"remove", "clear"}]
        BY DEF Sleeping
      <4>3. cron' \in [Crons -> [pc : {"idle", "fetch", "expire"}, offset : Nat,
                                 batch : SUBSET Boosts, open : SUBSET {"remove", "clear"}]]
        BY <3>5, <4>1, <4>2 DEF CronQueue
      <4>4. queued' \subseteq Boosts
        BY <3>5 DEF CronQueue
      <4>5. QED
        BY <3>5, <4>3, <4>4 DEF CronQueue
    <3>6. CASE CronFails(c)
      BY <3>6 DEF CronFails, Sleeping
    <3>7. QED
      BY <2>21, <3>1, <3>2, <3>3, <3>4, <3>5, <3>6 DEF CronStep
  <2>22. CASE Crash
    <3>1. SavingJobs \subseteq Jobs /\ ExpiringJobs \subseteq Jobs
      BY BoostInputs DEF SavingJobs, ExpiringJobs, BatchJobs
    <3>2. entity' \in [Requests -> Entity]
      BY <2>22, NoEntityType DEF Crash
    <3>3. crashes' \in 0..MaxCrashes
      BY <2>22, CrashAssumption DEF Crash
    <3>4. pc' \in [Requests -> Labels]
      BY <2>22 DEF Crash, Live
    <3>5. contended' \subseteq Jobs
      BY <2>22, <3>1 DEF Crash
    <3>6. cron' \in [Crons -> [pc : {"idle", "fetch", "expire"}, offset : Nat,
                               batch : SUBSET Boosts, open : SUBSET {"remove", "clear"}]]
      BY <2>22 DEF Crash, Sleeping
    <3>7. QED
      BY <2>22, <3>2, <3>3, <3>4, <3>5, <3>6 DEF Crash
  <2>23. CASE UNCHANGED vars
    BY <2>23 DEF vars
  <2>24. QED
    BY <2>2, <2>3, <2>4, <2>5, <2>6, <2>7, <2>8, <2>9, <2>10, <2>11, <2>12, <2>13, <2>14,
       <2>15, <2>16, <2>17, <2>18, <2>19, <2>20, <2>21, <2>22, <2>23
       DEF Next, Start, Continue
<1>3. QED
  BY <1>1, <1>2, PTL DEF Spec

-----------------------------------------------------------------------------
(* The balance: bounded always, exact while no windows have overlapped     *)

PointsInv == BoundsInv /\ ExactInv /\ QuotedIsOrder

LEMMA DeltaFixed ==
  ASSUME input' = input, NEW r \in Requests
  PROVE  /\ Delta(r)' = Delta(r) /\ Gain(r)' = Gain(r) /\ Loss(r)' = Loss(r)
         /\ SetsStatus(r)' = SetsStatus(r) /\ StatusOf(r)' = StatusOf(r)
  BY DEF Delta, Gain, Loss, PointsOf, SetsStatus, StatusOf

(* A step that leaves the row alone and neither moves nor changes a handler *)
(* inside its window.                                                      *)
LEMMA FrameStep ==
  ASSUME TypeOK, PointsInv,
         UNCHANGED <<row, granted, spent, decided, input, torn>>,
         \A r \in Requests : pc'[r] \in {"quoted", "read", "diffed"} =>
            pc'[r] = pc[r] /\ entity'[r] = entity[r] /\ (r \in Orders => seen'[r] = seen[r])
  PROVE  PointsInv'
<1> USE DEF PointsInv
<1>0. Orders \subseteq Requests
  BY DEF Requests
<1>1. BoundsInv'
  BY <1>0, DeltaFixed DEF BoundsInv, Within
<1>2. ExactInv'
  BY <1>0, DeltaFixed DEF ExactInv, InWindow
<1>3. QuotedIsOrder'
  BY DEF QuotedIsOrder
<1>4. QED
  BY <1>1, <1>2, <1>3

(* A step by which request r comes to hold e, the object it saves or the   *)
(* UPDATE computed from it.                                                *)
LEMMA HoldStep ==
  ASSUME TypeOK, PointsInv,
         NEW r \in Requests, NEW e \in Entity, NEW label \in {"read", "diffed"},
         pc' = [pc EXCEPT ![r] = label],
         entity' = [entity EXCEPT ![r] = e],
         UNCHANGED <<row, granted, spent, decided, input>>,
         \A o \in Orders \ {r} : seen'[o] = seen[o],
         ~torn' => ~torn /\ \A s \in Requests : InWindow(s) => s = r,
         "totalPoints" \in e.cols => Within(e.val.totalPoints, Gain(r), Loss(r)),
         ~torn' => /\ Updated(row, e).totalPoints = row.totalPoints + Delta(r)
                   /\ Updated(row, e).status =
                        IF SetsStatus(r) THEN StatusOf(r) ELSE row.status
  PROVE  PointsInv'
<1> USE DEF PointsInv
<1>0. Orders \subseteq Requests /\ pc \in [Requests -> Labels] /\ entity \in [Requests -> Entity]
  BY DEF Requests, TypeOK
<1>1. /\ pc'[r] = label /\ entity'[r] = e
      /\ \A s \in Requests \ {r} : pc'[s] = pc[s] /\ entity'[s] = entity[s]
  BY <1>0
<1>2. BoundsInv'
  BY <1>0, <1>1, DeltaFixed DEF BoundsInv, Within
<1>3. ExactInv'
  BY <1>0, <1>1, DeltaFixed DEF ExactInv, InWindow
<1>4. QuotedIsOrder'
  BY <1>1 DEF QuotedIsOrder
<1>5. QED
  BY <1>2, <1>3, <1>4

(* A handler that opens its window when no other is in one.                *)
LEMMA AloneInWindow ==
  ASSUME OpensWindow, torn \in BOOLEAN
  PROVE  ~torn' => ~torn /\ \A s \in Requests : ~InWindow(s)
  BY DEF OpensWindow

LEMMA SaveUpdateStep ==
  ASSUME TypeOK, PointsInv, NEW r \in Requests, SaveUpdate(r)
  PROVE  PointsInv'
<1> USE DEF PointsInv
<1>0. /\ Orders \subseteq Requests /\ pc \in [Requests -> Labels]
      /\ entity \in [Requests -> Entity] /\ row \in Row /\ entity[r] \in Entity
      /\ seen \in [Boosts \cup Orders -> Int] /\ granted \in Nat /\ spent \in Nat
  BY DEF Requests, TypeOK
<1>1. /\ pc[r] = "diffed" /\ row' = Updated(row, entity[r])
      /\ granted' = granted + Gain(r) /\ spent' = spent + Loss(r)
      /\ input' = input /\ seen' = seen /\ torn' = torn
      /\ pc'[r] \notin {"quoted", "read", "diffed"}
      /\ \A s \in Requests \ {r} : pc'[s] = pc[s] /\ entity'[s] = entity[s]
      /\ decided' = IF SetsStatus(r) THEN StatusOf(r) ELSE decided
  BY <1>0 DEF SaveUpdate, Goto
<1>2. /\ Gain(r) \in Nat /\ Loss(r) \in Nat /\ Delta(r) = Gain(r) - Loss(r)
      /\ row.totalPoints \in Int /\ entity[r].val.totalPoints \in Int /\ InitialPoints \in Nat
  BY <1>0, DeltaType, PointsAssumption DEF Row, Entity
<1>3. \/ "totalPoints" \in entity[r].cols /\ row'.totalPoints = entity[r].val.totalPoints
      \/ row'.totalPoints = row.totalPoints
  BY <1>1 DEF Updated
<1>4. BoundsInv'
  <2>1. Within(row.totalPoints, 0, 0)'
    BY <1>0, <1>1, <1>2, <1>3 DEF BoundsInv, Within
  <2>2. ASSUME NEW o \in Orders, pc'[o] = "quoted" PROVE Within(seen[o], 0, 0)'
    <3>1. Within(seen[o], 0, 0) /\ seen'[o] = seen[o] /\ seen[o] \in Int
      BY <1>0, <1>1, <2>2 DEF BoundsInv
    <3>2. QED
      BY <1>0, <1>1, <1>2, <3>1 DEF Within
  <2>3. ASSUME NEW s \in Requests, pc'[s] \in {"read", "diffed"}, "totalPoints" \in entity'[s].cols
        PROVE  Within(entity[s].val.totalPoints, Gain(s), Loss(s))'
    <3>1. /\ s # r /\ entity'[s] = entity[s]
          /\ Within(entity[s].val.totalPoints, Gain(s), Loss(s))
      BY <1>1, <2>3 DEF BoundsInv
    <3>2. /\ entity[s].val.totalPoints \in Int /\ Gain(s) \in Nat /\ Loss(s) \in Nat
          /\ Gain(s)' = Gain(s) /\ Loss(s)' = Loss(s)
      BY <1>0, <1>1, DeltaType, DeltaFixed DEF Entity, Row
    <3>3. QED
      BY <1>0, <1>1, <1>2, <3>1, <3>2 DEF Within
  <2>4. QED
    BY <2>1, <2>2, <2>3 DEF BoundsInv
<1>5. ExactInv'
  <2> SUFFICES ASSUME ~torn'
               PROVE  ExactInv'
    BY DEF ExactInv
  <2>1. /\ ~torn
        /\ row.totalPoints = InitialPoints + granted - spent
        /\ row.status = decided
        /\ Updated(row, entity[r]).totalPoints = row.totalPoints + Delta(r)
        /\ Updated(row, entity[r]).status = IF SetsStatus(r) THEN StatusOf(r) ELSE row.status
        /\ \A s \in Requests : InWindow(s) => s = r
    BY <1>1 DEF ExactInv, InWindow
  <2>2. \A s \in Requests : pc'[s] \notin {"quoted", "read", "diffed"}
    BY <1>1, <2>1 DEF InWindow
  <2>3. row'.totalPoints = InitialPoints + granted' - spent'
    BY <1>0, <1>1, <1>2, <2>1
  <2>4. row'.status = decided'
    BY <1>1, <2>1
  <2>5. QED
    BY <1>0, <2>2, <2>3, <2>4 DEF ExactInv, InWindow
<1>6. QuotedIsOrder'
  BY <1>1 DEF QuotedIsOrder
<1>7. QED
  BY <1>4, <1>5, <1>6

LEMMA PointsInvInit == Init => PointsInv
<1> SUFFICES ASSUME Init
             PROVE  PointsInv
  OBVIOUS
<1>1. \A r \in Requests : pc[r] = "new"
  BY DEF Init
<1>2. /\ row.totalPoints = InitialPoints /\ row.status = decided
      /\ granted = 0 /\ spent = 0 /\ InitialPoints \in Nat
  BY PointsAssumption DEF Init
<1>3. Orders \subseteq Requests
  BY DEF Requests
<1>4. QED
  BY <1>1, <1>2, <1>3 DEF PointsInv, BoundsInv, ExactInv, QuotedIsOrder, Within, InWindow

LEMMA PointsInvStep ==
  ASSUME TypeOK, PointsInv, [Next]_vars
  PROVE  PointsInv'
<1> USE DEF tables, memory, ghosts, Goto
<1>0. /\ Boosts \subseteq Requests /\ Orders \subseteq Requests
      /\ Savers \subseteq Requests /\ Reviews \subseteq Requests
      /\ pc \in [Requests -> Labels] /\ entity \in [Requests -> Entity]
      /\ row \in Row /\ torn \in BOOLEAN /\ seen \in [Boosts \cup Orders -> Int]
      /\ granted \in Nat /\ spent \in Nat /\ InitialPoints \in Nat
  BY PointsAssumption DEF Requests, TypeOK
<1>1. ASSUME NEW r \in Requests, Start(r) PROVE PointsInv'
  <2>1. CASE r \in Boosts /\ BoostRefused(r)
    BY <1>0, <2>1, FrameStep DEF BoostRefused
  <2>2. CASE r \in Boosts /\ BoostReadPoints(r)
    <3>1. \A s \in Requests : pc'[s] \in {"quoted", "read", "diffed"} =>
            pc'[s] = pc[s] /\ entity'[s] = entity[s] /\ (s \in Orders => seen'[s] = seen[s])
      BY <1>0, <2>2, KindsAssumption DEF BoostReadPoints
    <3>2. QED
      BY <2>2, <3>1, FrameStep DEF BoostReadPoints
  <2>3. CASE r \in Orders /\ OrderReadPoints(r)
    <3>1. /\ pc'[r] = "quoted" /\ seen'[r] = row.totalPoints
          /\ \A s \in Requests \ {r} : pc'[s] = pc[s]
          /\ \A o \in Orders \ {r} : seen'[o] = seen[o]
          /\ UNCHANGED <<row, entity, input, granted, spent, decided>>
          /\ ~torn' => ~torn /\ \A s \in Requests : ~InWindow(s)
      BY <1>0, <2>3, AloneInWindow DEF OrderReadPoints
    <3>2. BoundsInv'
      BY <1>0, <3>1, DeltaFixed DEF PointsInv, BoundsInv, Within
    <3>3. ExactInv'
      BY <1>0, <3>1, DeltaFixed DEF PointsInv, ExactInv, InWindow
    <3>4. QuotedIsOrder'
      BY <2>3, <3>1 DEF PointsInv, QuotedIsOrder
    <3>5. QED
      BY <3>2, <3>3, <3>4 DEF PointsInv
  <2>4. CASE r \in Savers /\ SaverRefused(r)
    BY <1>0, <2>4, FrameStep DEF SaverRefused
  <2>5. CASE r \in Savers /\ SaverLoad(r)
    <3> DEFINE new == Patched(r)
    <3>1. /\ new \in Row /\ new.totalPoints = row.totalPoints
          /\ new.status = IF SetsStatus(r) THEN StatusOf(r) ELSE row.status
      BY <2>5, PatchedValue
    <3>2. ~torn' => ~torn /\ \A s \in Requests : InWindow(s) => s = r
      BY <1>0, <2>5, AloneInWindow DEF SaverLoad
    <3>3. Delta(r) = 0
      BY <2>5, KindsAssumption DEF Delta
    <3>4. /\ pc' = [pc EXCEPT ![r] = "read"] /\ entity' = [entity EXCEPT ![r] = WholeRow(new)]
          /\ UNCHANGED <<row, granted, spent, decided, input, seen>>
      BY <2>5 DEF SaverLoad
    <3> HIDE DEF new
    <3>5. WholeRow(new) \in Entity /\ WholeRow(new).val = new
      BY <3>1, WholeRowType DEF WholeRow
    <3>6. Within(new.totalPoints, Gain(r), Loss(r))
      BY <1>0, <3>1, <3>3 DEF PointsInv, BoundsInv, Within, Gain, Loss
    <3>7. /\ Updated(row, WholeRow(new)).totalPoints = row.totalPoints + Delta(r)
          /\ Updated(row, WholeRow(new)).status = IF SetsStatus(r) THEN StatusOf(r) ELSE row.status
      <4>1. row.totalPoints \in Int
        BY <1>0 DEF Row
      <4>2. QED
        BY <3>1, <3>3, <4>1, UpdatedColumns
    <3>8. QED
      BY <3>2, <3>4, <3>5, <3>6, <3>7, HoldStep
  <2>6. CASE r \in Reviews /\ ReviewJudge(r)
    BY <1>0, <2>6, FrameStep DEF ReviewJudge
  <2>7. QED
    BY <1>1, <2>1, <2>2, <2>3, <2>4, <2>5, <2>6 DEF Start
<1>2. ASSUME NEW r \in Requests, Continue(r) PROVE PointsInv'
  <2>1. CASE r \in Boosts /\ BoostCheck(r)
    <3>1. \A s \in Requests : pc'[s] \in {"quoted", "read", "diffed"} =>
            pc'[s] = pc[s] /\ entity'[s] = entity[s] /\ (s \in Orders => seen'[s] = seen[s])
      BY <1>0, <2>1, KindsAssumption DEF BoostCheck
    <3>2. QED
      BY <2>1, <3>1, FrameStep DEF BoostCheck
  <2>2. CASE r \in Boosts /\ BoostFlag(r)
    BY <2>2, FrameStep DEF BoostFlag
  <2>3. CASE r \in Boosts /\ BoostInsert(r)
    BY <2>3, FrameStep DEF BoostInsert
  <2>4. CASE r \in Boosts /\ BoostEmbed(r)
    BY <1>0, <2>4, FrameStep DEF BoostEmbed, AfterSave
  <2>5. CASE r \in Boosts /\ ChargeRead(r)
    <3>1. row.totalPoints \in Int /\ PointsOf(r) \in Int
      BY <1>0, <2>5, BoostInputs DEF Row
    <3>2. PointsOnly(Charged(r)) \in Entity /\ PointsOnly(Charged(r)).val = Charged(r)
      BY <2>5, ChargedValue, PointsOnlyType DEF PointsOnly
    <3>3. ~torn' => ~torn /\ \A s \in Requests : InWindow(s) => s = r
      BY <1>0, <2>5, AloneInWindow DEF ChargeRead
    <3>4. Delta(r) = 0 - PointsOf(r) /\ ~SetsStatus(r)
      BY <2>5, KindsAssumption DEF Delta, SetsStatus
    <3>5. Within(Charged(r).totalPoints, Gain(r), Loss(r))
      BY <1>0, <2>5, <3>1, <3>4, ChargedValue DEF PointsInv, BoundsInv, Within, Gain, Loss
    <3>6. /\ Updated(row, PointsOnly(Charged(r))).totalPoints = row.totalPoints + Delta(r)
          /\ Updated(row, PointsOnly(Charged(r))).status = row.status
      BY <2>5, <3>1, <3>4, ChargedValue, UpdatedColumns
    <3>7. /\ pc' = [pc EXCEPT ![r] = "read"]
          /\ entity' = [entity EXCEPT ![r] = PointsOnly(Charged(r))]
          /\ UNCHANGED <<row, granted, spent, decided, input, seen>>
      BY <2>5 DEF ChargeRead
    <3>8. QED
      BY <1>0, <3>2, <3>3, <3>4, <3>5, <3>6, <3>7, HoldStep
  <2>6. CASE r \in Orders /\ OrderLoad(r)
    <3>1. seen[r] \in Int /\ PlanPoints(input.plan[r]) \in Nat /\ row.totalPoints \in Int
      BY <1>0, <2>6 DEF PlanPoints, Row
    <3>2. WholeRow(Credited(r)) \in Entity /\ WholeRow(Credited(r)).val = Credited(r)
      BY <2>6, CreditedValue, WholeRowType DEF WholeRow
    <3>3. pc[r] = "quoted" /\ torn' = torn
      BY <2>6 DEF OrderLoad
    <3>4. ~torn' => ~torn /\ \A s \in Requests : InWindow(s) => s = r
      BY <3>3 DEF PointsInv, ExactInv, InWindow
    <3>5. Delta(r) = PlanPoints(input.plan[r]) /\ ~SetsStatus(r)
      BY <2>6, KindsAssumption DEF Delta, SetsStatus
    <3>6. Within(Credited(r).totalPoints, Gain(r), Loss(r))
      BY <1>0, <2>6, <3>1, <3>3, <3>5, CreditedValue DEF PointsInv, BoundsInv, Within, Gain, Loss
    <3>7. ~torn' => Updated(row, WholeRow(Credited(r))).totalPoints = row.totalPoints + Delta(r)
      <4>1. Updated(row, WholeRow(Credited(r))).totalPoints = PlanPoints(input.plan[r]) + seen[r]
        BY <2>6, CreditedValue, UpdatedColumns
      <4>2. ~torn => seen[r] = row.totalPoints
        BY <2>6, <3>3 DEF PointsInv, ExactInv
      <4>3. QED
        BY <3>1, <3>3, <3>5, <4>1, <4>2
    <3>8. Updated(row, WholeRow(Credited(r))).status = row.status
      BY <2>6, CreditedValue, UpdatedColumns
    <3>9. /\ pc' = [pc EXCEPT ![r] = "read"]
          /\ entity' = [entity EXCEPT ![r] = WholeRow(Credited(r))]
          /\ UNCHANGED <<row, granted, spent, decided, input>>
          /\ \A o \in Orders \ {r} : seen'[o] = seen[o]
      BY <1>0, <2>6 DEF OrderLoad
    <3>10. QED
      BY <3>2, <3>4, <3>5, <3>6, <3>7, <3>8, <3>9, HoldStep
  <2>7. CASE r \in Orders /\ OrderRecord(r)
    BY <1>0, <2>7, FrameStep DEF OrderRecord
  <2>8. CASE r \in Orders /\ OrderHistory(r)
    BY <1>0, <2>8, FrameStep DEF OrderHistory
  <2>9. CASE r \in Savers /\ SaverFails(r)
    BY <1>0, <2>9, FrameStep DEF SaverFails
  <2>10. CASE r \in Reviews /\ ReviewLoad(r)
    <3> DEFINE new == [row EXCEPT !.status = input.verdict[r]]
    <3>1. input.verdict[r] \in Statuses /\ row.totalPoints \in Int
      BY <1>0, <2>10 DEF TypeOK, Row
    <3>2. new \in Row /\ new.totalPoints = row.totalPoints /\ new.status = input.verdict[r]
      BY <1>0, <3>1, ColumnSetType DEF Row
    <3>3. WholeRow(new) \in Entity /\ WholeRow(new).val = new /\ WholeRow(new).cols = Columns
      BY <3>2, WholeRowType DEF WholeRow
    <3>4. ~torn' => ~torn /\ \A s \in Requests : InWindow(s) => s = r
      BY <1>0, <2>10, AloneInWindow DEF ReviewLoad
    <3>5. Delta(r) = 0 /\ SetsStatus(r) /\ StatusOf(r) = input.verdict[r]
      BY <2>10, KindsAssumption DEF Delta, SetsStatus, StatusOf
    <3>6. Within(new.totalPoints, Gain(r), Loss(r))
      BY <1>0, <3>2, <3>5 DEF PointsInv, BoundsInv, Within, Gain, Loss
    <3>7. Updated(row, WholeRow(new)).totalPoints = row.totalPoints + Delta(r)
          /\ Updated(row, WholeRow(new)).status = input.verdict[r]
      <4> HIDE DEF new
      <4>1. QED
        BY <3>1, <3>2, <3>5, UpdatedColumns
    <3> HIDE DEF new
    <3>8. pc' = [pc EXCEPT ![r] = "read"] /\ entity' = [entity EXCEPT ![r] = WholeRow(new)]
          /\ UNCHANGED <<row, granted, spent, decided, input, seen>>
      BY <2>10 DEF ReviewLoad, new
    <3>9. QED
      BY <2>10, <3>3, <3>4, <3>5, <3>6, <3>7, <3>8, HoldStep
  <2>11. CASE SaveSelect(r)
    <3> DEFINE e == entity[r]
               u == UpdateOf(e, row, Hooked(r))
    <3>1. e \in Entity /\ Hooked(r) \in BOOLEAN
      BY <1>0 DEF Hooked
    <3>2. /\ u \in Entity /\ u.val.totalPoints = e.val.totalPoints
          /\ "totalPoints" \in u.cols => "totalPoints" \in e.cols
          /\ Updated(row, u).totalPoints = Updated(row, e).totalPoints
          /\ Updated(row, u).status = Updated(row, e).status
      BY <1>0, <3>1, UpdateOfKeeps
    <3>3. pc[r] = "read" /\ torn' = torn
      BY <2>11 DEF SaveSelect
    <3>4. ~torn' => ~torn /\ \A s \in Requests : InWindow(s) => s = r
      BY <3>3 DEF PointsInv, ExactInv, InWindow
    <3>5. "totalPoints" \in u.cols => Within(u.val.totalPoints, Gain(r), Loss(r))
      BY <3>2, <3>3 DEF PointsInv, BoundsInv
    <3>6. ~torn' => /\ Updated(row, u).totalPoints = row.totalPoints + Delta(r)
                    /\ Updated(row, u).status =
                         IF SetsStatus(r) THEN StatusOf(r) ELSE row.status
      BY <3>2, <3>3 DEF PointsInv, ExactInv
    <3> HIDE DEF u
    <3>7. pc' = [pc EXCEPT ![r] = "diffed"] /\ entity' = [entity EXCEPT ![r] = u]
          /\ UNCHANGED <<row, granted, spent, decided, input, seen>>
      BY <2>11 DEF SaveSelect, u
    <3>8. QED
      BY <3>2, <3>4, <3>5, <3>6, <3>7, HoldStep
  <2>12. CASE SaveUpdate(r)
    BY <2>12, SaveUpdateStep
  <2>13. QED
    BY <1>2, <2>1, <2>2, <2>3, <2>4, <2>5, <2>6, <2>7, <2>8, <2>9, <2>10, <2>11, <2>12
       DEF Continue
<1>3. ASSUME NEW c \in Crons, CronStep(c) PROVE PointsInv'
  BY <1>3, FrameStep
     DEF CronStep, CronStart, CronFetch, CronRemove, CronClear, CronQueue, CronFails
<1>4. ASSUME NEW b \in Boosts, RowAges(b) PROVE PointsInv'
  BY <1>4, FrameStep DEF RowAges
<1>5. CASE Crash
  <2>1. \A r \in Requests : pc'[r] \notin {"quoted", "read", "diffed"}
    BY <1>0, <1>5 DEF Crash, Live, Ended
  <2>2. QED
    BY <1>5, <2>1, FrameStep DEF Crash
<1>6. CASE UNCHANGED vars
  BY <1>6, FrameStep DEF vars
<1>7. QED
  BY <1>1, <1>2, <1>3, <1>4, <1>5, <1>6 DEF Next

(* PointsBounded: for any number of requests of each kind, in any order of *)
(* their steps, with any crashes, the balance never exceeds what payments  *)
(* allow and never falls below what deductions explain.                    *)
THEOREM PointsStayBounded == Spec => []PointsBounded
<1>1. TypeOK /\ PointsInv => PointsBounded
  BY PointsAssumption DEF TypeOK, PointsInv, BoundsInv, PointsBounded, Within
<1>2. QED
  BY <1>1, PointsInvInit, PointsInvStep, TypeCorrect, PTL DEF Spec

(* PointsExact: the balance is exactly the opening balance plus what was   *)
(* granted minus what was spent until two read-modify-write windows on the *)
(* row overlap.                                                            *)
THEOREM PointsStayExact == Spec => []PointsExact
<1>1. PointsInv => PointsExact
  BY DEF PointsInv, ExactInv, PointsExact
<1>2. QED
  BY <1>1, PointsInvInit, PointsInvStep, TypeCorrect, PTL DEF Spec

(* StatusExact: until then the status is the one the last review, or the   *)
(* last payload that names one, has set, whichever statuses payloads name. *)
THEOREM StatusStaysExact == Spec => []StatusExact
<1>1. PointsInv => StatusExact
  BY DEF PointsInv, ExactInv, StatusExact
<1>2. QED
  BY <1>1, PointsInvInit, PointsInvStep, TypeCorrect, PTL DEF Spec
=============================================================================
