-------------------------- MODULE JobLifecycleProofs --------------------------
(***************************************************************************)
(* Proofs about JobLifecycle, for every set of jobs, calls and crons, every *)
(* page size and every number of days and crashes.                         *)
(***************************************************************************)
EXTENDS JobLifecycle, TLAPS

(* updateJob holds the row it will save.                                   *)
HoldsRow(u) == pc[u] \in {"loaded", "stripped", "diffed", "inserting"}

(* x's reading of job j is still what the database has, and no outdated    *)
(* reading has been written to it.                                         *)
Fresh(x, j) == <<x, j>> \notin stale /\ j \notin torn

(* Rows that refer to a job keep it, and what an update will save is a row. *)
ReferencesInv ==
    /\ \A j \in boosted : Exists(j)
    /\ \A a \in applied : Exists(Target[a])
    /\ \A u \in Updates : HoldsRow(u) => held[u].row \in Row

(* FlagAgrees, ExpiredIsPast and ClosedReopens are not inductive: they say *)
(* nothing of the rows the updates hold and of the jobs the crons have     *)
(* found.  What a fresh reading says still holds when it is written.       *)
HeldFact(u) ==
    HoldsRow(u) /\ Fresh(u, Target[u]) =>
      LET db == job[Target[u]]
          r == held[u].row
      IN  /\ Updatable(Target[u])
          /\ r.isBoost = db.isBoost
          /\ input.deadline[u] = NoDeadline => r.status = db.status /\ r.deadline = db.deadline
          /\ input.deadline[u] # NoDeadline /\ r.status = "EXPIRED" => r.deadline <= now
          /\ pc[u] = "diffed" => \A c \in Columns \ held[u].cols : r[c] = db[c]

HeldInv == \A u \in Updates : HeldFact(u)

FoundInv ==
    \A c \in Crons : \A j \in cron[c].found :
      Fresh(c, j) => Exists(j) /\ job[j].deadline < now

(* RelationsWhole says nothing of the junction rows while an update is     *)
(* between its removal and its save: then there are none, it is the only   *)
(* such update, and its plan is to insert what it was asked for.           *)
PlanFact(u) ==
    BetweenStripAndSave(u) /\ Target[u] \notin clashed =>
      /\ rels[Target[u]] = {}
      /\ pc[u] # "stripped" => held[u].add = input.choice[u] /\ held[u].remove = {}
      /\ \A x \in Updates : BetweenStripAndSave(x) /\ Target[x] = Target[u] => x = u

RelationsInv == RelationsWhole /\ \A u \in Updates : PlanFact(u)

(* A handler that passed the check for applications and is still to write  *)
(* the relations knows of every application, or its reading is outdated.   *)
AppliedInv ==
    \A r \in Updates \cup Deletes :
      Live(r) /\ Applied(Target[r]) => ~Fresh(r, Target[r])

TypeInv == TypeOK /\ ReferencesInv

-----------------------------------------------------------------------------
(* Lemmas about rows *)

LEMMA RowFields ==
  ASSUME NEW r \in Row
  PROVE  /\ r # Absent
         /\ r.status \in Statuses /\ r.deadline \in Nat /\ r.isBoost \in BOOLEAN
         /\ r.deadline # NoDeadline
<1>1. r # Absent
  BY AbsentAssumption
<1>2. \A d \in Days : d \in Nat
  BY DaysAssumption DEF Days
<1>3. r.status \in Statuses /\ r.deadline \in Days /\ r.isBoost \in BOOLEAN
  BY DEF Row
<1> QED
  BY <1>1, <1>2, <1>3, DaysAssumption

LEMMA MergedType ==
  ASSUME NEW r \in Row, NEW db \in Row, NEW C
  PROVE  [c \in Columns |-> IF c \in C THEN r[c] ELSE db[c]] \in Row
  BY DEF Row, Columns

(* The columns of a row that is saved over another.                        *)
LEMMA MergedColumns ==
  ASSUME NEW r, NEW db, NEW C, NEW c \in Columns
  PROVE  [d \in Columns |-> IF d \in C THEN r[d] ELSE db[d]][c]
            = IF c \in C THEN r[c] ELSE db[c]
  OBVIOUS

-----------------------------------------------------------------------------
(* Type correctness *)

LEMMA KindsOfRequests ==
  /\ Updates \subseteq Requests /\ Deletes \subseteq Requests /\ Applies \subseteq Requests
  /\ Closes \cup Opens \cup Changes \subseteq Requests
  BY DEF Requests

LEMMA TargetType == ASSUME NEW r \in Requests PROVE Target[r] \in Jobs
  BY TargetAssumption

LEMMA WritesType ==
  ASSUME TypeOK, NEW x, NEW J \in SUBSET Jobs, Writes(x, J)
  PROVE  stale' \subseteq (Requests \cup Crons) \X Jobs /\ torn' \subseteq Jobs
<1>1. \A j : Readers(j) \subseteq Requests \cup Crons
  BY DEF Readers
<1> QED
  BY <1>1 DEF TypeOK, Writes

LEMMA LeavesType ==
  ASSUME TypeOK, NEW x, Leaves(x)
  PROVE  stale' \subseteq (Requests \cup Crons) \X Jobs
  BY DEF TypeOK, Leaves

LEMMA EditedType ==
  ASSUME TypeOK, NEW u \in Updates, Exists(Target[u]),
         NEW s \in StatusesFor(u, job[Target[u]].status)
  PROVE  Edited(u, s) \in Row
<1>1. job[Target[u]] \in Row
  BY TargetType, KindsOfRequests DEF TypeOK, Exists
<1>2. input.deadline[u] \in Deadlines \cup {NoDeadline}
  BY DEF TypeOK
<1>3. s \in Statuses
  BY <1>1 DEF StatusesFor, Statuses, Row
<1> QED
  BY <1>1, <1>2, <1>3 DEF Edited, Row, Days

LEMMA StatusSetType ==
  ASSUME TypeOK, NEW r \in Closes \cup Opens \cup Changes, Exists(Target[r])
  PROVE  StatusSet(r) \in Row
<1> DEFINE old == job[Target[r]]
<1>1. old \in Row
  BY TargetType, KindsOfRequests DEF TypeOK, Exists
<1>2. now \in Days /\ now + Month \in Days
  BY DaysAssumption DEF TypeOK, Days
<1>3. CASE r \in Closes
  <2>1. StatusSet(r) = [old EXCEPT !.status = "CLOSED", !.deadline = now]
    BY <1>3, KindsAssumption DEF StatusSet
  <2> QED
    BY <1>1, <1>2, <2>1 DEF Row, Statuses
<1>4. CASE r \in Opens
  <2>1. StatusSet(r) = [old EXCEPT !.status = "OPEN", !.deadline = now + Month]
    BY <1>4, KindsAssumption DEF StatusSet
  <2> QED
    BY <1>1, <1>2, <2>1 DEF Row, Statuses
<1>5. CASE r \in Changes
  <2>1. StatusSet(r) = [old EXCEPT !.status = input.verdict[r]]
    BY <1>5, KindsAssumption DEF StatusSet
  <2>2. input.verdict[r] \in Statuses
    BY <1>5, StatusAssumption DEF TypeOK
  <2> QED
    BY <1>1, <2>1, <2>2 DEF Row
<1> QED
  BY <1>3, <1>4, <1>5

(* A merged row, an inserted one, or none.                                 *)
LEMMA SavedType ==
  ASSUME TypeInv, NEW u \in Updates, pc[u] \in {"diffed", "inserting"}
  PROVE  /\ Saved(u) \in Row \cup {Absent}
         /\ Exists(Target[u]) => Saved(u) # Absent
<1>1. held[u].row \in Row
  BY DEF TypeInv, ReferencesInv, HoldsRow
<1>2. job[Target[u]] \in Row \cup {Absent}
  BY TargetType, KindsOfRequests DEF TypeInv, TypeOK
<1>3. CASE Exists(Target[u])
  BY <1>1, <1>2, <1>3, MergedType, RowFields DEF Saved, Exists
<1>4. CASE ~Exists(Target[u])
  BY <1>1, <1>4 DEF Saved
<1> QED
  BY <1>3, <1>4

LEMMA TypeInvInit == Init => TypeInv
<1> SUFFICES ASSUME Init PROVE TypeInv
  OBVIOUS
<1> USE DEF Init
<1>1. job \in [Jobs -> Row] /\ now \in 0..LastDay /\ crashes \in 0..MaxCrashes
  BY DaysAssumption, BoundsAssumption, StatusAssumption DEF Row, Statuses, Days
<1>2. rels \in [Jobs -> SUBSET Relations] /\ chosen \in [Jobs -> SUBSET Relations]
  BY RelationsAssumption
<1>3. held \in [Updates -> Plan]
  BY DEF Nothing, Plan
<1>4. cron \in [Crons -> [pc : {"idle", "fetch", "expire"}, offset : Nat, found : SUBSET Jobs]]
  BY DEF Sleeping
<1>5. pc \in [Requests -> Labels]
  BY DEF Labels
<1>6. TypeOK
  BY <1>1, <1>2, <1>3, <1>4, <1>5 DEF TypeOK
<1>7. ReferencesInv
  BY KindsOfRequests DEF ReferencesInv, HoldsRow
<1> QED
  BY <1>6, <1>7 DEF TypeInv

(* A request moves on and nothing is written.                              *)
LEMMA MoveType ==
  ASSUME TypeInv, NEW r \in Requests, NEW l \in Labels, Goto(r, l),
         stale' \subseteq (Requests \cup Crons) \X Jobs,
         r \in Updates => ~(l \in {"loaded", "stripped", "diffed", "inserting"}),
         UNCHANGED <<input, now, tables, held, cron, crashes, chosen, forced, torn, clashed>>
  PROVE  TypeInv'
<1> USE KindsOfRequests DEF tables, Goto, Exists, HoldsRow, TypeInv
<1>1. TypeOK'
  BY DEF TypeOK
<1>2. ReferencesInv'
  BY DEF TypeOK, ReferencesInv
<1> QED
  BY <1>1, <1>2

LEMMA UpdateType ==
  ASSUME TypeInv, NEW u \in Updates, UpdateStep(u)
  PROVE  TypeInv'
<1> DEFINE j == Target[u]
<1> USE KindsOfRequests DEF tables, history, Goto
<1>0. j \in Jobs /\ u \in Requests /\ pc[u] \in Labels /\ job[j] \in Row \cup {Absent}
  BY TargetType DEF TypeInv, TypeOK
<1>1. CASE UpdateCheck(u)
  <2> DEFINE l == IF Unapplied(j) THEN "checked" ELSE "rejected"
  <2>1. l \in Labels /\ l \notin {"loaded", "stripped", "diffed", "inserting"} /\ Goto(u, l)
    BY <1>1 DEF UpdateCheck, Labels, Ended
  <2> QED
    BY <1>0, <1>1, <2>1, MoveType DEF UpdateCheck, TypeInv, TypeOK
<1>2. CASE UpdateLoad(u)
  <2>1. CASE Goto(u, "rejected") /\ Leaves(u) /\ UNCHANGED held
    <3>1. stale' \subseteq (Requests \cup Crons) \X Jobs
      BY <2>1, LeavesType DEF TypeInv
    <3> QED
      BY <1>0, <1>2, <2>1, <3>1, MoveType DEF UpdateLoad, Labels, Ended
  <2>2. CASE Updatable(j) /\ Goto(u, "loaded") /\ UNCHANGED stale
             /\ \E s \in StatusesFor(u, job[j].status) :
                  held' = [held EXCEPT ![u] = [Nothing EXCEPT !.row = Edited(u, s)]]
    <3>1. PICK s \in StatusesFor(u, job[j].status) :
             held' = [held EXCEPT ![u] = [Nothing EXCEPT !.row = Edited(u, s)]]
      BY <2>2
    <3>2. Edited(u, s) \in Row
      BY <2>2, EditedType DEF Updatable, TypeInv
    <3>3. held' \in [Updates -> Plan] /\ held'[u].row \in Row
      BY <3>1, <3>2 DEF TypeInv, TypeOK, Plan, Nothing
    <3>4. TypeOK'
      BY <1>0, <1>2, <2>2, <3>3 DEF UpdateLoad, TypeInv, TypeOK, Labels
    <3>5. ReferencesInv'
      BY <1>0, <1>2, <2>2, <3>1, <3>3
         DEF UpdateLoad, TypeInv, TypeOK, ReferencesInv, Exists, HoldsRow
    <3> QED
      BY <3>4, <3>5 DEF TypeInv
  <2> QED
    BY <1>2, <2>1, <2>2 DEF UpdateLoad
<1>3. CASE UpdateStrip(u)
  <2>1. stale' \subseteq (Requests \cup Crons) \X Jobs /\ torn' \subseteq Jobs
    BY <1>0, <1>3, WritesType DEF UpdateStrip, TypeInv
  <2>2. TypeOK'
    BY <1>0, <1>3, <2>1 DEF UpdateStrip, Stripped, TypeInv, TypeOK, Labels
  <2>3. ReferencesInv'
    BY <1>0, <1>3 DEF UpdateStrip, TypeInv, TypeOK, ReferencesInv, Exists, HoldsRow
  <2> QED
    BY <2>2, <2>3 DEF TypeInv
<1>4. CASE SaveSelect(u)
  <2>1. held' \in [Updates -> Plan] /\ held'[u].row = held[u].row
    <3>1. input.choice[u] \subseteq Relations /\ rels[j] \subseteq Relations
      BY <1>0, RelationsAssumption DEF TypeInv, TypeOK
    <3> QED
      BY <1>4, <3>1 DEF SaveSelect, TypeInv, TypeOK, Plan, ChangedColumns
  <2>2. TypeOK'
    BY <1>0, <1>4, <2>1 DEF SaveSelect, TypeInv, TypeOK, Labels
  <2>3. ReferencesInv'
    BY <1>0, <1>4, <2>1 DEF SaveSelect, TypeInv, TypeOK, ReferencesInv, Exists, HoldsRow
  <2> QED
    BY <2>2, <2>3 DEF TypeInv
<1>5. CASE SaveWrite(u)
  <2>1. Saved(u) \in Row \cup {Absent} /\ (Exists(j) => Saved(u) # Absent)
    BY <1>5, SavedType DEF SaveWrite
  <2>2. stale' \subseteq (Requests \cup Crons) \X Jobs /\ torn' \subseteq Jobs
    BY <1>0, <1>5, WritesType DEF SaveWrite, TypeInv
  <2>3. held' \in [Updates -> Plan]
    BY <1>5 DEF SaveWrite, TypeInv, TypeOK, Plan, Nothing
  <2>4. rels' \in [Jobs -> SUBSET Relations] /\ chosen' \in [Jobs -> SUBSET Relations]
    <3>1. input.choice[u] \subseteq Relations /\ held[u].add \subseteq Relations
      BY RelationsAssumption DEF TypeInv, TypeOK, Plan
    <3> QED
      BY <1>5, <3>1 DEF SaveWrite, TypeInv, TypeOK
  <2>5. TypeOK'
    BY <1>0, <1>5, <2>1, <2>2, <2>3, <2>4 DEF SaveWrite, TypeInv, TypeOK, Labels, Ended
  <2>6. ReferencesInv'
    BY <1>0, <1>5, <2>1 DEF SaveWrite, TypeInv, TypeOK, ReferencesInv, Exists, HoldsRow
  <2> QED
    BY <2>5, <2>6 DEF TypeInv
<1>6. CASE SaveFails(u)
  <2>1. stale' \subseteq (Requests \cup Crons) \X Jobs
    BY <1>6, LeavesType DEF SaveFails, TypeInv
  <2>2. held' \in [Updates -> Plan]
    BY <1>6 DEF SaveFails, TypeInv, TypeOK, Plan, Nothing
  <2>3. TypeOK'
    BY <1>0, <1>6, <2>1, <2>2 DEF SaveFails, TypeInv, TypeOK, Labels, Ended
  <2>4. ReferencesInv'
    BY <1>0, <1>6 DEF SaveFails, TypeInv, TypeOK, ReferencesInv, Exists, HoldsRow
  <2> QED
    BY <2>3, <2>4 DEF TypeInv
<1> QED
  BY <1>1, <1>2, <1>3, <1>4, <1>5, <1>6 DEF UpdateStep

LEMMA DeleteType ==
  ASSUME TypeInv, NEW d \in Deletes, DeleteStep(d)
  PROVE  TypeInv'
<1> DEFINE j == Target[d]
<1> USE KindsOfRequests, KindsAssumption DEF tables, history, Goto
<1>0. j \in Jobs /\ d \in Requests \ Updates /\ pc[d] \in Labels
  BY TargetType DEF TypeInv, TypeOK
<1>1. CASE DeleteCheck(d)
  BY <1>0, <1>1 DEF DeleteCheck, TypeInv, TypeOK, ReferencesInv, Exists, HoldsRow, Labels, Ended
<1>2. CASE DeleteStrip(d)
  <2>1. stale' \subseteq (Requests \cup Crons) \X Jobs /\ torn' \subseteq Jobs
    BY <1>0, <1>2, WritesType DEF DeleteStrip, TypeInv
  <2>2. TypeOK'
    BY <1>0, <1>2, <2>1 DEF DeleteStrip, Stripped, TypeInv, TypeOK, Labels
  <2>3. ReferencesInv'
    BY <1>0, <1>2 DEF DeleteStrip, TypeInv, TypeOK, ReferencesInv, Exists, HoldsRow
  <2> QED
    BY <2>2, <2>3 DEF TypeInv
<1>3. CASE DeleteRow(d)
  <2>1. stale' \subseteq (Requests \cup Crons) \X Jobs /\ torn' \subseteq Jobs
    <3>1. CASE Leaves(d) /\ torn' = torn
      BY <3>1, LeavesType DEF TypeInv, TypeOK
    <3>2. CASE Writes(d, {j})
      BY <1>0, <3>2, WritesType DEF TypeInv
    <3> QED
      BY <1>3, <3>1, <3>2 DEF DeleteRow
  <2>2. TypeOK'
    BY <1>0, <1>3, <2>1 DEF DeleteRow, TypeInv, TypeOK, Labels, Ended
  <2>3. ReferencesInv'
    <3>1. \A i \in Jobs : Exists(i) /\ Referenced(i) => Exists(i)'
      BY <1>0, <1>3 DEF DeleteRow, TypeInv, TypeOK, Exists
    <3>2. \A u \in Updates : HoldsRow(u)' => HoldsRow(u) /\ held'[u] = held[u]
      BY <1>0, <1>3 DEF DeleteRow, TypeInv, TypeOK, HoldsRow
    <3>3. applied' = applied /\ boosted' = boosted
      BY <1>3 DEF DeleteRow
    <3> QED
      BY <3>1, <3>2, <3>3, TargetType
         DEF TypeInv, TypeOK, ReferencesInv, Referenced, Applied
  <2> QED
    BY <2>2, <2>3 DEF TypeInv
<1> QED
  BY <1>1, <1>2, <1>3 DEF DeleteStep

LEMMA StatusType ==
  ASSUME TypeInv, NEW r \in Closes \cup Opens \cup Changes, StatusStep(r)
  PROVE  TypeInv'
<1> DEFINE j == Target[r]
<1> USE KindsOfRequests, KindsAssumption DEF tables, history, Goto
<1>0. j \in Jobs /\ r \in Requests \ Updates /\ pc[r] \in Labels
  BY TargetType DEF TypeInv, TypeOK
<1>1. CASE StatusLoad(r)
  BY <1>0, <1>1 DEF StatusLoad, TypeInv, TypeOK, ReferencesInv, Exists, HoldsRow, Labels, Ended
<1>2. CASE StatusWrite(r)
  <2>1. stale' \subseteq (Requests \cup Crons) \X Jobs /\ torn' \subseteq Jobs
    BY <1>0, <1>2, WritesType DEF StatusWrite, TypeInv
  <2>2. Exists(j) => StatusSet(r) \in Row /\ StatusSet(r) # Absent
    BY StatusSetType, RowFields DEF TypeInv
  <2>3. job' \in [Jobs -> Row \cup {Absent}]
    BY <1>0, <1>2, <2>2 DEF StatusWrite, TypeInv, TypeOK
  <2>4. TypeOK'
    BY <1>0, <1>2, <2>1, <2>3 DEF StatusWrite, TypeInv, TypeOK, Labels, Ended
  <2>5. ReferencesInv'
    BY <1>0, <1>2, <2>2 DEF StatusWrite, TypeInv, TypeOK, ReferencesInv, Exists, HoldsRow
  <2> QED
    BY <2>4, <2>5 DEF TypeInv
<1> QED
  BY <1>1, <1>2 DEF StatusStep

LEMMA ApplyType ==
  ASSUME TypeInv, NEW a \in Applies, ApplyStep(a)
  PROVE  TypeInv'
<1> DEFINE j == Target[a]
<1> USE KindsOfRequests, KindsAssumption DEF tables, history, Goto
<1>0. j \in Jobs /\ a \in Requests \ Updates /\ pc[a] \in Labels
  BY TargetType DEF TypeInv, TypeOK
<1>1. CASE ApplyLoad(a)
  BY <1>0, <1>1 DEF ApplyLoad, TypeInv, TypeOK, ReferencesInv, Exists, HoldsRow, Labels, Ended
<1>2. CASE ApplyInsert(a)
  <2>1. stale' \subseteq (Requests \cup Crons) \X Jobs /\ torn' \subseteq Jobs
    BY <1>0, <1>2, WritesType DEF ApplyInsert, TypeInv, TypeOK
  <2>2. TypeOK'
    BY <1>0, <1>2, <2>1 DEF ApplyInsert, TypeInv, TypeOK, Labels, Ended
  <2>3. ReferencesInv'
    BY <1>0, <1>2 DEF ApplyInsert, TypeInv, TypeOK, ReferencesInv, Exists, HoldsRow
  <2> QED
    BY <2>2, <2>3 DEF TypeInv
<1> QED
  BY <1>1, <1>2 DEF ApplyStep

LEMMA OthersType ==
  ASSUME TypeInv, NEW j \in Jobs, Boost(j) \/ BoostEnds(j) \/ View(j)
  PROVE  TypeInv'
<1> USE DEF history
<1>1. CASE View(j)
  BY <1>1 DEF View, TypeInv, TypeOK, ReferencesInv, Exists, HoldsRow
<1>2. CASE Boost(j) \/ BoostEnds(j)
  <2>1. PICK b \in BOOLEAN : job' = [job EXCEPT ![j].isBoost = b]
    BY <1>2 DEF Boost, BoostEnds
  <2>2. job[j] \in Row /\ Exists(j)
    BY <1>2 DEF Boost, BoostEnds, TypeInv, TypeOK, ReferencesInv, Exists
  <2>3. [job[j] EXCEPT !.isBoost = b] \in Row
    BY <2>2 DEF Row
  <2>4. job' \in [Jobs -> Row \cup {Absent}] /\ job'[j] # Absent
        /\ \A i \in Jobs \ {j} : job'[i] = job[i]
    BY <2>1, <2>3, RowFields DEF TypeInv, TypeOK
  <2>5. stale' \subseteq (Requests \cup Crons) \X Jobs /\ torn' \subseteq Jobs
    BY <1>2, WritesType DEF Boost, BoostEnds, TypeInv
  <2>6. TypeOK'
    BY <1>2, <2>4, <2>5 DEF Boost, BoostEnds, TypeInv, TypeOK
  <2>7. \A i \in Jobs : Exists(i) => Exists(i)'
    BY <2>4 DEF Exists
  <2>8. boosted' \subseteq boosted \cup {j} /\ boosted \subseteq Jobs /\ Exists(j)'
    BY <1>2, <2>4 DEF Boost, BoostEnds, TypeInv, TypeOK, Exists
  <2>9. ReferencesInv'
    BY <1>2, <2>7, <2>8, TargetType, KindsOfRequests
       DEF Boost, BoostEnds, TypeInv, TypeOK, ReferencesInv, HoldsRow
  <2> QED
    BY <2>6, <2>9 DEF TypeInv
<1> QED
  BY <1>1, <1>2

LEMMA CronType ==
  ASSUME TypeInv, NEW c \in Crons, CronStep(c)
  PROVE  TypeInv'
<1> USE DEF tables, history
<1>1. CASE CronStart(c)
  BY <1>1 DEF CronStart, TypeInv, TypeOK, ReferencesInv, Exists, HoldsRow
<1>2. CASE CronFetch(c)
  <2>1. PICK B \in Page(cron[c].offset) :
          LET found == Collected(cron[c].found, B)
          IN  cron' = [cron EXCEPT ![c] =
                  IF Cardinality(B) = BatchSize
                    THEN [pc |-> "fetch", offset |-> @.offset + BatchSize, found |-> found]
                  ELSE IF found = {} THEN Sleeping
                  ELSE [pc |-> "expire", offset |-> 0, found |-> found]]
    BY <1>2 DEF CronFetch
  <2>2. Collected(cron[c].found, B) \subseteq Jobs
    BY DEF Page, DueJobs, Collected, TypeInv, TypeOK
  <2>3. cron' \in [Crons -> [pc : {"idle", "fetch", "expire"}, offset : Nat, found : SUBSET Jobs]]
    BY <2>1, <2>2, BoundsAssumption DEF TypeInv, TypeOK, Sleeping
  <2> QED
    BY <1>2, <2>3 DEF CronFetch, TypeInv, TypeOK, ReferencesInv, Exists, HoldsRow
<1>3. CASE CronExpire(c)
  <2> DEFINE J == cron[c].found
  <2>1. J \subseteq Jobs
    BY DEF TypeInv, TypeOK
  <2>2. \A j \in Jobs : Exists(j) => [job[j] EXCEPT !.status = "EXPIRED"] \in Row
    BY DEF TypeInv, TypeOK, Exists, Row, Statuses
  <2>3. job' \in [Jobs -> Row \cup {Absent}]
    BY <1>3, <2>2 DEF CronExpire, TypeInv, TypeOK
  <2>4. \A j \in Jobs : Exists(j) => Exists(j)'
    BY <1>3, <2>2, RowFields DEF CronExpire, Exists
  <2>5. stale' \subseteq (Requests \cup Crons) \X Jobs /\ torn' \subseteq Jobs
    BY <1>3, <2>1, WritesType DEF CronExpire, TypeInv
  <2>6. cron' \in [Crons -> [pc : {"idle", "fetch", "expire"}, offset : Nat, found : SUBSET Jobs]]
    BY <1>3 DEF CronExpire, Sleeping, TypeInv, TypeOK
  <2>7. TypeOK'
    BY <1>3, <2>3, <2>5, <2>6 DEF CronExpire, TypeInv, TypeOK
  <2>8. ReferencesInv'
    BY <1>3, <2>4, TargetType, KindsOfRequests
       DEF CronExpire, TypeInv, TypeOK, ReferencesInv, HoldsRow
  <2> QED
    BY <2>7, <2>8 DEF TypeInv
<1> QED
  BY <1>1, <1>2, <1>3 DEF CronStep

LEMMA TypeInvStep == TypeInv /\ [Next]_vars => TypeInv'
<1> SUFFICES ASSUME TypeInv, [Next]_vars PROVE TypeInv'
  OBVIOUS
<1> USE DEF tables, history
<1>1. CASE Tick
  BY <1>1, DaysAssumption DEF Tick, TypeInv, TypeOK, ReferencesInv, Exists, HoldsRow
<1>2. CASE Crash
  <2>1. held' \in [Updates -> Plan]
    BY <1>2 DEF Crash, Nothing, Plan
  <2>2. cron' \in [Crons -> [pc : {"idle", "fetch", "expire"}, offset : Nat, found : SUBSET Jobs]]
    BY <1>2 DEF Crash, Sleeping
  <2>3. pc' \in [Requests -> Labels] /\ \A u \in Updates : ~HoldsRow(u)'
    BY <1>2, KindsOfRequests DEF Crash, TypeInv, TypeOK, Live, HoldsRow, Labels, Ended
  <2>4. TypeOK'
    BY <1>2, <2>1, <2>2, <2>3, BoundsAssumption DEF Crash, TypeInv, TypeOK
  <2>5. ReferencesInv'
    BY <1>2, <2>3 DEF Crash, TypeInv, ReferencesInv, Exists
  <2> QED
    BY <2>4, <2>5 DEF TypeInv
<1>3. CASE UNCHANGED vars
  BY <1>3 DEF vars, TypeInv, TypeOK, ReferencesInv, Exists, HoldsRow
<1> QED
  BY <1>1, <1>2, <1>3, UpdateType, DeleteType, StatusType, ApplyType, OthersType, CronType DEF Next

(* Every variable keeps its type, whatever runs, fails or crashes.         *)
THEOREM TypeCorrect == Spec => []TypeOK
<1>1. TypeInv => TypeOK
  BY DEF TypeInv
<1> QED
  BY <1>1, TypeInvInit, TypeInvStep, PTL DEF Spec

(* The check of deleteJob comes long before the deletion, and yet no       *)
(* application is left without its job: the foreign key of the table and   *)
(* the existence every writer checks or keeps see to it.                   *)
THEOREM ApplicationsStay == Spec => []ApplicationsKeepJob
<1>1. TypeInv => ApplicationsKeepJob
  BY DEF TypeInv, ReferencesInv, ApplicationsKeepJob
<1> QED
  BY <1>1, TypeInvInit, TypeInvStep, PTL DEF Spec

-----------------------------------------------------------------------------
(* Fresh readings *)

(* Actor x moves; the others stay where they are, or die with the process. *)
OwnMemory(x) ==
    /\ \A r \in Requests \ {x} : pc'[r] # "dead" => pc'[r] = pc[r]
    /\ \A u \in Updates \ {x} : HoldsRow(u)' => held'[u] = held[u]
    /\ \A c \in Crons \ {x} : cron'[c] \in {cron[c], Sleeping}

(* Whoever else has a fresh reading of a job after a step of x had one     *)
(* before it, and it says the same.                                        *)
Unnoticed(x) ==
    \A y \in (Requests \cup Crons) \ {x} : \A j \in Jobs :
      y \in Readers(j)' /\ Fresh(y, j)' =>
        /\ y \in Readers(j) /\ Fresh(y, j)
        /\ job'[j] = job[j] /\ (Applied(j)' => Applied(j))

Others(x) == OwnMemory(x) /\ Unnoticed(x)

LEMMA ReadersStay ==
  ASSUME NEW x, OwnMemory(x), NEW y \in (Requests \cup Crons) \ {x}, NEW j, y \in Readers(j)'
  PROVE  y \in Readers(j)
  BY DEF OwnMemory, Readers, Live, Ended, Sleeping

LEMMA WritesFresh ==
  ASSUME NEW x, NEW J, Writes(x, J), NEW y, NEW j, Fresh(y, j)'
  PROVE  Fresh(y, j) /\ (j \in J /\ y # x => y \notin Readers(j))
  BY DEF Writes, Fresh

LEMMA WritesUnnoticed ==
  ASSUME NEW x, NEW J, OwnMemory(x), Writes(x, J),
         \A j \in Jobs \ J : job'[j] = job[j] /\ (Applied(j)' => Applied(j))
  PROVE  Unnoticed(x)
  BY ReadersStay, WritesFresh DEF Unnoticed

LEMMA ReadsUnnoticed ==
  ASSUME NEW x, OwnMemory(x), UNCHANGED <<job, applied, torn>>, stale' = stale \/ Leaves(x)
  PROVE  Unnoticed(x)
<1>1. \A y, j : y # x /\ Fresh(y, j)' => Fresh(y, j)
  BY DEF Leaves, Fresh
<1> QED
  BY <1>1, ReadersStay DEF Unnoticed, Applied

LEMMA RequestOwnMemory ==
  ASSUME TypeInv, NEW r \in Requests, NEW l, Goto(r, l), cron' = cron,
         \A u \in Updates \ {r} : held'[u] = held[u]
  PROVE  OwnMemory(r)
  BY KindsAssumption DEF OwnMemory, Goto, TypeInv, TypeOK

LEMMA UpdateOthers ==
  ASSUME TypeInv, NEW u \in Updates, UpdateStep(u)
  PROVE  Others(u)
<1> DEFINE j == Target[u]
<1> USE KindsOfRequests DEF tables, history
<1>1. PICK l : Goto(u, l)
  BY DEF UpdateStep, UpdateCheck, UpdateLoad, UpdateStrip, SaveSelect, SaveWrite, SaveFails
<1>2. cron' = cron /\ \A v \in Updates \ {u} : held'[v] = held[v]
  BY DEF UpdateStep, UpdateCheck, UpdateLoad, UpdateStrip, SaveSelect, SaveWrite, SaveFails,
         TypeInv, TypeOK
<1>3. OwnMemory(u)
  BY <1>1, <1>2, RequestOwnMemory
<1>4. CASE UpdateCheck(u) \/ UpdateLoad(u) \/ SaveSelect(u) \/ SaveFails(u)
  <2>1. UNCHANGED <<job, applied, torn>> /\ (stale' = stale \/ Leaves(u))
    BY <1>4 DEF UpdateCheck, UpdateLoad, SaveSelect, SaveFails
  <2> QED
    BY <1>3, <2>1, ReadsUnnoticed DEF Others
<1>5. CASE UpdateStrip(u) \/ SaveWrite(u)
  <2>1. Writes(u, {j}) /\ applied' = applied /\ \A i \in Jobs \ {j} : job'[i] = job[i]
    BY <1>5 DEF UpdateStrip, SaveWrite, TypeInv, TypeOK
  <2> QED
    BY <1>3, <2>1, WritesUnnoticed DEF Others, Applied
<1> QED
  BY <1>4, <1>5 DEF UpdateStep

LEMMA DeleteOthers ==
  ASSUME TypeInv, NEW d \in Deletes, DeleteStep(d)
  PROVE  Others(d)
<1> DEFINE j == Target[d]
<1> USE KindsOfRequests DEF tables, history
<1>1. PICK l : Goto(d, l)
  BY DEF DeleteStep, DeleteCheck, DeleteStrip, DeleteRow
<1>2. cron' = cron /\ held' = held /\ applied' = applied
  BY DEF DeleteStep, DeleteCheck, DeleteStrip, DeleteRow
<1>3. OwnMemory(d)
  BY <1>1, <1>2, RequestOwnMemory
<1>4. \/ UNCHANGED <<job, torn>> /\ (stale' = stale \/ Leaves(d))
      \/ Writes(d, {j}) /\ \A i \in Jobs \ {j} : job'[i] = job[i]
  BY DEF DeleteStep, DeleteCheck, DeleteStrip, DeleteRow, TypeInv, TypeOK
<1> QED
  BY <1>2, <1>3, <1>4, ReadsUnnoticed, WritesUnnoticed DEF Others, Applied

LEMMA StatusOthers ==
  ASSUME TypeInv, NEW r \in Closes \cup Opens \cup Changes, StatusStep(r)
  PROVE  Others(r)
<1> DEFINE j == Target[r]
<1> USE KindsOfRequests DEF tables, history
<1>1. PICK l : Goto(r, l)
  BY DEF StatusStep, StatusLoad, StatusWrite
<1>2. cron' = cron /\ held' = held /\ applied' = applied
  BY DEF StatusStep, StatusLoad, StatusWrite
<1>3. OwnMemory(r)
  BY <1>1, <1>2, RequestOwnMemory
<1>4. \/ UNCHANGED <<job, torn, stale>>
      \/ Writes(r, {j}) /\ \A i \in Jobs \ {j} : job'[i] = job[i]
  BY DEF StatusStep, StatusLoad, StatusWrite, TypeInv, TypeOK
<1> QED
  BY <1>2, <1>3, <1>4, ReadsUnnoticed, WritesUnnoticed DEF Others, Applied

LEMMA ApplyOthers ==
  ASSUME TypeInv, NEW a \in Applies, ApplyStep(a)
  PROVE  Others(a)
<1> DEFINE j == Target[a]
<1> USE KindsOfRequests DEF tables, history
<1>1. PICK l : Goto(a, l)
  BY DEF ApplyStep, ApplyLoad, ApplyInsert
<1>2. cron' = cron /\ held' = held /\ job' = job
  BY DEF ApplyStep, ApplyLoad, ApplyInsert
<1>3. OwnMemory(a)
  BY <1>1, <1>2, RequestOwnMemory
<1>4. \/ UNCHANGED <<applied, torn, stale>>
      \/ Writes(a, {j}) /\ applied' = applied \cup {a}
  BY DEF ApplyStep, ApplyLoad, ApplyInsert
<1>5. applied' = applied \cup {a} => \A i \in Jobs \ {j} : Applied(i)' => Applied(i)
  BY DEF Applied
<1> QED
  BY <1>2, <1>3, <1>4, <1>5, ReadsUnnoticed, WritesUnnoticed DEF Others

LEMMA BoostOthers ==
  ASSUME TypeInv, NEW j \in Jobs, Boost(j) \/ BoostEnds(j) \/ View(j)
  PROVE  Others("boost")
<1> USE DEF history
<1>1. UNCHANGED <<pc, held, cron, applied>>
  BY DEF Boost, BoostEnds, View
<1>2. OwnMemory("boost")
  BY <1>1 DEF OwnMemory
<1>3. \/ UNCHANGED <<job, torn, stale>>
      \/ Writes("boost", {j}) /\ \A i \in Jobs \ {j} : job'[i] = job[i]
  BY DEF Boost, BoostEnds, View, TypeInv, TypeOK
<1> QED
  BY <1>1, <1>2, <1>3, ReadsUnnoticed, WritesUnnoticed DEF Others, Applied

LEMMA CronOthers ==
  ASSUME TypeInv, NEW c \in Crons, CronStep(c)
  PROVE  Others(c)
<1> DEFINE J == cron[c].found
<1> USE DEF tables, history
<1>1. UNCHANGED <<pc, held, applied>> /\ \A k \in Crons \ {c} : cron'[k] = cron[k]
  BY DEF CronStep, CronStart, CronFetch, CronExpire, TypeInv, TypeOK
<1>2. OwnMemory(c)
  BY <1>1 DEF OwnMemory
<1>3. \/ UNCHANGED <<job, torn, stale>>
      \/ Writes(c, J) /\ \A i \in Jobs \ J : job'[i] = job[i]
  BY DEF CronStep, CronStart, CronFetch, CronExpire, TypeInv, TypeOK
<1> QED
  BY <1>1, <1>2, <1>3, ReadsUnnoticed, WritesUnnoticed DEF Others, Applied

LEMMA QuietOthers ==
  ASSUME TypeInv, Tick \/ Crash \/ UNCHANGED vars, NEW x
  PROVE  Others(x)
<1> USE DEF tables, history
<1>1. CASE Tick \/ UNCHANGED vars
  <2>1. UNCHANGED <<pc, held, cron, job, applied, torn, stale>>
    BY <1>1 DEF Tick, vars
  <2>2. OwnMemory(x)
    BY <2>1 DEF OwnMemory
  <2> QED
    BY <2>1, <2>2, ReadsUnnoticed DEF Others
<1>2. CASE Crash
  <2>1. \A r \in Requests : ~Live(r)'
    BY <1>2 DEF Crash, Live, Ended
  <2>2. \A y \in Requests \cup Crons, j \in Jobs : y \notin Readers(j)'
    BY <1>2, <2>1 DEF Crash, Readers, Sleeping
  <2>3. OwnMemory(x)
    <3>1. \A r \in Requests : pc'[r] # "dead" => pc'[r] = pc[r]
      BY <1>2 DEF Crash
    <3>2. \A u \in Updates : ~HoldsRow(u)'
      BY <2>1, KindsOfRequests DEF HoldsRow, Live, Ended
    <3>3. \A c \in Crons : cron'[c] = Sleeping
      BY <1>2 DEF Crash
    <3> QED
      BY <3>1, <3>2, <3>3 DEF OwnMemory
  <2> QED
    BY <2>2, <2>3 DEF Others, Unnoticed
<1> QED
  BY <1>1, <1>2

(* What no step does.                                                      *)
LEMMA Steady == TypeInv /\ [Next]_vars => input' = input /\ now' \in Nat /\ now <= now'
<1> SUFFICES ASSUME TypeInv, [Next]_vars PROVE input' = input /\ now' \in Nat /\ now <= now'
  OBVIOUS
<1>1. now \in Nat
  BY DaysAssumption DEF TypeInv, TypeOK
<1>2. input' = input /\ now' \in {now, now + 1}
  BY DEF Next, vars, UpdateStep, UpdateCheck, UpdateLoad, UpdateStrip, SaveSelect, SaveWrite,
         SaveFails, DeleteStep, DeleteCheck, DeleteStrip, DeleteRow, StatusStep, StatusLoad,
         StatusWrite, ApplyStep, ApplyLoad, ApplyInsert, Boost, BoostEnds, View, CronStep,
         CronStart, CronFetch, CronExpire, Tick, Crash
<1> QED
  BY <1>1, <1>2

-----------------------------------------------------------------------------
(* What a fresh reading says                                               *)

LEMMA HeldKept ==
  ASSUME TypeInv, [Next]_vars, NEW u \in Updates, HeldFact(u), NEW x, x # u, Others(x)
  PROVE  HeldFact(u)'
<1> DEFINE j == Target[u]
<1>0. j \in Jobs /\ u \in Requests \ Applies
  BY TargetType, KindsOfRequests, KindsAssumption
<1> SUFFICES ASSUME HoldsRow(u)', Fresh(u, j)' PROVE HeldFact(u)'
  BY DEF HeldFact
<1>1. u \in Readers(j)'
  BY <1>0 DEF Readers, Live, HoldsRow, Ended
<1>2. pc'[u] = pc[u] /\ held'[u] = held[u] /\ HoldsRow(u)
  BY <1>0 DEF Others, OwnMemory, HoldsRow
<1>3. Fresh(u, j) /\ job'[j] = job[j]
  BY <1>0, <1>1 DEF Others, Unnoticed
<1>4. held[u].row \in Row
  BY <1>2 DEF TypeInv, ReferencesInv
<1>5. held[u].row.deadline \in Nat /\ now \in Nat
  BY <1>4, RowFields, DaysAssumption DEF TypeInv, TypeOK
<1> QED
  BY <1>2, <1>3, <1>5, Steady DEF HeldFact, Updatable, Exists

LEMMA HeldOwn ==
  ASSUME TypeInv, NEW u \in Updates, HeldFact(u), UpdateStep(u)
  PROVE  HeldFact(u)'
<1> DEFINE j == Target[u]
<1> USE KindsOfRequests DEF tables, history, Goto
<1>0. /\ j \in Jobs /\ u \in Requests /\ now \in Nat
      /\ input.deadline[u] \in Deadlines \cup {NoDeadline}
      /\ job[j] \in Row \cup {Absent} /\ held[u] \in Plan
  BY TargetType, DaysAssumption DEF TypeInv, TypeOK
<1>1. CASE UpdateCheck(u) \/ SaveWrite(u) \/ SaveFails(u)
  BY <1>0, <1>1 DEF UpdateCheck, SaveWrite, SaveFails, HeldFact, HoldsRow, TypeInv, TypeOK
<1>2. CASE UpdateLoad(u)
  <2>1. CASE Goto(u, "rejected")
    BY <1>0, <2>1 DEF HeldFact, HoldsRow, TypeInv, TypeOK
  <2>2. CASE Updatable(j) /\ Goto(u, "loaded")
             /\ \E s \in StatusesFor(u, job[j].status) :
                  held' = [held EXCEPT ![u] = [Nothing EXCEPT !.row = Edited(u, s)]]
    <3>1. PICK s \in StatusesFor(u, job[j].status) :
             held' = [held EXCEPT ![u] = [Nothing EXCEPT !.row = Edited(u, s)]]
      BY <2>2
    <3>2. held'[u].row = Edited(u, s) /\ pc'[u] = "loaded"
      BY <1>0, <2>2, <3>1 DEF TypeInv, TypeOK, Nothing
    <3>3. job' = job /\ input' = input /\ now' = now
      BY <1>2 DEF UpdateLoad
    <3>4. input.deadline[u] = NoDeadline
            => Edited(u, s).status = job[j].status /\ Edited(u, s).deadline = job[j].deadline
      BY <3>1 DEF StatusesFor, Edited
    <3>5. input.deadline[u] # NoDeadline /\ Edited(u, s).status = "EXPIRED"
            => Edited(u, s).deadline <= now
      <4> SUFFICES ASSUME input.deadline[u] # NoDeadline, s = "EXPIRED"
                   PROVE  input.deadline[u] <= now
        BY DEF Edited
      <4>1. ~(input.deadline[u] > now) /\ input.deadline[u] \in Nat
        BY <1>0, <3>1, DaysAssumption DEF StatusesFor
      <4> QED
        BY <1>0, <4>1
    <3>6. Edited(u, s).isBoost = job[j].isBoost
      BY DEF Edited
    <3> QED
      BY <2>2, <3>2, <3>3, <3>4, <3>5, <3>6 DEF HeldFact, Updatable, Exists
  <2> QED
    BY <1>2, <2>1, <2>2 DEF UpdateLoad
<1>3. CASE UpdateStrip(u)
  <2>1. HoldsRow(u) /\ (Fresh(u, j)' => Fresh(u, j)) /\ pc'[u] = "stripped"
    BY <1>0, <1>3, WritesFresh DEF UpdateStrip, HoldsRow, TypeInv, TypeOK
  <2>2. UNCHANGED <<input, now, job, held>>
    BY <1>3 DEF UpdateStrip
  <2> QED
    BY <2>1, <2>2 DEF HeldFact, Updatable, Exists
<1>4. CASE SaveSelect(u)
  <2>1. HoldsRow(u) /\ UNCHANGED <<input, now, job, stale, torn>>
    BY <1>4 DEF SaveSelect, HoldsRow
  <2>2. /\ held'[u].row = held[u].row
        /\ Exists(j) => held'[u].cols = ChangedColumns(held[u].row, job[j])
    BY <1>0, <1>4 DEF SaveSelect, TypeInv, TypeOK
  <2>3. Exists(j) => \A c \in Columns \ held'[u].cols : held[u].row[c] = job[j][c]
    BY <2>2 DEF ChangedColumns
  <2> QED
    BY <2>1, <2>2, <2>3 DEF HeldFact, Fresh, Updatable, Exists
<1> QED
  BY <1>1, <1>2, <1>3, <1>4 DEF UpdateStep

LEMMA HeldInvStep == TypeInv /\ HeldInv /\ [Next]_vars => HeldInv'
<1> SUFFICES ASSUME TypeInv, HeldInv, [Next]_vars, NEW u \in Updates PROVE HeldFact(u)'
  BY DEF HeldInv
<1>0. HeldFact(u)
  BY DEF HeldInv
<1>1. CASE UpdateStep(u)
  BY <1>0, <1>1, HeldOwn
<1>2. ASSUME NEW v \in Updates \ {u}, UpdateStep(v) PROVE HeldFact(u)'
  BY <1>0, <1>2, HeldKept, UpdateOthers
<1>3. ASSUME NEW d \in Deletes, DeleteStep(d) PROVE HeldFact(u)'
  BY <1>0, <1>3, HeldKept, DeleteOthers, KindsAssumption
<1>4. ASSUME NEW r \in Closes \cup Opens \cup Changes, StatusStep(r) PROVE HeldFact(u)'
  BY <1>0, <1>4, HeldKept, StatusOthers, KindsAssumption
<1>5. ASSUME NEW a \in Applies, ApplyStep(a) PROVE HeldFact(u)'
  BY <1>0, <1>5, HeldKept, ApplyOthers, KindsAssumption
<1>6. ASSUME NEW j \in Jobs, Boost(j) \/ BoostEnds(j) \/ View(j) PROVE HeldFact(u)'
  BY <1>0, <1>6, HeldKept, BoostOthers, KindsAssumption, KindsOfRequests
<1>7. ASSUME NEW c \in Crons, CronStep(c) PROVE HeldFact(u)'
  BY <1>0, <1>7, HeldKept, CronOthers, KindsAssumption, KindsOfRequests
<1>8. CASE Tick \/ Crash \/ UNCHANGED vars
  <2>1. Others("boost")
    BY <1>8, QuietOthers
  <2> QED
    BY <1>0, <2>1, HeldKept, KindsAssumption, KindsOfRequests
<1> QED
  BY <1>1, <1>2, <1>3, <1>4, <1>5, <1>6, <1>7, <1>8 DEF Next

LEMMA FoundInvStep == TypeInv /\ FoundInv /\ [Next]_vars => FoundInv'
<1> DEFINE F(c) == \A j \in cron[c].found : Fresh(c, j) => Exists(j) /\ job[j].deadline < now
<1> SUFFICES ASSUME TypeInv, FoundInv, [Next]_vars, NEW c \in Crons PROVE F(c)'
  BY DEF FoundInv
<1>0. F(c) /\ now \in Nat /\ \A j \in Jobs : Exists(j) => job[j].deadline \in Nat
  BY RowFields, DaysAssumption DEF FoundInv, TypeInv, TypeOK, Exists
<1>1. ASSUME NEW x, x # c, Others(x) PROVE F(c)'
  <2> SUFFICES ASSUME NEW j \in cron'[c].found, Fresh(c, j)'
               PROVE  job'[j] # Absent /\ job'[j].deadline < now'
    BY DEF Exists
  <2>1. cron'[c] = cron[c]
    BY <1>1 DEF Others, OwnMemory, Sleeping
  <2>2. j \in Jobs /\ c \in Readers(j)'
    BY <2>1 DEF TypeInv, TypeOK, Readers
  <2>3. Fresh(c, j) /\ job'[j] = job[j]
    BY <1>1, <2>2 DEF Others, Unnoticed
  <2> QED
    BY <1>0, <2>1, <2>2, <2>3, Steady DEF Exists
<1>2. CASE CronStep(c)
  <2>1. CASE CronStart(c)
    BY <1>0, <2>1 DEF CronStart, tables, history, Fresh, Exists, TypeInv, TypeOK
  <2>2. CASE CronFetch(c)
    <3>1. cron'[c].found \subseteq cron[c].found \cup DueJobs
      <4>1. PICK B \in Page(cron[c].offset) :
              LET found == Collected(cron[c].found, B)
              IN  cron' = [cron EXCEPT ![c] =
                      IF Cardinality(B) = BatchSize
                        THEN [pc |-> "fetch", offset |-> @.offset + BatchSize, found |-> found]
                      ELSE IF found = {} THEN Sleeping
                      ELSE [pc |-> "expire", offset |-> 0, found |-> found]]
        BY <2>2 DEF CronFetch
      <4>2. Collected(cron[c].found, B) \subseteq cron[c].found \cup DueJobs
        BY DEF Page, Collected
      <4> QED
        BY <4>1, <4>2 DEF Sleeping, TypeInv, TypeOK
    <3> QED
      BY <1>0, <2>2, <3>1 DEF CronFetch, DueJobs, tables, history, Fresh, Exists
  <2>3. CASE CronExpire(c)
    BY <2>3 DEF CronExpire, Sleeping, TypeInv, TypeOK
  <2> QED
    BY <1>2, <2>1, <2>2, <2>3 DEF CronStep
<1>3. ASSUME NEW u \in Updates, UpdateStep(u) PROVE F(c)'
  BY <1>1, <1>3, UpdateOthers, KindsAssumption, KindsOfRequests
<1>4. ASSUME NEW d \in Deletes, DeleteStep(d) PROVE F(c)'
  BY <1>1, <1>4, DeleteOthers, KindsAssumption, KindsOfRequests
<1>5. ASSUME NEW r \in Closes \cup Opens \cup Changes, StatusStep(r) PROVE F(c)'
  BY <1>1, <1>5, StatusOthers, KindsAssumption, KindsOfRequests
<1>6. ASSUME NEW a \in Applies, ApplyStep(a) PROVE F(c)'
  BY <1>1, <1>6, ApplyOthers, KindsAssumption, KindsOfRequests
<1>7. ASSUME NEW j \in Jobs, Boost(j) \/ BoostEnds(j) \/ View(j) PROVE F(c)'
  BY <1>1, <1>7, BoostOthers, KindsAssumption
<1>8. ASSUME NEW k \in Crons \ {c}, CronStep(k) PROVE F(c)'
  BY <1>1, <1>8, CronOthers
<1>9. CASE Tick \/ Crash \/ UNCHANGED vars
  BY <1>1, <1>9, QuietOthers, KindsAssumption
<1> QED
  BY <1>2, <1>3, <1>4, <1>5, <1>6, <1>7, <1>8, <1>9 DEF Next

LEMMA AppliedInvStep == TypeInv /\ AppliedInv /\ [Next]_vars => AppliedInv'
<1> DEFINE A(r) == Live(r) /\ Applied(Target[r]) => ~Fresh(r, Target[r])
<1> USE KindsOfRequests
<1> SUFFICES ASSUME TypeInv, AppliedInv, [Next]_vars, NEW r \in Updates \cup Deletes PROVE A(r)'
  BY DEF AppliedInv
<1> DEFINE j == Target[r]
<1>0. A(r) /\ r \in Requests \ Applies /\ j \in Jobs
  BY TargetType, KindsAssumption DEF AppliedInv
<1>1. ASSUME NEW x, x # r, Others(x) PROVE A(r)'
  <2> SUFFICES ASSUME Live(r)', Applied(j)', Fresh(r, j)' PROVE FALSE
    OBVIOUS
  <2>1. r \in Readers(j)'
    BY <1>0 DEF Readers
  <2>2. r \in Readers(j) /\ Fresh(r, j) /\ Applied(j)
    BY <1>0, <1>1, <2>1 DEF Others, Unnoticed
  <2> QED
    BY <1>0, <2>2, KindsAssumption DEF Readers
<1>2. CASE r \in Updates /\ UpdateStep(r)
  <2> USE DEF tables, history, Goto, A
  <2>1. CASE UpdateCheck(r)
    BY <1>0, <2>1 DEF UpdateCheck, Unapplied, Applied, Live, Ended, TypeInv, TypeOK
  <2>2. CASE UpdateLoad(r)
    <3>1. Live(r) /\ applied' = applied
      BY <2>2 DEF UpdateLoad, Live, Ended
    <3>2. CASE Goto(r, "rejected")
      BY <1>0, <3>2 DEF Live, Ended, TypeInv, TypeOK
    <3>3. CASE UNCHANGED stale
      BY <1>0, <2>2, <3>1, <3>3 DEF UpdateLoad, Fresh, Applied
    <3> QED
      BY <2>2, <3>2, <3>3 DEF UpdateLoad
  <2>3. CASE UpdateStrip(r)
    <3>1. Live(r) /\ applied' = applied /\ (Fresh(r, j)' => Fresh(r, j))
      BY <2>3, WritesFresh DEF UpdateStrip, Live, Ended
    <3> QED
      BY <1>0, <3>1 DEF Applied
  <2>4. CASE SaveSelect(r)
    BY <1>0, <2>4 DEF SaveSelect, Live, Ended, Fresh, Applied
  <2>5. CASE SaveWrite(r) \/ SaveFails(r)
    BY <1>0, <2>5 DEF SaveWrite, SaveFails, Live, Ended, TypeInv, TypeOK
  <2> QED
    BY <1>2, <2>1, <2>2, <2>3, <2>4, <2>5 DEF UpdateStep
<1>3. CASE r \in Deletes /\ DeleteStep(r)
  <2> USE DEF tables, history, Goto, A
  <2>1. CASE DeleteCheck(r)
    BY <1>0, <2>1 DEF DeleteCheck, Unapplied, Applied, Live, Ended, TypeInv, TypeOK
  <2>2. CASE DeleteStrip(r)
    <3>1. Live(r) /\ applied' = applied /\ (Fresh(r, j)' => Fresh(r, j))
      BY <2>2, WritesFresh DEF DeleteStrip, Live, Ended
    <3> QED
      BY <1>0, <3>1 DEF Applied
  <2>3. CASE DeleteRow(r)
    BY <1>0, <2>3 DEF DeleteRow, Live, Ended, TypeInv, TypeOK
  <2> QED
    BY <1>3, <2>1, <2>2, <2>3 DEF DeleteStep
<1>4. ASSUME NEW u \in Updates \ {r}, UpdateStep(u) PROVE A(r)'
  BY <1>1, <1>4, UpdateOthers
<1>5. ASSUME NEW d \in Deletes \ {r}, DeleteStep(d) PROVE A(r)'
  BY <1>1, <1>5, DeleteOthers
<1>6. ASSUME NEW s \in Closes \cup Opens \cup Changes, StatusStep(s) PROVE A(r)'
  BY <1>1, <1>6, StatusOthers, KindsAssumption
<1>7. ASSUME NEW a \in Applies, ApplyStep(a) PROVE A(r)'
  BY <1>0, <1>1, <1>7, ApplyOthers
<1>8. ASSUME NEW i \in Jobs, Boost(i) \/ BoostEnds(i) \/ View(i) PROVE A(r)'
  BY <1>0, <1>1, <1>8, BoostOthers, KindsAssumption
<1>9. ASSUME NEW c \in Crons, CronStep(c) PROVE A(r)'
  BY <1>0, <1>1, <1>9, CronOthers, KindsAssumption
<1>10. CASE Tick \/ Crash \/ UNCHANGED vars
  BY <1>0, <1>1, <1>10, QuietOthers, KindsAssumption
<1> QED
  BY <1>2, <1>3, <1>4, <1>5, <1>6, <1>7, <1>8, <1>9, <1>10 DEF Next

-----------------------------------------------------------------------------
(* What the writers leave in a row                                         *)

RowsInv == TypeInv /\ HeldInv /\ FoundInv /\ AppliedInv

LEMMA RowsInvStep == RowsInv /\ [Next]_vars => RowsInv'
  BY TypeInvStep, HeldInvStep, FoundInvStep, AppliedInvStep DEF RowsInv

LEMMA RowsInvInit == Init => RowsInv
<1> SUFFICES ASSUME Init PROVE RowsInv
  OBVIOUS
<1>1. HeldInv
  BY KindsOfRequests DEF Init, HeldInv, HeldFact, HoldsRow
<1>2. FoundInv
  BY DEF Init, FoundInv, Sleeping
<1>3. AppliedInv
  BY DEF Init, AppliedInv, Applied
<1> QED
  BY <1>1, <1>2, <1>3, TypeInvInit DEF RowsInv

LEMMA RowsInvariant == Spec => []RowsInv
  BY RowsInvInit, RowsInvStep, PTL DEF Spec

(* A fresh update saves its own row, over the row it was made from.        *)
LEMMA SavedFresh ==
  ASSUME RowsInv, NEW u \in Updates, SaveWrite(u), Target[u] \notin torn'
  PROVE  /\ Updatable(Target[u]) /\ HoldsRow(u) /\ Fresh(u, Target[u])
         /\ Saved(u).status = held[u].row.status
         /\ Saved(u).deadline = held[u].row.deadline
         /\ Saved(u).isBoost = held[u].row.isBoost
<1> DEFINE j == Target[u]
<1>1. HoldsRow(u) /\ Fresh(u, j)
  BY DEF SaveWrite, HoldsRow, Writes, Fresh
<1>2. Updatable(j) /\ (pc[u] = "diffed" =>
        \A c \in Columns \ held[u].cols : held[u].row[c] = job[j][c])
  BY <1>1 DEF RowsInv, HeldInv, HeldFact
<1>3. Exists(j) /\ pc[u] = "diffed"
  BY <1>2 DEF SaveWrite, SaveCommits, Updatable
<1>4. held[u].row \in Row /\ job[j] \in Row
  BY <1>1, <1>3, TargetType, KindsOfRequests
     DEF RowsInv, TypeInv, TypeOK, ReferencesInv, Exists
<1>5. Saved(u) = [c \in Columns |-> IF c \in held[u].cols THEN held[u].row[c] ELSE job[j][c]]
  BY <1>3 DEF Saved
<1>6. /\ "status" \notin held[u].cols => held[u].row.status = job[j].status
      /\ "deadline" \notin held[u].cols => held[u].row.deadline = job[j].deadline
      /\ "isBoost" \notin held[u].cols => held[u].row.isBoost = job[j].isBoost
  BY <1>2, <1>3 DEF Columns
<1>7. /\ Saved(u).status = held[u].row.status
      /\ Saved(u).deadline = held[u].row.deadline
      /\ Saved(u).isBoost = held[u].row.isBoost
  <2> HIDE DEF j
  <2>1. {"status", "deadline", "isBoost"} \subseteq Columns
    BY DEF Columns
  <2>2. \A c \in Columns : Saved(u)[c] = IF c \in held[u].cols THEN held[u].row[c] ELSE job[j][c]
    BY <1>5
  <2>3. /\ Saved(u).status = IF "status" \in held[u].cols THEN held[u].row.status ELSE job[j].status
        /\ Saved(u).deadline = IF "deadline" \in held[u].cols THEN held[u].row.deadline ELSE job[j].deadline
        /\ Saved(u).isBoost = IF "isBoost" \in held[u].cols THEN held[u].row.isBoost ELSE job[j].isBoost
    BY <2>1, <2>2
  <2> QED
    BY <1>6, <2>3
<1> QED
  BY <1>1, <1>2, <1>7

LEMMA FlagStep == RowsInv /\ FlagAgrees /\ [Next]_vars => FlagAgrees'
<1> DEFINE F(j) == j \notin torn /\ Exists(j) => (job[j].isBoost <=> j \in boosted)
<1> SUFFICES ASSUME RowsInv, FlagAgrees, [Next]_vars, NEW j \in Jobs PROVE F(j)'
  BY DEF FlagAgrees
<1> USE KindsOfRequests DEF tables, history
<1>0. F(j) /\ job \in [Jobs -> Row \cup {Absent}] /\ TypeInv
  BY DEF FlagAgrees, RowsInv, TypeInv, TypeOK
<1>1. ASSUME torn \subseteq torn', boosted' = boosted,
             Exists(j)' /\ j \notin torn' => Exists(j) /\ job'[j].isBoost = job[j].isBoost
      PROVE  F(j)'
  BY <1>0, <1>1
<1>2. ASSUME NEW u \in Updates, UpdateStep(u) PROVE F(j)'
  <2>1. torn \subseteq torn' /\ boosted' = boosted
    BY <1>2 DEF UpdateStep, UpdateCheck, UpdateLoad, UpdateStrip, SaveSelect, SaveWrite,
                SaveFails, Writes
  <2>2. CASE SaveWrite(u) /\ Target[u] = j
    <3>1. j \notin torn' => Exists(j) /\ Saved(u).isBoost = job[j].isBoost
      BY <2>2, SavedFresh DEF RowsInv, HeldInv, HeldFact, Updatable
    <3>2. job'[j] = Saved(u)
      BY <1>0, <2>2 DEF SaveWrite
    <3> QED
      BY <1>1, <2>1, <3>1, <3>2
  <2>3. CASE ~(SaveWrite(u) /\ Target[u] = j)
    <3>1. job'[j] = job[j]
      BY <1>0, <1>2, <2>3 DEF UpdateStep, UpdateCheck, UpdateLoad, UpdateStrip, SaveSelect,
                              SaveWrite, SaveFails
    <3> QED
      BY <1>1, <2>1, <3>1 DEF Exists
  <2> QED
    BY <2>2, <2>3
<1>3. ASSUME NEW d \in Deletes, DeleteStep(d) PROVE F(j)'
  <2>1. torn \subseteq torn' /\ boosted' = boosted /\ (Exists(j)' => job'[j] = job[j])
    BY <1>0, <1>3 DEF DeleteStep, DeleteCheck, DeleteStrip, DeleteRow, Writes, Exists
  <2> QED
    BY <1>1, <2>1 DEF Exists
<1>4. ASSUME NEW r \in Closes \cup Opens \cup Changes, StatusStep(r) PROVE F(j)'
  <2>1. torn \subseteq torn' /\ boosted' = boosted
    BY <1>4 DEF StatusStep, StatusLoad, StatusWrite, Writes
  <2>2. job' = job \/ (Exists(Target[r]) /\ job' = [job EXCEPT ![Target[r]] = StatusSet(r)])
    BY <1>4 DEF StatusStep, StatusLoad, StatusWrite
  <2>3. Exists(Target[r]) => StatusSet(r).isBoost = job[Target[r]].isBoost
    BY <1>0, <1>4, TargetType DEF StatusSet, Exists, Row
  <2> QED
    BY <1>0, <1>1, <2>1, <2>2, <2>3 DEF Exists
<1>5. ASSUME NEW a \in Applies, ApplyStep(a) PROVE F(j)'
  <2>1. torn \subseteq torn' /\ boosted' = boosted /\ job' = job
    BY <1>5 DEF ApplyStep, ApplyLoad, ApplyInsert, Writes
  <2> QED
    BY <1>1, <2>1 DEF Exists
<1>6. ASSUME NEW i \in Jobs, Boost(i) \/ BoostEnds(i) \/ View(i) PROVE F(j)'
  <2>1. CASE View(i)
    BY <1>0, <2>1 DEF View, Exists
  <2>2. CASE Boost(i) \/ BoostEnds(i)
    <3>1. torn \subseteq torn' /\ job[i] \in Row
      BY <1>0, <2>2 DEF Boost, BoostEnds, Writes, Exists, TypeInv, ReferencesInv
    <3>2. CASE Boost(i)
      <4>1. job'[i].isBoost = TRUE /\ boosted' = boosted \cup {i}
        BY <1>0, <3>1, <3>2 DEF Boost, Row
      <4>2. i # j => job'[j] = job[j]
        BY <1>0, <3>2 DEF Boost
      <4> QED
        BY <1>0, <3>1, <4>1, <4>2 DEF Exists
    <3>3. CASE BoostEnds(i)
      <4>1. job'[i].isBoost = FALSE /\ boosted' = boosted \ {i}
        BY <1>0, <3>1, <3>3 DEF BoostEnds, Row
      <4>2. i # j => job'[j] = job[j]
        BY <1>0, <3>3 DEF BoostEnds
      <4> QED
        BY <1>0, <3>1, <4>1, <4>2 DEF Exists
    <3> QED
      BY <2>2, <3>2, <3>3
  <2> QED
    BY <1>6, <2>1, <2>2
<1>7. ASSUME NEW c \in Crons, CronStep(c) PROVE F(j)'
  <2>1. torn \subseteq torn' /\ boosted' = boosted
    BY <1>7 DEF CronStep, CronStart, CronFetch, CronExpire, Writes
  <2>2. job'[j] = job[j] \/ (Exists(j) /\ job'[j] = [job[j] EXCEPT !.status = "EXPIRED"])
    BY <1>7 DEF CronStep, CronStart, CronFetch, CronExpire
  <2>3. Exists(j) => [job[j] EXCEPT !.status = "EXPIRED"].isBoost = job[j].isBoost
    BY <1>0 DEF Exists, Row
  <2> QED
    BY <1>1, <2>1, <2>2, <2>3 DEF Exists
<1>8. CASE Tick \/ Crash \/ UNCHANGED vars
  BY <1>0, <1>8 DEF Tick, Crash, vars, Exists
<1> QED
  BY <1>2, <1>3, <1>4, <1>5, <1>6, <1>7, <1>8 DEF Next

(* Saving a whole row undoes no boost and keeps no boost that is over,     *)
(* unless the row was outdated: the flag of a job agrees with its boosted  *)
(* row for any numbers of calls and crons.                                 *)
THEOREM FlagsAgree == Spec => []FlagAgrees
<1>1. Init => FlagAgrees
  BY DEF Init, FlagAgrees
<1> QED
  BY <1>1, RowsInvariant, FlagStep, PTL DEF Spec

-----------------------------------------------------------------------------
(* What expired and closed mean                                            *)

LEMMA ExpiredStep == RowsInv /\ ExpiredIsPast /\ [Next]_vars => ExpiredIsPast'
<1> DEFINE P(j) == j \notin torn \cup forced =>
                     (Exists(j) /\ job[j].status = "EXPIRED" => job[j].deadline <= now)
<1> SUFFICES ASSUME RowsInv, ExpiredIsPast, [Next]_vars, NEW j \in Jobs PROVE P(j)'
  BY DEF ExpiredIsPast
<1> USE KindsOfRequests DEF tables, history
<1>0. P(j) /\ job \in [Jobs -> Row \cup {Absent}] /\ TypeInv
  BY DEF ExpiredIsPast, RowsInv, TypeInv, TypeOK
<1>N. /\ now \in Nat /\ now' \in Nat /\ now <= now'
      /\ \A i \in Jobs : Exists(i) => job[i] \in Row /\ job[i].deadline \in Nat
  BY <1>0, Steady, RowFields, DaysAssumption DEF TypeInv, TypeOK, Exists
<1>1. ASSUME torn \subseteq torn', j \notin forced' \cup torn' => j \notin forced,
             Exists(j)' => /\ Exists(j) /\ job'[j].status = job[j].status
                           /\ job'[j].deadline = job[j].deadline
      PROVE  P(j)'
  BY <1>0, <1>N, <1>1
<1>2. ASSUME NEW u \in Updates, UpdateStep(u) PROVE P(j)'
  <2>1. CASE SaveWrite(u) /\ Target[u] = j
    <3> SUFFICES ASSUME j \notin torn' \cup forced', job'[j].status = "EXPIRED"
                 PROVE  job'[j].deadline <= now
      BY <2>1 DEF SaveWrite
    <3>1. /\ Updatable(j) /\ HoldsRow(u) /\ Fresh(u, j)
          /\ Saved(u).status = held[u].row.status /\ Saved(u).deadline = held[u].row.deadline
      BY <2>1, SavedFresh
    <3>2. job'[j] = Saved(u)
      BY <1>0, <2>1 DEF SaveWrite
    <3>3. CASE input.deadline[u] = NoDeadline
      <4>1. held[u].row.status = job[j].status /\ held[u].row.deadline = job[j].deadline
        BY <2>1, <3>1, <3>3 DEF RowsInv, HeldInv, HeldFact
      <4>2. j \notin torn \cup forced
        BY <2>1, <3>3 DEF SaveWrite, Writes
      <4> QED
        BY <1>0, <3>1, <3>2, <4>1, <4>2 DEF Updatable
    <3>4. CASE input.deadline[u] # NoDeadline
      BY <2>1, <3>1, <3>2, <3>4 DEF RowsInv, HeldInv, HeldFact
    <3> QED
      BY <3>3, <3>4
  <2>2. CASE ~(SaveWrite(u) /\ Target[u] = j)
    <3>1. job'[j] = job[j] /\ torn \subseteq torn' /\ (j \notin forced' => j \notin forced)
      BY <1>0, <1>2, <2>2 DEF UpdateStep, UpdateCheck, UpdateLoad, UpdateStrip, SaveSelect,
                              SaveWrite, SaveFails, Writes
    <3> QED
      BY <1>1, <3>1 DEF Exists
  <2> QED
    BY <2>1, <2>2
<1>3. ASSUME NEW d \in Deletes, DeleteStep(d) PROVE P(j)'
  <2>1. torn \subseteq torn' /\ forced' = forced /\ (Exists(j)' => job'[j] = job[j])
    BY <1>0, <1>3 DEF DeleteStep, DeleteCheck, DeleteStrip, DeleteRow, Writes, Exists
  <2> QED
    BY <1>1, <2>1 DEF Exists
<1>4. ASSUME NEW r \in Closes \cup Opens \cup Changes, StatusStep(r) PROVE P(j)'
  <2>1. CASE StatusLoad(r) \/ Target[r] # j
    <3>1. job'[j] = job[j] /\ torn \subseteq torn' /\ (j \notin forced' => j \notin forced)
      BY <1>0, <1>4, <2>1 DEF StatusStep, StatusLoad, StatusWrite, Writes
    <3> QED
      BY <1>1, <3>1 DEF Exists
  <2>2. CASE StatusWrite(r) /\ Target[r] = j
    <3>1. CASE r \in Changes
      BY <2>2, <3>1 DEF StatusWrite
    <3>2. CASE r \in Closes \cup Opens /\ Exists(j)
      <4>1. StatusSet(r).status # "EXPIRED"
        BY <1>N, <2>2, <3>2, KindsAssumption DEF StatusSet, Row
      <4>2. job'[j] = StatusSet(r)
        BY <1>0, <2>2, <3>2 DEF StatusWrite
      <4> QED
        BY <4>1, <4>2
    <3>3. CASE ~Exists(j)
      BY <2>2, <3>3 DEF StatusWrite, Exists
    <3> QED
      BY <3>1, <3>2, <3>3
  <2> QED
    BY <1>4, <2>1, <2>2 DEF StatusStep
<1>5. ASSUME NEW a \in Applies, ApplyStep(a) PROVE P(j)'
  <2>1. torn \subseteq torn' /\ forced' = forced /\ job' = job
    BY <1>5 DEF ApplyStep, ApplyLoad, ApplyInsert, Writes
  <2> QED
    BY <1>1, <2>1 DEF Exists
<1>6. ASSUME NEW i \in Jobs, Boost(i) \/ BoostEnds(i) \/ View(i) PROVE P(j)'
  <2>1. torn \subseteq torn' /\ forced' = forced
    BY <1>6 DEF Boost, BoostEnds, View, Writes
  <2>2. job' = job \/ (Exists(i) /\ \E b \in BOOLEAN : job' = [job EXCEPT ![i].isBoost = b])
    BY <1>0, <1>6 DEF Boost, BoostEnds, View, TypeInv, ReferencesInv
  <2>3. Exists(j)' => /\ Exists(j) /\ job'[j].status = job[j].status
                      /\ job'[j].deadline = job[j].deadline
    BY <1>0, <1>N, <2>2 DEF Exists, Row
  <2> QED
    BY <1>1, <2>1, <2>3
<1>7. ASSUME NEW c \in Crons, CronStep(c) PROVE P(j)'
  <2>1. CASE CronStart(c) \/ CronFetch(c)
    BY <1>0, <2>1 DEF CronStart, CronFetch, Exists
  <2>2. CASE CronExpire(c) /\ j \notin cron[c].found
    <3>1. job'[j] = job[j] /\ torn \subseteq torn' /\ (j \notin forced' => j \notin forced)
      BY <2>2 DEF CronExpire, Writes
    <3> QED
      BY <1>1, <3>1 DEF Exists
  <2>3. CASE CronExpire(c) /\ j \in cron[c].found
    <3> SUFFICES ASSUME j \notin torn', Exists(j)' PROVE job'[j].deadline <= now'
      OBVIOUS
    <3>1. Fresh(c, j)
      BY <2>3 DEF CronExpire, Writes, Fresh
    <3>2. Exists(j) /\ job[j].deadline < now
      BY <2>3, <3>1 DEF RowsInv, FoundInv
    <3>3. job'[j] = [job[j] EXCEPT !.status = "EXPIRED"]
      BY <2>3, <3>2 DEF CronExpire
    <3>4. job'[j].deadline = job[j].deadline
      BY <1>N, <3>2, <3>3 DEF Row
    <3> QED
      BY <1>N, <3>2, <3>4
  <2> QED
    BY <1>7, <2>1, <2>2, <2>3 DEF CronStep
<1>8. CASE Tick \/ Crash \/ UNCHANGED vars
  <2>1. UNCHANGED <<job, torn, forced>>
    BY <1>8 DEF Tick, Crash, vars
  <2> QED
    BY <1>1, <2>1 DEF Exists
<1> QED
  BY <1>2, <1>3, <1>4, <1>5, <1>6, <1>7, <1>8 DEF Next

(* The cron, the updates and the reopening of jobs agree on what expired   *)
(* means: an expired job is past its deadline, unless an administrator set *)
(* the status or something wrote the job from an outdated reading.         *)
THEOREM ExpiredArePast == Spec => []ExpiredIsPast
<1>1. Init => ExpiredIsPast
  BY StatusAssumption, DaysAssumption DEF Init, ExpiredIsPast
<1> QED
  BY <1>1, RowsInvariant, ExpiredStep, PTL DEF Spec

ReopensOnlyNow(j) ==
    Exists(j) /\ job[j].status = "CLOSED" /\ job'[j] # Absent /\ job'[j].status = "OPEN"
      => ReopensNow(j) \/ j \in torn'

LEMMA ReopensStep ==
  ASSUME RowsInv, [Next]_vars, NEW j \in Jobs
  PROVE  ReopensOnlyNow(j)
<1> SUFFICES ASSUME Exists(j), job[j].status = "CLOSED", job'[j] # Absent,
                    job'[j].status = "OPEN", j \notin torn'
             PROVE  ReopensNow(j)
  BY DEF ReopensOnlyNow
<1> USE KindsOfRequests DEF tables, history, Goto
<1>0. job \in [Jobs -> Row \cup {Absent}] /\ pc \in [Requests -> Labels] /\ job[j] \in Row
  BY DEF RowsInv, TypeInv, TypeOK, Exists
<1>1. ASSUME NEW u \in Updates, UpdateStep(u) PROVE FALSE
  <2>1. CASE SaveWrite(u) /\ Target[u] = j
    BY <2>1, SavedFresh DEF Updatable
  <2>2. CASE ~(SaveWrite(u) /\ Target[u] = j)
    BY <1>0, <1>1, <2>2 DEF UpdateStep, UpdateCheck, UpdateLoad, UpdateStrip, SaveSelect,
                            SaveWrite, SaveFails
  <2> QED
    BY <2>1, <2>2
<1>2. ASSUME NEW d \in Deletes, DeleteStep(d) PROVE FALSE
  BY <1>0, <1>2 DEF DeleteStep, DeleteCheck, DeleteStrip, DeleteRow
<1>3. ASSUME NEW r \in Closes \cup Opens \cup Changes, StatusStep(r) PROVE ReopensNow(j)
  <2>1. StatusWrite(r) /\ Target[r] = j
    BY <1>0, <1>3 DEF StatusStep, StatusLoad, StatusWrite
  <2>2. pc[r] = "loaded" /\ pc'[r] = "done"
    BY <1>0, <2>1 DEF StatusWrite
  <2>3. job'[j] = StatusSet(r)
    BY <1>0, <2>1 DEF StatusWrite
  <2>4. ASSUME r \in Closes PROVE FALSE
    <3>1. StatusSet(r) = [job[j] EXCEPT !.status = "CLOSED", !.deadline = now]
      BY <2>1, <2>4, KindsAssumption DEF StatusSet
    <3> QED
      BY <1>0, <2>3, <3>1 DEF Row
  <2> QED
    BY <2>1, <2>2, <2>4 DEF ReopensNow
<1>4. ASSUME NEW a \in Applies, ApplyStep(a) PROVE FALSE
  BY <1>4 DEF ApplyStep, ApplyLoad, ApplyInsert
<1>5. ASSUME NEW i \in Jobs, Boost(i) \/ BoostEnds(i) \/ View(i) PROVE FALSE
  <2>1. job' = job \/ \E b \in BOOLEAN : job' = [job EXCEPT ![i].isBoost = b]
    BY <1>5 DEF Boost, BoostEnds, View
  <2>2. \A b : [job[j] EXCEPT !.isBoost = b].status = job[j].status
    BY <1>0 DEF Row
  <2>3. job'[j] = job[j] \/ \E b \in BOOLEAN : job'[j] = [job[j] EXCEPT !.isBoost = b]
    BY <1>0, <2>1
  <2> QED
    BY <2>2, <2>3
<1>6. ASSUME NEW c \in Crons, CronStep(c) PROVE FALSE
  <2>1. job'[j] = job[j] \/ job'[j] = [job[j] EXCEPT !.status = "EXPIRED"]
    BY <1>6 DEF CronStep, CronStart, CronFetch, CronExpire
  <2> QED
    BY <1>0, <2>1 DEF Row
<1>7. CASE Tick \/ Crash \/ UNCHANGED vars
  BY <1>7 DEF Tick, Crash, vars
<1> QED
  BY <1>1, <1>2, <1>3, <1>4, <1>5, <1>6, <1>7 DEF Next

(* A closed job is opened only by openJob or an administrator: an update   *)
(* that was checked while the job was open and saves it after its closing  *)
(* is the outdated reading the property leaves out.                        *)
THEOREM ClosedStay == Spec => ClosedReopens
<1>1. RowsInv /\ [Next]_vars =>
        [\A j \in Jobs :
           /\ Exists(j) /\ job[j].status = "CLOSED"
           /\ job'[j] # Absent /\ job'[j].status = "OPEN"
           => ReopensNow(j) \/ j \in torn']_vars
  BY ReopensStep DEF ReopensOnlyNow
<1> QED
  BY <1>1, RowsInvariant, PTL DEF Spec, ClosedReopens

-----------------------------------------------------------------------------
(* Relations                                                               *)

LEMMA AppliedStep ==
  ASSUME RowsInv, [Next]_vars, NEW j \in Jobs, Applied(j), rels'[j] # rels[j]
  PROVE  j \in torn'
<1> USE KindsOfRequests DEF tables, history
<1>0. rels \in [Jobs -> SUBSET Relations]
  BY DEF RowsInv, TypeInv, TypeOK
<1>1. ASSUME NEW r \in Updates \cup Deletes, Target[r] = j, Live(r), Writes(r, {j})
      PROVE  j \in torn'
  BY <1>1 DEF RowsInv, AppliedInv, Fresh, Writes
<1>2. ASSUME NEW u \in Updates, UpdateStep(u) PROVE j \in torn'
  <2>1. UpdateStrip(u) \/ SaveWrite(u)
    BY <1>2 DEF UpdateStep, UpdateCheck, UpdateLoad, SaveSelect, SaveFails
  <2>2. Target[u] = j /\ Live(u) /\ Writes(u, {j})
    BY <1>0, <2>1 DEF UpdateStrip, Stripped, SaveWrite, Live, Ended
  <2> QED
    BY <1>1, <2>2
<1>3. ASSUME NEW d \in Deletes, DeleteStep(d) PROVE j \in torn'
  <2>1. Target[d] = j /\ Live(d) /\ Writes(d, {j})
    BY <1>0, <1>3 DEF DeleteStep, DeleteCheck, DeleteStrip, DeleteRow, Stripped, Live, Ended
  <2> QED
    BY <1>1, <2>1
<1>4. \/ \E u \in Updates : UpdateStep(u)
      \/ \E d \in Deletes : DeleteStep(d)
  BY DEF Next, vars, StatusStep, StatusLoad, StatusWrite, ApplyStep, ApplyLoad, ApplyInsert,
         Boost, BoostEnds, View, CronStep, CronStart, CronFetch, CronExpire, Tick, Crash
<1> QED
  BY <1>2, <1>3, <1>4

(* Whoever changes the relations of a job someone has applied for checked  *)
(* for applications before the first one came.                             *)
THEOREM AppliedKept == Spec => AppliedKeepsRelations
<1>1. RowsInv /\ [Next]_vars =>
        [\A j \in Jobs : Applied(j) /\ rels'[j] # rels[j] => j \in torn']_vars
  BY AppliedStep
<1> QED
  BY <1>1, RowsInvariant, PTL DEF Spec, AppliedKeepsRelations

(* A step that begins or ends no such stretch and leaves the relations of  *)
(* a job, or removes them, or removes the job.                             *)
LEMMA RelationsFrame ==
  ASSUME TypeInv, RelationsInv, UNCHANGED <<input, chosen, clashed>>,
         \A u \in Updates : BetweenStripAndSave(u)' => BetweenStripAndSave(u) /\ pc'[u] = pc[u]
                                                       /\ held'[u] = held[u],
         \A j \in Jobs : /\ rels'[j] \in {rels[j], {}}
                         /\ Exists(j)' => Exists(j)
  PROVE  RelationsInv'
<1>1. RelationsWhole'
  BY DEF RelationsInv, RelationsWhole, Exists
<1>2. ASSUME NEW u \in Updates PROVE PlanFact(u)'
  <2>1. PlanFact(u) /\ Target[u] \in Jobs
    BY TargetType, KindsOfRequests DEF RelationsInv
  <2> QED
    BY <2>1 DEF PlanFact
<1> QED
  BY <1>1, <1>2 DEF RelationsInv

LEMMA RelationsUpdateStep ==
  ASSUME TypeInv, RelationsInv, NEW u \in Updates, UpdateStep(u)
  PROVE  RelationsInv'
<1> DEFINE j == Target[u]
<1> USE KindsOfRequests DEF tables, history, Goto
<1>0. /\ j \in Jobs /\ u \in Requests /\ job \in [Jobs -> Row \cup {Absent}]
      /\ rels \in [Jobs -> SUBSET Relations] /\ pc \in [Requests -> Labels]
      /\ held \in [Updates -> Plan] /\ chosen \in [Jobs -> SUBSET Relations]
  BY TargetType DEF TypeInv, TypeOK
<1>1. CASE UpdateCheck(u) \/ UpdateLoad(u) \/ SaveFails(u)
  <2>1. /\ UNCHANGED <<input, chosen, clashed, rels, job>>
        /\ pc'[u] \notin {"stripped", "diffed", "inserting"}
        /\ \A v \in Updates \ {u} : pc'[v] = pc[v] /\ held'[v] = held[v]
    BY <1>0, <1>1 DEF UpdateCheck, UpdateLoad, SaveFails
  <2>2. \A v \in Updates : BetweenStripAndSave(v)' =>
          BetweenStripAndSave(v) /\ pc'[v] = pc[v] /\ held'[v] = held[v]
    BY <2>1 DEF BetweenStripAndSave
  <2>3. \A i \in Jobs : rels'[i] \in {rels[i], {}} /\ (Exists(i)' => Exists(i))
    BY <2>1 DEF Exists
  <2> QED
    BY <2>1, <2>2, <2>3, RelationsFrame
<1>2. CASE UpdateStrip(u)
  <2>1. /\ pc[u] = "loaded" /\ pc'[u] = "stripped" /\ UNCHANGED <<input, chosen, held, job>>
        /\ rels'[j] = {} /\ \A i \in Jobs \ {j} : rels'[i] = rels[i]
        /\ \A v \in Updates \ {u} : pc'[v] = pc[v]
    BY <1>0, <1>2 DEF UpdateStrip, Stripped
  <2>2. /\ clashed \subseteq clashed'
        /\ j \notin clashed' => \A x \in Updates : Target[x] = j => ~BetweenStripAndSave(x)
    BY <1>2 DEF UpdateStrip
  <2>3. RelationsWhole'
    BY <2>1, <2>2 DEF RelationsInv, RelationsWhole, Exists
  <2>4. PlanFact(u)'
    BY <2>1, <2>2 DEF PlanFact, BetweenStripAndSave
  <2>5. ASSUME NEW v \in Updates \ {u} PROVE PlanFact(v)'
    <3>1. PlanFact(v) /\ Target[v] \in Jobs
      BY TargetType DEF RelationsInv
    <3>2. CASE Target[v] = j
      BY <2>1, <2>2, <2>5, <3>2 DEF PlanFact, BetweenStripAndSave
    <3>3. CASE Target[v] # j
      BY <2>1, <2>2, <2>5, <3>1, <3>3 DEF PlanFact, BetweenStripAndSave
    <3> QED
      BY <3>2, <3>3
  <2> QED
    BY <2>3, <2>4, <2>5 DEF RelationsInv
<1>3. CASE SaveSelect(u)
  <2>1. /\ pc[u] = "stripped" /\ pc'[u] \in {"diffed", "inserting"}
        /\ UNCHANGED <<input, chosen, clashed, rels, job>>
        /\ held'[u].add = input.choice[u] \ rels[j]
        /\ held'[u].remove = rels[j] \ input.choice[u]
        /\ \A v \in Updates \ {u} : pc'[v] = pc[v] /\ held'[v] = held[v]
    BY <1>0, <1>3 DEF SaveSelect
  <2>2. RelationsWhole'
    BY <2>1 DEF RelationsInv, RelationsWhole, Exists
  <2>3. \A v \in Updates : BetweenStripAndSave(v)' <=> BetweenStripAndSave(v)
    BY <2>1 DEF BetweenStripAndSave
  <2>4. PlanFact(u)'
    <3>1. PlanFact(u)
      BY DEF RelationsInv
    <3>2. rels[j] = {} => held'[u].add = input.choice[u] /\ held'[u].remove = {}
      BY <2>1
    <3> QED
      BY <2>1, <2>3, <3>1, <3>2 DEF PlanFact
  <2>5. ASSUME NEW v \in Updates \ {u} PROVE PlanFact(v)'
    <3>1. PlanFact(v)
      BY DEF RelationsInv
    <3> QED
      BY <2>1, <2>3, <2>5, <3>1 DEF PlanFact
  <2> QED
    BY <2>2, <2>4, <2>5 DEF RelationsInv
<1>4. CASE SaveWrite(u)
  <2>1. /\ BetweenStripAndSave(u) /\ pc[u] # "stripped" /\ pc'[u] = "done"
        /\ UNCHANGED <<input, clashed>>
        /\ rels'[j] = (rels[j] \ held[u].remove) \cup held[u].add
        /\ chosen'[j] = input.choice[u]
        /\ \A i \in Jobs \ {j} : rels'[i] = rels[i] /\ chosen'[i] = chosen[i] /\ job'[i] = job[i]
        /\ \A v \in Updates \ {u} : pc'[v] = pc[v] /\ held'[v] = held[v]
    BY <1>0, <1>4 DEF SaveWrite, BetweenStripAndSave
  <2>2. PlanFact(u)
    BY DEF RelationsInv
  <2>3. j \notin clashed => rels'[j] = chosen'[j]
    BY <2>1, <2>2 DEF PlanFact
  <2>4. RelationsWhole'
    BY <2>1, <2>3 DEF RelationsInv, RelationsWhole, Exists
  <2>5. PlanFact(u)'
    BY <2>1 DEF PlanFact, BetweenStripAndSave
  <2>6. ASSUME NEW v \in Updates \ {u} PROVE PlanFact(v)'
    <3>1. PlanFact(v) /\ Target[v] \in Jobs
      BY TargetType DEF RelationsInv
    <3>2. CASE Target[v] = j
      BY <2>1, <2>2, <2>6, <3>2 DEF PlanFact, BetweenStripAndSave
    <3>3. CASE Target[v] # j
      BY <2>1, <2>6, <3>1, <3>3 DEF PlanFact, BetweenStripAndSave
    <3> QED
      BY <3>2, <3>3
  <2> QED
    BY <2>4, <2>5, <2>6 DEF RelationsInv
<1> QED
  BY <1>1, <1>2, <1>3, <1>4 DEF UpdateStep

LEMMA RelationsStep == TypeInv /\ RelationsInv /\ [Next]_vars => RelationsInv'
<1> SUFFICES ASSUME TypeInv, RelationsInv, [Next]_vars PROVE RelationsInv'
  OBVIOUS
<1> DEFINE Still == \A u \in Updates : BetweenStripAndSave(u)' =>
                      BetweenStripAndSave(u) /\ pc'[u] = pc[u] /\ held'[u] = held[u]
           Less == \A j \in Jobs : rels'[j] \in {rels[j], {}} /\ (Exists(j)' => Exists(j))
           Fixed == UNCHANGED <<input, chosen, clashed>>
<1> USE KindsOfRequests DEF tables, history, Goto
<1>0. /\ job \in [Jobs -> Row \cup {Absent}] /\ rels \in [Jobs -> SUBSET Relations]
      /\ pc \in [Requests -> Labels]
  BY DEF TypeInv, TypeOK
<1>1. ASSUME NEW u \in Updates, UpdateStep(u) PROVE RelationsInv'
  BY <1>1, RelationsUpdateStep
<1>2. ASSUME NEW d \in Deletes, DeleteStep(d) PROVE Still /\ Less /\ Fixed
  <2>1. Fixed /\ held' = held /\ \A u \in Updates : pc'[u] = pc[u]
    BY <1>0, <1>2, KindsAssumption DEF DeleteStep, DeleteCheck, DeleteStrip, DeleteRow
  <2>2. Less
    BY <1>0, <1>2 DEF DeleteStep, DeleteCheck, DeleteStrip, DeleteRow, Stripped, Exists
  <2> QED
    BY <2>1, <2>2 DEF BetweenStripAndSave
<1>3. ASSUME NEW r \in Closes \cup Opens \cup Changes, StatusStep(r) PROVE Still /\ Less /\ Fixed
  <2>1. Fixed /\ UNCHANGED <<held, rels>> /\ \A u \in Updates : pc'[u] = pc[u]
    BY <1>0, <1>3, KindsAssumption DEF StatusStep, StatusLoad, StatusWrite
  <2>2. \A j \in Jobs : Exists(j)' => Exists(j)
    BY <1>0, <1>3 DEF StatusStep, StatusLoad, StatusWrite, Exists
  <2> QED
    BY <2>1, <2>2 DEF BetweenStripAndSave
<1>4. ASSUME NEW a \in Applies, ApplyStep(a) PROVE Still /\ Less /\ Fixed
  <2>1. Fixed /\ UNCHANGED <<held, rels, job>> /\ \A u \in Updates : pc'[u] = pc[u]
    BY <1>0, <1>4, KindsAssumption DEF ApplyStep, ApplyLoad, ApplyInsert
  <2> QED
    BY <2>1 DEF BetweenStripAndSave, Exists
<1>5. ASSUME NEW i \in Jobs, Boost(i) \/ BoostEnds(i) \/ View(i) PROVE Still /\ Less /\ Fixed
  <2>1. Fixed /\ UNCHANGED <<pc, held, rels>>
    BY <1>5 DEF Boost, BoostEnds, View
  <2>2. \A j \in Jobs : Exists(j)' => Exists(j)
    BY <1>0, <1>5 DEF Boost, BoostEnds, View, Exists, TypeInv, ReferencesInv
  <2> QED
    BY <2>1, <2>2 DEF BetweenStripAndSave
<1>6. ASSUME NEW c \in Crons, CronStep(c) PROVE Still /\ Less /\ Fixed
  <2>1. Fixed /\ UNCHANGED <<pc, held, rels>>
    BY <1>6 DEF CronStep, CronStart, CronFetch, CronExpire
  <2>2. \A j \in Jobs : Exists(j)' => Exists(j)
    BY <1>0, <1>6 DEF CronStep, CronStart, CronFetch, CronExpire, Exists
  <2> QED
    BY <2>1, <2>2 DEF BetweenStripAndSave
<1>7. CASE Tick \/ UNCHANGED vars
  BY <1>7 DEF Tick, vars, BetweenStripAndSave, RelationsInv, RelationsWhole, PlanFact, Exists
<1>8. CASE Crash
  <2>1. Fixed /\ Less
    BY <1>8 DEF Crash, Exists
  <2>2. \A u \in Updates : ~BetweenStripAndSave(u)'
    BY <1>8 DEF Crash, BetweenStripAndSave, Live, Ended
  <2> QED
    BY <2>1, <2>2, RelationsFrame
<1> QED
  BY <1>1, <1>2, <1>3, <1>4, <1>5, <1>6, <1>7, <1>8, RelationsFrame DEF Next

(* updateJob removes the relations of a job in one transaction and saves   *)
(* it in another: unless two updates of the job overlap in between, it has *)
(* the relations of its last update or none, whatever else runs or dies.   *)
THEOREM RelationsStayWhole == Spec => []RelationsWhole
<1>1. Init => RelationsInv
  BY KindsOfRequests DEF Init, RelationsInv, RelationsWhole, PlanFact, BetweenStripAndSave
<1>2. Spec => []TypeInv
  BY TypeInvInit, TypeInvStep, PTL DEF Spec
<1>3. RelationsInv => RelationsWhole
  BY DEF RelationsInv
<1> QED
  BY <1>1, <1>2, <1>3, RelationsStep, PTL DEF Spec
=============================================================================
