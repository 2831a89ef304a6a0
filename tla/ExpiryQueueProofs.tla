-------------------------- MODULE ExpiryQueueProofs --------------------------
(***************************************************************************)
(* Proofs about Applications and ExpiryQueue, for every set of requests,   *)
(* jobs, profiles and workers, every size of a batch and any number of     *)
(* faults.                                                                 *)
(***************************************************************************)
EXTENDS ExpiryQueue, FiniteSetTheorems, TLAPS

Reading == {<<"cv", None>>, <<"existing", None>>}
Labels == Ended \cup {"new", "reading", "updating", "updateCv", "deleteCv", "deleting", "marking",
                      "expiring", "telling"}
HeldRecord == [profile : Profiles \cup {None}, job : Jobs \cup {None}, cv : Cvs \cup {None},
               refused : BOOLEAN, items : SUBSET Items, notices : SUBSET Notice,
               jobs : SUBSET Jobs, batch : Nat]

RowsOK ==
    /\ application \in [Ids -> Row \cup {None}]
    /\ cv \in [Cvs -> CvRow \cup {None}]
    /\ last \in [Ids -> Decisions \cup {None}]
    /\ missed \in [Requests -> SUBSET Requests]
    /\ active \in [Processors -> Messages \cup {None}]

MemoryOK ==
    /\ pc \in [Requests -> Labels]
    /\ held \in [Requests -> HeldRecord]
    /\ open = [r \in Requests |-> open[r]]

(* What a handler holds and waits for has the shape its next steps rely on.*)
PhaseFact(label, branches) ==
    /\ label \in {"new", "updateCv", "deleteCv", "deleting", "marking", "expiring"} => branches = {}
    /\ label = "reading" => branches \subseteq Reading
    /\ branches \cap Reading # {} => label = "reading"
    /\ label = "updating" => branches \subseteq {Update("APPROVED"), Update("DENIED")}
    /\ label = "telling" => branches \subseteq {Bulk} \cup {Tell(j) : j \in Jobs}
    /\ Bulk \in branches => label \in Ended \cup {"telling"}

HeldFact(label, h) ==
    /\ label = "reading" => h.profile \in Profiles /\ h.job \in Jobs /\ h.cv \in Cvs
    /\ label \in {"updateCv", "deleteCv", "deleting"} => h.cv \in Cvs
    /\ h.jobs # {} => label \in Ended \cup {"expiring", "telling"}

StoredFact(r) ==
    /\ \A i \in held[r].items : Stored(i[1]) /\ i[2] # "PENDING"
    /\ \A type \in Decisions, a \in Ids : <<type, a>> \in open[r] => Stored(a)

ShapeFact(r) == PhaseFact(pc[r], open[r]) /\ HeldFact(pc[r], held[r]) /\ StoredFact(r)
ShapeInv == \A r \in Requests : ShapeFact(r)

(* OneApplicationPerJob is not inductive.  A request that may still insert *)
(* knows of every application of its profile for its job, or missed it.    *)
KnownInv ==
    \A r \in Requests :
      /\ pc[r] \in {"new", "reading"} => ~Stored(r)
      /\ pc[r] = "reading" /\ <<"existing", None>> \notin open[r] /\ ~held[r].refused =>
           \A a \in Ids : /\ Stored(a) /\ application[a].profile = held[r].profile
                          /\ application[a].job = held[r].job
                          => a \in missed[r]

(* Whoever is still to tell an outcome will tell the status there is.      *)
ToldAs(status) == CASE status = "PENDING" -> None
                    [] status = "APPROVED" -> "application_accepted"
                    [] status = "DENIED" -> "application_rejected"

(* ExpiryTold is not inductive either.  A message is about a job whose     *)
(* turn in its round has come and, as long as the round goes well, the     *)
(* other way round; the notices that are not stored are still on their way.*)
InQueue == queue \cup Busy \cup served
Handed(r, j) ==
    /\ j \in held[r].jobs /\ BatchOf(r, j) <= held[r].batch
    /\ BatchOf(r, j) = held[r].batch => Bulk \notin open[r]
Marked(r) == pc[r] \in Ended \cup {"telling"}

RoundFact(r) ==
    /\ \A j \in Jobs : <<r, j>> \in InQueue => Handed(r, j) /\ Marked(r)
    /\ pc[r] = "expiring" => held[r].batch = 0
    /\ pc[r] = "telling" =>
         \A j \in held[r].jobs : /\ Tell(j) \notin open[r] => NoticeOf(<<r, j>>)
                                 /\ Handed(r, j) => <<r, j>> \in InQueue
    /\ pc[r] = "telling" \/ Bulk \in open[r] => held[r].jobs \subseteq expired
    /\ pc[r] = "done" => \A j \in held[r].jobs : NoticeOf(<<r, j>>) /\ <<r, j>> \in InQueue

(* A message is at one place and with one worker, and mailed again only    *)
(* when it was put back.                                                   *)
QueueFact ==
    /\ \A m \in InQueue : m[2] \in expired
    /\ queue \cap Busy = {} /\ (queue \cup Busy) \cap served = {}
    /\ \A p, q \in Processors : active[p] = active[q] /\ active[p] # None => p = q
    /\ mailed \subseteq InQueue
    /\ twice \cup (mailed \cap (queue \cup Busy)) \subseteq stalled

ToldInv == QueueFact /\ \A r \in Requests : RoundFact(r)

TypeInv == TypeOK /\ RowsOK /\ MemoryOK /\ ShapeInv

-----------------------------------------------------------------------------
(* The steps of a request                                                  *)

ApplySteps(r) == ApplyStart(r) \/ ApplyReadCv(r) \/ ApplyReadExisting(r) \/ ApplySave(r)
DecideSteps(r) == DecideCheck(r) \/ DecideUpdate(r) \/ DecideFails(r) \/ DecideAnswer(r)
                  \/ DecideTell(r)
CvSteps(r) == UploadCV(r) \/ CvCheck(r) \/ UpdateCV(r) \/ DeleteUseCheck(r) \/ DeleteCV(r)
MarkSteps(r) == MarkLoad(r) \/ MarkAsRead(r) \/ MarkAsReadAll(r)
RoundSteps(r) == RoundLoad(r) \/ RoundMark(r) \/ RoundTell(r) \/ RoundAddBulk(r) \/ RoundNext(r)
                 \/ RoundFails(r)

HandlerStep(r) ==
    (ApplySteps(r) \/ DecideSteps(r) \/ CvSteps(r) \/ MarkSteps(r)) /\ UNCHANGED <<expired, queueVars>>

LEMMA NextSteps ==
  ASSUME [Next]_vars
  PROVE  \/ \E r \in Requests : HandlerStep(r) \/ RoundSteps(r)
         \/ \E p \in Processors : Take(p) \/ Complete(p)
         \/ Crash
         \/ UNCHANGED vars
  BY DEF Next, ApplicationNext, HandlerStep, ApplySteps, DecideSteps, CvSteps, MarkSteps, RoundSteps

(* The memory of the other requests stays as it is.                        *)
LocalTo(r) ==
    /\ pc' = [pc EXCEPT ![r] = pc'[r]]
    /\ held' = [held EXCEPT ![r] = held'[r]]
    /\ open' = [open EXCEPT ![r] = open'[r]]

LEMMA NothingHeld ==
  /\ Nothing \in HeldRecord
  /\ \A p \in Profiles, c \in Cvs : [Nothing EXCEPT !.cv = c, !.profile = p] \in HeldRecord
  /\ \A items \in SUBSET Items : [Nothing EXCEPT !.items = items] \in HeldRecord
  /\ \A chosen \in SUBSET Notice : [Nothing EXCEPT !.notices = chosen] \in HeldRecord
  /\ \A due \in SUBSET Jobs : [Nothing EXCEPT !.jobs = due] \in HeldRecord
  BY DEF Nothing, HeldRecord

LEMMA ApplicantHeld ==
  ASSUME NEW p \in Profiles, NEW j \in Jobs, NEW c \in Cvs
  PROVE  [Nothing EXCEPT !.profile = p, !.job = j, !.cv = c, !.refused = (Employer[j] = p)]
           \in HeldRecord
  BY DEF Nothing, HeldRecord

LEMMA MemoryStep ==
  ASSUME TypeInv, NEW r \in Requests, HandlerStep(r) \/ RoundSteps(r)
  PROVE  LocalTo(r) /\ pc'[r] \in Labels
<1>t. /\ pc \in [Requests -> Labels] /\ held \in [Requests -> HeldRecord]
      /\ open = [x \in Requests |-> open[x]]
  BY DEF TypeInv, MemoryOK
<1> USE <1>t DEF Goto, Hold, Release, Ends, memory, Starts, LocalTo, Labels, Ended
<1>1. CASE ApplySteps(r)
  BY <1>1 DEF ApplySteps, ApplyStart, ApplyReadCv, ApplyReadExisting, ApplySave
<1>2. CASE DecideSteps(r)
  BY <1>2 DEF DecideSteps, DecideCheck, DecideUpdate, DecideFails, DecideAnswer, DecideTell
<1>3. CASE CvSteps(r)
  BY <1>3 DEF CvSteps, UploadCV, CvCheck, UpdateCV, DeleteUseCheck, DeleteCV
<1>4. CASE MarkSteps(r)
  BY <1>4 DEF MarkSteps, MarkLoad, MarkAsRead, MarkAsReadAll
<1>5. CASE RoundSteps(r)
  BY <1>5 DEF RoundSteps, RoundLoad, RoundMark, RoundTell, RoundAddBulk, RoundNext, RoundFails
<1> QED
  BY <1>1, <1>2, <1>3, <1>4, <1>5 DEF HandlerStep

LEMMA HeldStep ==
  ASSUME TypeInv, NEW r \in Requests, HandlerStep(r) \/ RoundSteps(r)
  PROVE  held'[r] \in HeldRecord
<1>t. held \in [Requests -> HeldRecord] /\ held[r] \in HeldRecord
  BY DEF TypeInv, MemoryOK
<1> USE <1>t DEF Hold, Release, memory
<1>1. CASE ApplySteps(r)
  <2>1. CASE ApplyStart(r)
    <3>1. PICK p \in Profiles, j \in Jobs, c \in Cvs :
            held' = [held EXCEPT ![r] = [Nothing EXCEPT !.profile = p, !.job = j, !.cv = c,
                                                        !.refused = (Employer[j] = p)]]
      BY <2>1 DEF ApplyStart
    <3>2. [Nothing EXCEPT !.profile = p, !.job = j, !.cv = c, !.refused = (Employer[j] = p)]
            \in HeldRecord
      BY ApplicantHeld
    <3> QED
      BY <3>1, <3>2
  <2>2. CASE ApplyReadCv(r)
    BY <2>2 DEF ApplyReadCv, HeldRecord
  <2>3. CASE ApplyReadExisting(r)
    BY <2>3 DEF ApplyReadExisting, HeldRecord
  <2>4. CASE ApplySave(r)
    BY <2>4, NothingHeld DEF ApplySave
  <2> QED
    BY <1>1, <2>1, <2>2, <2>3, <2>4 DEF ApplySteps
<1>2. CASE DecideSteps(r)
  <2>1. CASE DecideCheck(r)
    <3>1. held' = held \/ \E items \in SUBSET Items :
                             held' = [held EXCEPT ![r] = [Nothing EXCEPT !.items = items]]
      BY <2>1 DEF DecideCheck
    <3> QED
      BY <3>1, NothingHeld
  <2>2. CASE DecideUpdate(r) \/ DecideFails(r) \/ DecideAnswer(r) \/ DecideTell(r)
    BY <2>2 DEF DecideUpdate, DecideFails, DecideAnswer, DecideTell
  <2> QED
    BY <1>2, <2>1, <2>2 DEF DecideSteps
<1>3. CASE CvSteps(r)
  <2>1. CASE CvCheck(r)
    <3>1. held' = held \/ \E p \in Profiles, c \in Cvs :
                             held' = [held EXCEPT ![r] = [Nothing EXCEPT !.cv = c, !.profile = p]]
      BY <2>1 DEF CvCheck
    <3> QED
      BY <3>1, NothingHeld
  <2>2. CASE UploadCV(r) \/ UpdateCV(r) \/ DeleteUseCheck(r) \/ DeleteCV(r)
    BY <2>2, NothingHeld DEF UploadCV, UpdateCV, DeleteUseCheck, DeleteCV
  <2> QED
    BY <1>3, <2>1, <2>2 DEF CvSteps
<1>4. CASE MarkSteps(r)
  <2>1. CASE MarkLoad(r)
    <3>1. PICK chosen \in SUBSET notices :
            held' = [held EXCEPT ![r] = [Nothing EXCEPT !.notices = chosen]]
      BY <2>1 DEF MarkLoad, NoticesOf
    <3>2. chosen \in SUBSET Notice
      BY <3>1 DEF TypeInv, TypeOK, ApplicationTypeOK
    <3> QED
      BY <3>1, <3>2, NothingHeld
  <2>2. CASE MarkAsRead(r) \/ MarkAsReadAll(r)
    BY <2>2, NothingHeld DEF MarkAsRead, MarkAsReadAll
  <2> QED
    BY <1>4, <2>1, <2>2 DEF MarkSteps
<1>5. CASE RoundSteps(r)
  <2>1. CASE RoundLoad(r)
    <3>1. PICK due \in SUBSET Jobs : held'[r] = [Nothing EXCEPT !.jobs = due]
      <4>1. PICK due \in SUBSET (Jobs \ expired) :
              \/ held' = [held EXCEPT ![r] = [Nothing EXCEPT !.jobs = due]]
              \/ \E n \in due : held' = [held EXCEPT ![r] = [Nothing EXCEPT !.jobs = {j \in due : j < n}]]
        BY <2>1 DEF RoundLoad
      <4> QED
        BY <4>1
    <3> QED
      BY <3>1, NothingHeld
  <2>2. CASE RoundNext(r)
    BY <2>2 DEF RoundNext, HeldRecord
  <2>3. CASE RoundMark(r) \/ RoundTell(r) \/ RoundAddBulk(r) \/ RoundFails(r)
    BY <2>3 DEF RoundMark, RoundTell, RoundAddBulk, RoundFails
  <2> QED
    BY <1>5, <2>1, <2>2, <2>3 DEF RoundSteps
<1> QED
  BY <1>1, <1>2, <1>3, <1>4, <1>5 DEF HandlerStep

(* A decision is about applications that are there.                        *)
LEMMA TargetsStored ==
  ASSUME TypeInv, NEW r \in Requests
  PROVE  \A s \in {"APPROVED", "DENIED"} : \A a \in Targets(held[r].items, s) :
           a \in Ids /\ Stored(a) /\ <<a, s>> \in held[r].items
<1>1. held[r].items \subseteq Items
  BY DEF TypeInv, MemoryOK, HeldRecord
<1>2. \A i \in held[r].items : Stored(i[1])
  BY DEF TypeInv, ShapeInv, ShapeFact, StoredFact
<1> QED
  BY <1>1, <1>2 DEF Targets, Approved, Denied, Items


(* The rows of the tables after a step: no application goes, and a         *)
(* decision changes nothing but its status.                                *)
SameApplications ==
    \A a \in Ids : /\ Stored(a)' <=> Stored(a)
                   /\ Stored(a) => /\ application'[a] \in Row
                                   /\ application'[a].profile = application[a].profile
                                   /\ application'[a].job = application[a].job

LEMMA StoredRow ==
  ASSUME TypeInv
  PROVE  \A a \in Ids : Stored(a) => application[a] \in Row
  BY DEF TypeInv, RowsOK, Stored

LEMMA DecideRows ==
  ASSUME TypeInv, NEW r \in Requests, DecideUpdate(r)
  PROVE  application' \in [Ids -> Row \cup {None}] /\ SameApplications
<1>1. PICK status \in {"APPROVED", "DENIED"} :
        application' = [a \in Ids |-> IF a \in Targets(held[r].items, status)
                                      THEN [application[a] EXCEPT !.status = status]
                                      ELSE application[a]]
  BY DEF DecideUpdate
<1>2. \A a \in Ids : Stored(a) => /\ [application[a] EXCEPT !.status = status] \in Row
                                  /\ [application[a] EXCEPT !.status = status].profile
                                       = application[a].profile
                                  /\ [application[a] EXCEPT !.status = status].job
                                       = application[a].job
  BY StoredRow DEF Row, ApplyJobStatus
<1>3. \A a \in Targets(held[r].items, status) : Stored(a)
  BY TargetsStored
<1>4. application \in [Ids -> Row \cup {None}]
  BY DEF TypeInv, RowsOK
<1>5. SameApplications
  BY <1>1, <1>2, <1>3, StoredRow, RowsAssumption DEF SameApplications, Stored
<1> QED
  BY <1>1, <1>2, <1>3, <1>4, <1>5

LEMMA SavedRow ==
  ASSUME TypeInv, NEW r \in Requests, ApplySave(r), application' # application
  PROVE  /\ Pending(held[r].profile, held[r].job, held[r].cv) \in Row
         /\ application' = [application EXCEPT ![r] =
                              Pending(held[r].profile, held[r].job, held[r].cv)]
         /\ ~held[r].refused
         /\ missed' = [x \in Requests |->
                         IF pc[x] = "reading" THEN missed[x] \cup {r} ELSE missed[x]]
  BY DEF ApplySave, TypeInv, ShapeInv, ShapeFact, HeldFact, Pending, Row, ApplyJobStatus

LEMMA ApplicationsStep ==
  ASSUME TypeInv, NEW r \in Requests, HandlerStep(r) \/ RoundSteps(r),
         ApplySave(r) => application' = application
  PROVE  application' \in [Ids -> Row \cup {None}] /\ SameApplications
<1>1. CASE DecideUpdate(r)
  BY <1>1, DecideRows
<1>2. CASE ~DecideUpdate(r)
  <2>1. application' = application
    BY <1>2 DEF HandlerStep, ApplySteps, DecideSteps, CvSteps, MarkSteps, RoundSteps, ApplyStart,
       ApplyReadCv, ApplyReadExisting, DecideCheck, DecideFails, DecideAnswer, DecideTell,
       UploadCV, CvCheck, UpdateCV, DeleteUseCheck, DeleteCV, MarkLoad, MarkAsRead, MarkAsReadAll,
       RoundLoad, RoundMark, RoundTell, RoundAddBulk, RoundNext, RoundFails, database
  <2> QED
    BY <2>1, StoredRow DEF SameApplications, Stored, TypeInv, RowsOK
<1> QED
  BY <1>1, <1>2

LEMMA CvStep ==
  ASSUME TypeInv, NEW r \in Requests, HandlerStep(r) \/ RoundSteps(r)
  PROVE  cv' \in [Cvs -> CvRow \cup {None}]
<1>t. cv \in [Cvs -> CvRow \cup {None}]
  BY DEF TypeInv, RowsOK
<1>1. CASE UploadCV(r)
  BY <1>1, <1>t DEF UploadCV, CvRow
<1>2. CASE UpdateCV(r)
  <2>1. PICK published \in BOOLEAN :
          cv' = [cv EXCEPT ![held[r].cv] =
                   IF Owns(held[r].profile, held[r].cv) THEN [@ EXCEPT !.published = published] ELSE @]
    BY <1>2 DEF UpdateCV
  <2>2. held[r].cv \in Cvs
    BY <1>2 DEF UpdateCV, TypeInv, ShapeInv, ShapeFact, HeldFact
  <2>3. Owns(held[r].profile, held[r].cv)
          => [cv[held[r].cv] EXCEPT !.published = published] \in CvRow
    BY <1>t, <2>2 DEF Owns, CvRow
  <2> QED
    BY <1>t, <2>1, <2>2, <2>3
<1>3. CASE DeleteCV(r)
  BY <1>3, <1>t DEF DeleteCV
<1>4. CASE cv' = cv
  BY <1>4, <1>t
<1>5. cv' = cv \/ UploadCV(r) \/ UpdateCV(r) \/ DeleteCV(r)
  BY DEF HandlerStep, ApplySteps, DecideSteps, CvSteps, MarkSteps, RoundSteps, ApplyStart,
     ApplyReadCv, ApplyReadExisting, ApplySave, DecideCheck, DecideUpdate, DecideFails,
     DecideAnswer, DecideTell, CvCheck, DeleteUseCheck, MarkLoad, MarkAsRead, MarkAsReadAll,
     RoundLoad, RoundMark, RoundTell, RoundAddBulk, RoundNext, RoundFails, database
<1> QED
  BY <1>1, <1>2, <1>3, <1>4, <1>5

LEMMA HistoryStep ==
  ASSUME TypeInv, NEW r \in Requests, HandlerStep(r) \/ RoundSteps(r)
  PROVE  /\ last' \in [Ids -> Decisions \cup {None}] /\ missed' \in [Requests -> SUBSET Requests]
         /\ UNCHANGED <<active, mailed, twice, served, stalled>>
<1>t. last \in [Ids -> Decisions \cup {None}] /\ missed \in [Requests -> SUBSET Requests]
  BY DEF TypeInv, RowsOK
<1>1. last' \in [Ids -> Decisions \cup {None}]
  BY <1>t DEF HandlerStep, ApplySteps, DecideSteps, CvSteps, MarkSteps, RoundSteps, ApplyStart,
     ApplyReadCv, ApplyReadExisting, ApplySave, DecideCheck, DecideUpdate, DecideFails,
     DecideAnswer, DecideTell, UploadCV, CvCheck, UpdateCV, DeleteUseCheck, DeleteCV, MarkLoad,
     MarkAsRead, MarkAsReadAll, RoundLoad, RoundMark, RoundTell, RoundAddBulk, RoundNext,
     RoundFails, history
<1>2. ApplyReadExisting(r) \/ ApplySave(r) => missed' \in [Requests -> SUBSET Requests]
  BY <1>t DEF ApplyReadExisting, ApplySave
<1>3. missed' = missed \/ ApplyReadExisting(r) \/ ApplySave(r)
  BY DEF HandlerStep, ApplySteps, DecideSteps, CvSteps, MarkSteps, RoundSteps, ApplyStart,
     ApplyReadCv, DecideCheck, DecideUpdate, DecideFails, DecideAnswer, DecideTell, UploadCV,
     CvCheck, UpdateCV, DeleteUseCheck, DeleteCV, MarkLoad, MarkAsRead, MarkAsReadAll, RoundLoad,
     RoundMark, RoundTell, RoundAddBulk, RoundNext, RoundFails, history
<1>4. UNCHANGED <<active, mailed, twice, served, stalled>>
  BY DEF HandlerStep, RoundSteps, RoundLoad, RoundMark, RoundTell, RoundAddBulk, RoundNext,
     RoundFails, queueVars
<1> QED
  BY <1>1, <1>2, <1>3, <1>4, <1>t

LEMMA NoticesStep ==
  ASSUME TypeInv, NEW r \in Requests, HandlerStep(r) \/ RoundSteps(r)
  PROVE  unread' \subseteq notices' /\ notices' \subseteq Notice /\ notices \subseteq notices'
<1>t. unread \subseteq notices /\ notices \subseteq Notice
  BY DEF TypeInv, TypeOK, ApplicationTypeOK
<1>1. CASE DecideTell(r)
  <2>1. PICK type \in Decisions, a \in Ids :
          /\ <<type, a>> \in open[r]
          /\ notices' = notices \cup {[by |-> r, about |-> a, type |-> type,
                                       to |-> application[a].profile]}
          /\ unread' = unread \cup {[by |-> r, about |-> a, type |-> type,
                                     to |-> application[a].profile]}
    BY <1>1 DEF DecideTell
  <2>2. application[a].profile \in Profiles
    BY <2>1, StoredRow DEF TypeInv, ShapeInv, ShapeFact, StoredFact, Row
  <2>3. [by |-> r, about |-> a, type |-> type, to |-> application[a].profile] \in Notice
    BY <2>2 DEF Notice, Decisions, NotificationType
  <2> QED
    BY <1>t, <2>1, <2>3
<1>2. CASE RoundTell(r)
  <2>1. PICK j \in Jobs :
          /\ notices' = notices \cup {[by |-> r, about |-> j, type |-> "job_expired",
                                       to |-> Employer[j]]}
          /\ unread' = unread \cup {[by |-> r, about |-> j, type |-> "job_expired",
                                     to |-> Employer[j]]}
    BY <1>2 DEF RoundTell
  <2>2. [by |-> r, about |-> j, type |-> "job_expired", to |-> Employer[j]] \in Notice
    BY JobsAssumption DEF Notice, NotificationType
  <2> QED
    BY <1>t, <2>1, <2>2
<1>3. CASE notices' = notices /\ unread' \subseteq unread
  BY <1>3, <1>t
<1>4. \/ notices' = notices /\ unread' \subseteq unread
      \/ DecideTell(r) \/ RoundTell(r)
  BY DEF HandlerStep, ApplySteps, DecideSteps, CvSteps, MarkSteps, RoundSteps, ApplyStart,
     ApplyReadCv, ApplyReadExisting, ApplySave, DecideCheck, DecideUpdate, DecideFails,
     DecideAnswer, UploadCV, CvCheck, UpdateCV, DeleteUseCheck, DeleteCV, MarkLoad, MarkAsRead,
     MarkAsReadAll, RoundLoad, RoundMark, RoundAddBulk, RoundNext, RoundFails, database
<1> QED
  BY <1>1, <1>2, <1>3, <1>4

LEMMA FaultsStep ==
  ASSUME TypeInv, NEW r \in Requests, HandlerStep(r) \/ RoundSteps(r)
  PROVE  faults' \in 0..MaxFaults
<1>t. faults \in 0..MaxFaults
  BY DEF TypeInv, TypeOK, ApplicationTypeOK
<1>1. faults' = faults \/ Fault
  BY DEF HandlerStep, ApplySteps, DecideSteps, CvSteps, MarkSteps, RoundSteps, ApplyStart,
     ApplyReadCv, ApplyReadExisting, ApplySave, DecideCheck, DecideUpdate, DecideFails,
     DecideAnswer, DecideTell, UploadCV, CvCheck, UpdateCV, DeleteUseCheck, DeleteCV, MarkLoad,
     MarkAsRead, MarkAsReadAll, RoundLoad, RoundMark, RoundTell, RoundAddBulk, RoundNext,
     RoundFails, bounds
<1> QED
  BY <1>t, <1>1, BoundsAssumption DEF Fault


LEMMA TypeStep ==
  ASSUME TypeInv, NEW r \in Requests, HandlerStep(r) \/ RoundSteps(r)
  PROVE  TypeOK' /\ RowsOK' /\ MemoryOK'
<1>1. MemoryOK'
  <2>1. /\ pc \in [Requests -> Labels] /\ held \in [Requests -> HeldRecord]
        /\ open = [x \in Requests |-> open[x]]
    BY DEF TypeInv, MemoryOK
  <2>2. LocalTo(r) /\ pc'[r] \in Labels /\ held'[r] \in HeldRecord
    BY MemoryStep, HeldStep
  <2> QED
    BY <2>1, <2>2 DEF LocalTo, MemoryOK
<1>2. application' \in [Ids -> Row \cup {None}]
  <2>1. CASE ApplySave(r) /\ application' # application
    BY <2>1, SavedRow DEF TypeInv, RowsOK
  <2> QED
    BY <2>1, ApplicationsStep
<1>3. RowsOK'
  BY <1>2, CvStep, HistoryStep DEF TypeInv, RowsOK
<1>4. ApplicationTypeOK'
  BY <1>2, <1>3, NoticesStep, FaultsStep DEF ApplicationTypeOK, RowsOK, Stored
<1>5. expired' \subseteq Jobs
  <2>1. expired' \in {expired, expired \cup held[r].jobs}
    BY DEF HandlerStep, RoundSteps, RoundLoad, RoundMark, RoundTell, RoundAddBulk, RoundNext,
       RoundFails
  <2>2. held[r].jobs \subseteq Jobs
    BY DEF TypeInv, MemoryOK, HeldRecord
  <2> QED
    BY <2>1, <2>2 DEF TypeInv, TypeOK
<1>6. queue' \cup Busy' \subseteq Messages /\ mailed' \cup served' \subseteq Messages
  <2>1. UNCHANGED <<active, mailed, served>> /\ Busy' = Busy
    BY HistoryStep DEF Busy
  <2>2. queue' = queue \/ RoundAddBulk(r)
    BY DEF HandlerStep, RoundSteps, RoundLoad, RoundMark, RoundTell, RoundNext, RoundFails,
       queueVars
  <2>3. RoundAddBulk(r) => queue' \subseteq queue \cup {<<r, j>> : j \in held[r].jobs}
    BY DEF RoundAddBulk
  <2>4. held[r].jobs \subseteq Jobs
    BY DEF TypeInv, MemoryOK, HeldRecord
  <2> QED
    BY <2>1, <2>2, <2>3, <2>4 DEF TypeInv, TypeOK, Messages
<1> QED
  BY <1>1, <1>3, <1>4, <1>5, <1>6 DEF TypeOK

(* Of the requests that do not step, and of the one that does.             *)
LEMMA StoredStays ==
  ASSUME TypeInv, NEW r \in Requests, HandlerStep(r) \/ RoundSteps(r)
  PROVE  \A a \in Ids : Stored(a) => Stored(a)'
<1>1. CASE ApplySave(r) /\ application' # application
  BY <1>1, SavedRow, RowsAssumption DEF Stored, TypeInv, RowsOK
<1> QED
  BY <1>1, ApplicationsStep DEF SameApplications

LEMMA ShapeElsewhere ==
  ASSUME TypeInv, NEW r \in Requests, HandlerStep(r) \/ RoundSteps(r), NEW x \in Requests \ {r}
  PROVE  /\ pc'[x] = pc[x] /\ held'[x] = held[x] /\ open'[x] = open[x]
         /\ ShapeFact(x)'
<1>1. pc'[x] = pc[x] /\ held'[x] = held[x] /\ open'[x] = open[x]
  BY MemoryStep DEF LocalTo, TypeInv, MemoryOK
<1>2. \A i \in held[x].items : i[1] \in Ids
  BY DEF TypeInv, MemoryOK, HeldRecord, Items
<1> QED
  BY <1>1, <1>2, StoredStays DEF TypeInv, ShapeInv, ShapeFact, StoredFact

LEMMA Branches ==
  /\ \A s \in {"APPROVED", "DENIED"} : Update(s) \notin Reading /\ Update(s) # Bulk
  /\ \A j : Tell(j) \notin Reading /\ Tell(j) # Bulk
  /\ \A type \in Decisions : \A a : <<type, a>> \notin Reading /\ <<type, a>> # Bulk
  /\ \A type \in Decisions, s \in {"APPROVED", "DENIED"} : \A a : <<type, a>> # Update(s)
  /\ \A type \in Decisions : \A a, j : <<type, a>> # Tell(j)
  /\ Bulk \notin Reading
  BY DEF Update, Tell, Bulk, Reading, Decisions

LEMMA DecideFrame ==
  ASSUME NEW r \in Requests, DecideUpdate(r) \/ DecideTell(r)
  PROVE  /\ pc' = pc /\ held' = held
         /\ \E b \in open[r] : open' = [open EXCEPT ![r] = open[r] \ {b}]
<1>1. CASE DecideUpdate(r)
  <2>1. PICK status \in {"APPROVED", "DENIED"} :
          /\ Update(status) \in open[r] /\ Ends(r, Update(status))
          /\ UNCHANGED <<pc, held>>
    BY <1>1 DEF DecideUpdate
  <2> QED
    BY <2>1 DEF Ends
<1>2. CASE DecideTell(r)
  BY <1>2 DEF DecideTell, Ends
<1> QED
  BY <1>1, <1>2

LEMMA PhaseOwn ==
  ASSUME TypeInv, NEW r \in Requests, HandlerStep(r) \/ RoundSteps(r)
  PROVE  PhaseFact(pc'[r], open'[r])
<1>t. /\ pc \in [Requests -> Labels] /\ open = [x \in Requests |-> open[x]]
      /\ PhaseFact(pc[r], open[r])
  BY DEF TypeInv, MemoryOK, ShapeInv, ShapeFact
<1> USE DEF Goto, Ends, memory, Starts, Ended
<1>1. CASE ApplySteps(r)
  <2>1. CASE ApplyStart(r)
    <3>1. pc'[r] = "reading" /\ open'[r] = Reading
      BY <1>t, <2>1 DEF ApplyStart, Reading
    <3> QED
      BY <3>1, Branches DEF PhaseFact
  <2>2. CASE ApplyReadCv(r) \/ ApplyReadExisting(r)
    <3>1. pc'[r] = "reading" /\ open'[r] \subseteq Reading
      BY <1>t, <2>2 DEF ApplyReadCv, ApplyReadExisting, Reading, PhaseFact
    <3> QED
      BY <3>1, Branches DEF PhaseFact
  <2>3. CASE ApplySave(r)
    <3>1. pc'[r] \in Ended /\ open'[r] = {}
      BY <1>t, <2>3 DEF ApplySave
    <3> QED
      BY <3>1 DEF PhaseFact
  <2> QED
    BY <1>1, <2>1, <2>2, <2>3 DEF ApplySteps
<1>2. CASE DecideSteps(r)
  <2>1. CASE DecideCheck(r)
    <3>1. \/ pc'[r] = "updating" /\ open'[r] \subseteq {Update("APPROVED"), Update("DENIED")}
          \/ pc'[r] = "rejected" /\ open'[r] = {}
      BY <1>t, <2>1 DEF DecideCheck, Updates, PhaseFact
    <3> QED
      BY <3>1, Branches DEF PhaseFact
  <2>2. CASE DecideUpdate(r) \/ DecideTell(r)
    <3>1. pc'[r] = pc[r] /\ open'[r] \subseteq open[r]
      BY <1>t, <2>2, DecideFrame
    <3> QED
      BY <1>t, <3>1 DEF PhaseFact
  <2>3. CASE DecideFails(r)
    <3>1. pc'[r] = "failed" /\ open'[r] \subseteq {Update("APPROVED"), Update("DENIED")}
      BY <1>t, <2>3 DEF DecideFails, PhaseFact
    <3> QED
      BY <3>1, Branches DEF PhaseFact
  <2>4. CASE DecideAnswer(r)
    <3>1. pc'[r] = "done" /\ open'[r] \cap Reading = {}
      BY <1>t, <2>4, Branches DEF DecideAnswer, NoticeType, Decisions
    <3> QED
      BY <3>1 DEF PhaseFact
  <2> QED
    BY <1>2, <2>1, <2>2, <2>3, <2>4 DEF DecideSteps
<1>3. CASE CvSteps(r) \/ MarkSteps(r)
  <2>1. /\ pc'[r] \in Labels \ {"reading", "updating", "telling"}
        /\ open[r] = {} /\ open'[r] = open[r]
    BY <1>t, <1>3 DEF CvSteps, MarkSteps, UploadCV, CvCheck, UpdateCV, DeleteUseCheck, DeleteCV,
       MarkLoad, MarkAsRead, MarkAsReadAll, PhaseFact, Labels
  <2> QED
    BY <2>1 DEF PhaseFact
<1>4. CASE RoundSteps(r)
  <2>1. CASE RoundLoad(r)
    <3>1. pc'[r] \in {"done", "expiring"} /\ open'[r] = {}
      BY <1>t, <2>1 DEF RoundLoad, PhaseFact
    <3> QED
      BY <3>1 DEF PhaseFact
  <2>2. CASE RoundMark(r)
    <3>1. \/ pc'[r] = "telling" /\ open'[r] = {Bulk} \cup {Tell(j) : j \in held[r].jobs}
          \/ pc'[r] = "failed" /\ open'[r] = {}
      BY <1>t, <2>2 DEF RoundMark, PhaseFact
    <3>2. held[r].jobs \subseteq Jobs
      BY DEF TypeInv, MemoryOK, HeldRecord
    <3> QED
      BY <3>1, <3>2, Branches DEF PhaseFact
  <2>3. CASE RoundTell(r) \/ RoundAddBulk(r)
    <3>1. pc'[r] = pc[r] /\ open'[r] \subseteq open[r]
      BY <1>t, <2>3 DEF RoundTell, RoundAddBulk
    <3> QED
      BY <1>t, <3>1 DEF PhaseFact
  <2>4. CASE RoundNext(r) \/ RoundFails(r)
    <3>1. pc[r] = "telling" /\ pc'[r] \in {"telling", "done", "failed"}
          /\ open'[r] \subseteq {Bulk} \cup open[r]
      BY <1>t, <2>4 DEF RoundNext, RoundFails
    <3>2. open[r] \subseteq {Bulk} \cup {Tell(j) : j \in Jobs}
      BY <1>t, <3>1 DEF PhaseFact
    <3> QED
      BY <3>1, <3>2, Branches DEF PhaseFact
  <2> QED
    BY <1>4, <2>1, <2>2, <2>3, <2>4 DEF RoundSteps
<1> QED
  BY <1>1, <1>2, <1>3, <1>4 DEF HandlerStep

LEMMA HeldOwn ==
  ASSUME TypeInv, NEW r \in Requests, HandlerStep(r) \/ RoundSteps(r)
  PROVE  HeldFact(pc'[r], held'[r])
<1>t. /\ pc \in [Requests -> Labels] /\ held \in [Requests -> HeldRecord] /\ held[r] \in HeldRecord
      /\ HeldFact(pc[r], held[r])
  BY DEF TypeInv, MemoryOK, ShapeInv, ShapeFact
<1>n. pc[r] = "new" => held[r].jobs = {}
  BY <1>t DEF HeldFact, Ended
<1> USE DEF Goto, Hold, Release, memory, Starts, Ended
<1>1. CASE ApplySteps(r)
  <2>1. CASE ApplyStart(r)
    <3>1. PICK p \in Profiles, j \in Jobs, c \in Cvs :
            held' = [held EXCEPT ![r] = [Nothing EXCEPT !.profile = p, !.job = j, !.cv = c,
                                                        !.refused = (Employer[j] = p)]]
      BY <2>1 DEF ApplyStart
    <3>2. held'[r].profile = p /\ held'[r].job = j /\ held'[r].cv = c /\ held'[r].jobs = {}
      BY <1>t, <3>1 DEF Nothing
    <3> QED
      BY <3>2 DEF HeldFact
  <2>2. CASE ApplyReadCv(r)
    <3>1. /\ pc' = pc /\ held'[r].profile = held[r].profile /\ held'[r].job = held[r].job
          /\ held'[r].cv = held[r].cv /\ held'[r].jobs = held[r].jobs
      BY <1>t, <2>2 DEF ApplyReadCv, HeldRecord
    <3> QED
      BY <1>t, <3>1 DEF HeldFact
  <2>3. CASE ApplyReadExisting(r)
    <3>1. /\ pc' = pc /\ held'[r].profile = held[r].profile /\ held'[r].job = held[r].job
          /\ held'[r].cv = held[r].cv /\ held'[r].jobs = held[r].jobs
      BY <1>t, <2>3 DEF ApplyReadExisting, HeldRecord
    <3> QED
      BY <1>t, <3>1 DEF HeldFact
  <2>4. CASE ApplySave(r)
    <3>1. pc'[r] \in Ended /\ held'[r] = Nothing
      BY <1>t, <2>4 DEF ApplySave
    <3> QED
      BY <3>1 DEF HeldFact
  <2> QED
    BY <1>1, <2>1, <2>2, <2>3, <2>4 DEF ApplySteps
<1>2. CASE DecideSteps(r)
  <2>1. CASE DecideCheck(r)
    <3>1. pc'[r] \in {"updating", "rejected"} /\ held'[r].jobs = {}
      BY <1>t, <1>n, <2>1 DEF DecideCheck, Nothing
    <3> QED
      BY <3>1 DEF HeldFact
  <2>2. CASE DecideUpdate(r) \/ DecideFails(r) \/ DecideAnswer(r) \/ DecideTell(r)
    <3>1. held' = held /\ (pc'[r] = pc[r] \/ pc'[r] \in Ended)
      BY <1>t, <2>2 DEF DecideUpdate, DecideFails, DecideAnswer, DecideTell
    <3> QED
      BY <1>t, <3>1 DEF HeldFact
  <2> QED
    BY <1>2, <2>1, <2>2 DEF DecideSteps
<1>3. CASE CvSteps(r)
  <2>1. CASE UploadCV(r) \/ UpdateCV(r) \/ DeleteCV(r)
    <3>1. pc'[r] \in Ended
      BY <1>t, <2>1 DEF UploadCV, UpdateCV, DeleteCV
    <3> QED
      BY <3>1 DEF HeldFact
  <2>2. CASE CvCheck(r)
    <3>1. PICK kind \in {"updateCv", "deleteCv"}, c \in Cvs, p \in Profiles :
            \/ /\ pc'[r] = kind
               /\ held' = [held EXCEPT ![r] = [Nothing EXCEPT !.cv = c, !.profile = p]]
            \/ pc'[r] = "rejected"
      BY <1>t, <2>2 DEF CvCheck
    <3>2. CASE pc'[r] = "rejected"
      BY <3>2 DEF HeldFact
    <3>3. CASE held' = [held EXCEPT ![r] = [Nothing EXCEPT !.cv = c, !.profile = p]]
               /\ pc'[r] = kind
      <4>1. held'[r].cv = c /\ held'[r].jobs = {}
        BY <1>t, <3>3 DEF Nothing
      <4> QED
        BY <4>1, <3>3 DEF HeldFact
    <3> QED
      BY <3>1, <3>2, <3>3
  <2>3. CASE DeleteUseCheck(r)
    <3>1. pc[r] = "deleteCv" /\ (pc'[r] = "rejected" \/ (pc'[r] = "deleting" /\ held' = held))
      BY <1>t, <2>3 DEF DeleteUseCheck
    <3> QED
      BY <1>t, <3>1 DEF HeldFact
  <2> QED
    BY <1>3, <2>1, <2>2, <2>3 DEF CvSteps
<1>4. CASE MarkSteps(r)
  <2>1. CASE MarkLoad(r)
    <3>1. PICK chosen : held' = [held EXCEPT ![r] = [Nothing EXCEPT !.notices = chosen]]
      BY <2>1 DEF MarkLoad
    <3>2. held'[r].jobs = {} /\ pc'[r] = "marking"
      BY <1>t, <2>1, <3>1 DEF MarkLoad, Nothing
    <3> QED
      BY <3>2 DEF HeldFact
  <2>2. CASE MarkAsRead(r) \/ MarkAsReadAll(r)
    <3>1. pc'[r] \in Ended
      BY <1>t, <2>2 DEF MarkAsRead, MarkAsReadAll
    <3> QED
      BY <3>1 DEF HeldFact
  <2> QED
    BY <1>4, <2>1, <2>2 DEF MarkSteps
<1>5. CASE RoundSteps(r)
  <2>1. pc'[r] \in Ended \cup {"expiring", "telling"} \/ (pc'[r] = pc[r] /\ held' = held)
    BY <1>t, <1>5 DEF RoundSteps, RoundLoad, RoundMark, RoundTell, RoundAddBulk, RoundNext, RoundFails
  <2> QED
    BY <1>t, <2>1 DEF HeldFact
<1> QED
  BY <1>1, <1>2, <1>3, <1>4, <1>5 DEF HandlerStep

LEMMA StoredOwn ==
  ASSUME TypeInv, NEW r \in Requests, HandlerStep(r) \/ RoundSteps(r)
  PROVE  StoredFact(r)'
<1>t. /\ held \in [Requests -> HeldRecord] /\ held[r] \in HeldRecord
      /\ open = [x \in Requests |-> open[x]]
      /\ PhaseFact(pc[r], open[r]) /\ StoredFact(r)
  BY DEF TypeInv, MemoryOK, ShapeInv, ShapeFact
<1>s. /\ \A i \in held[r].items : i[1] \in Ids
      /\ \A a \in Ids : Stored(a) => Stored(a)'
  BY <1>t, StoredStays DEF HeldRecord, Items
<1>o. open = [x \in Requests |-> open[x]]
  BY <1>t
<1> USE DEF Hold, Release, Ends, memory
<1>1. \A i \in held'[r].items : Stored(i[1])' /\ i[2] # "PENDING"
  <2>1. CASE DecideCheck(r)
    <3>1. CASE held' = held
      BY <1>t, <1>s, <3>1 DEF StoredFact
    <3>2. CASE held' # held
      <4>1. PICK items \in SUBSET {i \in Items : Stored(i[1])} :
              /\ ~\E i \in items : i[2] = "PENDING"
              /\ held' = [held EXCEPT ![r] = [Nothing EXCEPT !.items = items]]
        BY <2>1, <3>2 DEF DecideCheck
      <4>2. held'[r].items = items
        BY <1>t, <4>1 DEF Nothing
      <4>3. \A i \in items : i[1] \in Ids
        BY DEF Items
      <4> QED
        BY <1>s, <4>1, <4>2, <4>3
    <3> QED
      BY <3>1, <3>2
  <2>2. CASE ~DecideCheck(r)
    <3>1. held'[r].items = held[r].items \/ held'[r].items = {}
      <4>1. CASE ApplyStart(r)
        BY <4>1, <1>t DEF ApplyStart, Nothing
      <4>2. CASE CvCheck(r)
        BY <4>2, <1>t DEF CvCheck, Nothing
      <4>3. CASE MarkLoad(r)
        BY <4>3, <1>t DEF MarkLoad, Nothing
      <4>4. CASE RoundLoad(r)
        BY <4>4, <1>t DEF RoundLoad, Nothing
      <4>5. CASE RoundNext(r) \/ ApplyReadCv(r) \/ ApplyReadExisting(r)
        BY <4>5, <1>t DEF RoundNext, ApplyReadCv, ApplyReadExisting, HeldRecord
      <4>6. CASE held' = held \/ held' = [held EXCEPT ![r] = Nothing]
        BY <4>6, <1>t DEF Nothing
      <4>7. \/ held' = held \/ held' = [held EXCEPT ![r] = Nothing]
            \/ ApplyStart(r) \/ CvCheck(r) \/ MarkLoad(r) \/ RoundLoad(r) \/ RoundNext(r)
            \/ ApplyReadCv(r) \/ ApplyReadExisting(r)
        BY <2>2 DEF HandlerStep, ApplySteps, DecideSteps, CvSteps, MarkSteps, RoundSteps, ApplySave,
           DecideUpdate, DecideFails, DecideAnswer, DecideTell, UploadCV, UpdateCV, DeleteUseCheck,
           DeleteCV, MarkAsRead, MarkAsReadAll, RoundMark, RoundTell, RoundAddBulk, RoundFails
      <4> QED
        BY <4>1, <4>2, <4>3, <4>4, <4>5, <4>6, <4>7
    <3> QED
      BY <1>t, <1>s, <3>1 DEF StoredFact
  <2> QED
    BY <2>1, <2>2
<1>2. \A type \in Decisions, a \in Ids : <<type, a>> \in open'[r] => Stored(a)'
  <2>1. CASE DecideAnswer(r)
    <3>1. open'[r] = {<<NoticeType(i[2]), i[1]>> : i \in held[r].items}
      BY <2>1, <1>t DEF DecideAnswer
    <3> QED
      BY <3>1, <1>t, <1>s DEF StoredFact
  <2>2. CASE ~DecideAnswer(r)
    <3>1. \A type \in Decisions, a \in Ids : <<type, a>> \in open'[r] => <<type, a>> \in open[r]
      <4>1. CASE ApplyStart(r)
        BY <4>1, <1>t, Branches DEF ApplyStart, Reading
      <4>2. CASE DecideCheck(r)
        BY <4>2, <1>t, Branches DEF DecideCheck, Updates
      <4>3. CASE RoundMark(r) \/ RoundNext(r)
        BY <4>3, <1>t, Branches DEF RoundMark, RoundNext
      <4>5. CASE DecideUpdate(r) \/ DecideTell(r)
        BY <4>5, <1>o, DecideFrame
      <4>6. CASE ApplyReadCv(r) \/ ApplyReadExisting(r) \/ DecideFails(r)
        BY <4>6, <1>o DEF ApplyReadCv, ApplyReadExisting, DecideFails
      <4>7. CASE RoundTell(r) \/ RoundAddBulk(r) \/ RoundFails(r)
        BY <4>7, <1>o DEF RoundTell, RoundAddBulk, RoundFails
      <4>8. CASE ApplySave(r) \/ RoundLoad(r) \/ CvSteps(r) \/ MarkSteps(r)
        BY <4>8, <1>o DEF ApplySave, RoundLoad, CvSteps, MarkSteps, UploadCV, CvCheck, UpdateCV,
           DeleteUseCheck, DeleteCV, MarkLoad, MarkAsRead, MarkAsReadAll
      <4> QED
        BY <2>2, <4>1, <4>2, <4>3, <4>5, <4>6, <4>7, <4>8 DEF HandlerStep, ApplySteps, DecideSteps,
           RoundSteps
    <3> QED
      BY <3>1, <1>t, <1>s DEF StoredFact
  <2> QED
    BY <2>1, <2>2
<1> QED
  BY <1>1, <1>2 DEF StoredFact

LEMMA TypeInit == Init => TypeInv
<1> SUFFICES ASSUME Init PROVE TypeInv
  OBVIOUS
<1> USE DEF Init, ApplicationInit
<1>1. PICK c \in Cvs :
        /\ application = [a \in Ids |-> IF a = Old THEN Pending(Applicant, Wanted, c) ELSE None]
        /\ cv = [x \in Cvs |-> IF x = c THEN [owner |-> Applicant, published |-> FALSE] ELSE None]
  OBVIOUS
<1>2. Pending(Applicant, Wanted, c) \in Row /\ [owner |-> Applicant, published |-> FALSE] \in CvRow
  BY OldAssumption DEF Pending, Row, CvRow, ApplyJobStatus
<1>3. /\ pc = [r \in Requests |-> "new"] /\ held = [r \in Requests |-> Nothing]
      /\ open = [r \in Requests |-> {}] /\ missed = [r \in Requests |-> {}]
      /\ last = [a \in Ids |-> None] /\ active = [p \in Processors |-> None]
      /\ notices = {} /\ unread = {} /\ faults = 0
      /\ expired = {} /\ queue = {} /\ mailed = {} /\ served = {}
  OBVIOUS
<1> HIDE DEF Init, ApplicationInit
<1>4. RowsOK
  BY <1>1, <1>2, <1>3 DEF RowsOK
<1>5. MemoryOK
  BY <1>3, NothingHeld DEF MemoryOK, Labels
<1>6. TypeOK
  BY <1>1, <1>2, <1>3, <1>4, BoundsAssumption
  DEF TypeOK, ApplicationTypeOK, RowsOK, Stored, Busy
<1>7. ASSUME NEW r \in Requests PROVE ShapeFact(r)
  <2>1. pc[r] = "new" /\ open[r] = {} /\ held[r].items = {} /\ held[r].jobs = {}
    BY <1>3 DEF Nothing
  <2> QED
    BY <2>1 DEF ShapeFact, PhaseFact, HeldFact, StoredFact
<1> QED
  BY <1>4, <1>5, <1>6, <1>7 DEF TypeInv, ShapeInv

LEMMA TypeSame ==
  ASSUME TypeInv, UNCHANGED <<applicationVars, expired>>,
         active' \in [Processors -> Messages \cup {None}],
         queue' \cup mailed' \cup served' \subseteq Messages
  PROVE  TypeInv'
<1> USE DEF applicationVars, database, memory, bounds, history
<1>1. RowsOK' /\ MemoryOK'
  BY DEF TypeInv, RowsOK, MemoryOK
<1>2. ShapeInv'
  BY DEF TypeInv, ShapeInv, ShapeFact, StoredFact, Stored
<1>3. ApplicationTypeOK'
  BY DEF TypeInv, TypeOK, ApplicationTypeOK, Stored
<1>4. Busy' \subseteq Messages
  BY DEF Busy
<1> QED
  BY <1>1, <1>2, <1>3, <1>4 DEF TypeInv, TypeOK

LEMMA WorkerStep ==
  ASSUME TypeInv, NEW p \in Processors, Take(p) \/ Complete(p)
  PROVE  TypeInv'
<1>1. /\ active \in [Processors -> Messages \cup {None}] /\ queue \cup mailed \cup served \subseteq Messages
  BY DEF TypeInv, RowsOK, TypeOK
<1>2. CASE Take(p)
  BY <1>1, <1>2, TypeSame DEF Take
<1>3. CASE Complete(p)
  <2>1. active[p] \in Messages
    BY <1>1, <1>3 DEF Complete
  <2> QED
    BY <1>1, <1>3, <2>1, TypeSame DEF Complete, Mails
<1> QED
  BY <1>2, <1>3

LEMMA CrashStep ==
  ASSUME TypeInv, Crash
  PROVE  TypeInv'
<1>t. /\ pc \in [Requests -> Labels] /\ faults \in 0..MaxFaults
      /\ active \in [Processors -> Messages \cup {None}]
      /\ queue \cup Busy \subseteq Messages /\ mailed \cup served \subseteq Messages
  BY DEF TypeInv, RowsOK, MemoryOK, TypeOK, ApplicationTypeOK
<1>1. /\ pc' = [r \in Requests |-> IF pc[r] \in Ended \cup {"new"} THEN pc[r] ELSE "dead"]
      /\ open' = [r \in Requests |-> {}]
      /\ UNCHANGED <<application, cv, notices, unread, held, missed, last, expired>>
  BY DEF Crash, ProcessEnds, database
<1>2. RowsOK'
  BY <1>t, <1>1 DEF Crash, TypeInv, RowsOK
<1>3. MemoryOK'
  BY <1>t, <1>1 DEF TypeInv, MemoryOK, Labels, Ended
<1>4. faults' \in 0..MaxFaults
  BY <1>t, BoundsAssumption DEF Crash, ProcessEnds, Fault
<1>5. TypeOK'
  <2>1. Busy' = {}
    BY DEF Crash, Busy
  <2>2. queue' \subseteq Messages /\ mailed' \subseteq Messages /\ served' \subseteq Messages
    BY <1>t DEF Crash, Mails
  <2>3. ApplicationTypeOK'
    BY <1>1, <1>4 DEF TypeInv, TypeOK, ApplicationTypeOK, Stored
  <2> QED
    BY <1>1, <2>1, <2>2, <2>3 DEF TypeInv, TypeOK
<1>6. ASSUME NEW r \in Requests PROVE ShapeFact(r)'
  <2>1. PhaseFact(pc[r], open[r]) /\ HeldFact(pc[r], held[r]) /\ StoredFact(r)
    BY DEF TypeInv, ShapeInv, ShapeFact
  <2>2. open'[r] = {} /\ held'[r] = held[r] /\ pc'[r] \in Ended \cup ({"new"} \cap {pc[r]})
    BY <1>1 DEF Ended
  <2>3. PhaseFact(pc'[r], open'[r])
    BY <2>2 DEF PhaseFact, Ended
  <2>4. HeldFact(pc'[r], held'[r])
    BY <2>1, <2>2 DEF HeldFact, Ended
  <2>5. StoredFact(r)'
    BY <1>1, <2>1, <2>2 DEF StoredFact, Stored
  <2> QED
    BY <2>3, <2>4, <2>5 DEF ShapeFact
<1> QED
  BY <1>2, <1>3, <1>5, <1>6 DEF TypeInv, ShapeInv

LEMMA TypeInvStep == TypeInv /\ [Next]_vars => TypeInv'
<1> SUFFICES ASSUME TypeInv, [Next]_vars PROVE TypeInv'
  OBVIOUS
<1>1. ASSUME NEW r \in Requests, HandlerStep(r) \/ RoundSteps(r) PROVE TypeInv'
  <2>1. ShapeFact(r)'
    BY <1>1, PhaseOwn, HeldOwn, StoredOwn DEF ShapeFact
  <2>2. ShapeInv'
    BY <1>1, <2>1, ShapeElsewhere DEF ShapeInv
  <2> QED
    BY <1>1, <2>2, TypeStep DEF TypeInv
<1>2. CASE UNCHANGED vars
  BY <1>2, TypeSame DEF vars, queueVars, TypeInv, RowsOK, TypeOK
<1> QED
  BY <1>1, <1>2, NextSteps, WorkerStep, CrashStep

(* The rows, the notices, the queue and the workers keep their types, and  *)
(* no more statements fail than the bound allows.                          *)
THEOREM TypeCorrect == Spec => []TypeOK
<1>1. TypeInv => TypeOK
  BY DEF TypeInv
<1> QED
  BY <1>1, TypeInit, TypeInvStep, PTL DEF Spec

-----------------------------------------------------------------------------
(* One application of a profile for a job                                  *)

OneInv == KnownInv /\ OneApplicationPerJob

LEMMA ReadingStep ==
  ASSUME TypeInv, NEW r \in Requests, HandlerStep(r) \/ RoundSteps(r)
  PROVE  /\ pc'[r] = "reading" => ApplyStart(r) \/ ApplyReadCv(r) \/ ApplyReadExisting(r)
         /\ pc'[r] \in {"new", "reading"} => pc[r] \in {"new", "reading"}
<1>t. pc \in [Requests -> Labels] /\ PhaseFact(pc[r], open[r])
  BY DEF TypeInv, MemoryOK, ShapeInv, ShapeFact
<1> USE DEF Goto, Starts, memory
<1>1. CASE ApplySteps(r)
  BY <1>1, <1>t, Branches DEF ApplySteps, ApplyStart, ApplyReadCv, ApplyReadExisting, ApplySave, PhaseFact,
     Reading
<1>2. CASE DecideUpdate(r)
  <2>1. PICK s \in {"APPROVED", "DENIED"} : Update(s) \in open[r] /\ pc' = pc
    BY <1>2 DEF DecideUpdate
  <2> QED
    BY <1>t, <2>1, Branches DEF PhaseFact
<1>3. CASE DecideTell(r) \/ RoundTell(r) \/ RoundAddBulk(r)
  <2>1. pc' = pc /\ ~(open[r] \subseteq Reading)
    BY <1>3, Branches DEF DecideTell, RoundTell, RoundAddBulk
  <2> QED
    BY <1>t, <2>1 DEF PhaseFact
<1>4. CASE DecideCheck(r) \/ DecideFails(r) \/ DecideAnswer(r)
  BY <1>4, <1>t DEF DecideCheck, DecideFails, DecideAnswer
<1>5. CASE CvSteps(r) \/ MarkSteps(r)
  BY <1>5, <1>t DEF CvSteps, MarkSteps, UploadCV, CvCheck, UpdateCV, DeleteUseCheck, DeleteCV,
     MarkLoad, MarkAsRead, MarkAsReadAll
<1>6. CASE RoundLoad(r) \/ RoundMark(r) \/ RoundNext(r) \/ RoundFails(r)
  BY <1>6, <1>t DEF RoundLoad, RoundMark, RoundNext, RoundFails
<1> QED
  BY <1>1, <1>2, <1>3, <1>4, <1>5, <1>6 DEF HandlerStep, DecideSteps, RoundSteps

LEMMA MissedStep ==
  ASSUME TypeInv, NEW r \in Requests, HandlerStep(r) \/ RoundSteps(r)
  PROVE  \A x \in Requests : missed[x] \subseteq missed'[x] \/ (x = r /\ ApplyReadExisting(r))
<1>t. missed \in [Requests -> SUBSET Requests]
  BY DEF TypeInv, RowsOK
<1>1. CASE ApplyReadExisting(r)
  BY <1>1, <1>t DEF ApplyReadExisting
<1>2. CASE ApplySave(r)
  <2>1. missed' = missed \/ missed' = [x \in Requests |-> IF pc[x] = "reading" THEN missed[x] \cup {r}
                                                                         ELSE missed[x]]
    BY <1>2 DEF ApplySave
  <2> QED
    BY <2>1
<1>3. CASE ~ApplyReadExisting(r) /\ ~ApplySave(r)
  BY <1>3 DEF HandlerStep, ApplySteps, DecideSteps, CvSteps, MarkSteps, RoundSteps, ApplyStart,
     ApplyReadCv, DecideCheck, DecideUpdate, DecideFails, DecideAnswer, DecideTell, UploadCV,
     CvCheck, UpdateCV, DeleteUseCheck, DeleteCV, MarkLoad, MarkAsRead, MarkAsReadAll, RoundLoad,
     RoundMark, RoundTell, RoundAddBulk, RoundNext, RoundFails, history
<1> QED
  BY <1>1, <1>2, <1>3

(* What a request knows, once it has looked.                               *)
Knows(x) ==
    \A a \in Ids : /\ Stored(a) /\ application[a].profile = held[x].profile
                   /\ application[a].job = held[x].job
                   => a \in missed[x]
Looked(x) == pc[x] = "reading" /\ <<"existing", None>> \notin open[x] /\ ~held[x].refused

LEMMA LookedStep ==
  ASSUME TypeInv, KnownInv, NEW r \in Requests, HandlerStep(r) \/ RoundSteps(r), Looked(r)'
  PROVE  Knows(r)'
<1>t. /\ held \in [Requests -> HeldRecord] /\ held[r] \in HeldRecord
      /\ open = [x \in Requests |-> open[x]]
  BY DEF TypeInv, MemoryOK
<1>1. ApplyStart(r) \/ ApplyReadCv(r) \/ ApplyReadExisting(r)
  BY ReadingStep DEF Looked
<1>2. ~ApplyStart(r)
  BY <1>t DEF ApplyStart, Looked
<1>3. application' = application /\ pc' = pc
  BY <1>1, <1>2 DEF ApplyReadCv, ApplyReadExisting, database
<1>4. CASE ApplyReadCv(r)
  <2>1. /\ held'[r].profile = held[r].profile /\ held'[r].job = held[r].job
        /\ held[r].refused => held'[r].refused
    BY <1>4, <1>t DEF ApplyReadCv, Hold, HeldRecord
  <2>2. <<"existing", None>> \in open[r] => <<"existing", None>> \in open'[r]
    BY <1>4, <1>t DEF ApplyReadCv, Ends
  <2>3. missed' = missed
    BY <1>4 DEF ApplyReadCv, history
  <2>4. Looked(r)
    BY <1>3, <2>1, <2>2 DEF Looked
  <2> QED
    BY <1>3, <2>1, <2>3, <2>4 DEF KnownInv, Looked, Knows, Stored
<1>5. CASE ApplyReadExisting(r)
  <2>1. /\ held'[r].profile = held[r].profile /\ held'[r].job = held[r].job
        /\ AlreadyApplied(held[r].profile, held[r].job, held[r].cv) => held'[r].refused
    BY <1>5, <1>t DEF ApplyReadExisting, Hold, HeldRecord
  <2>2. ~AlreadyApplied(held[r].profile, held[r].job, held[r].cv)
    BY <2>1 DEF Looked
  <2> QED
    BY <1>3, <2>1, <2>2 DEF AlreadyApplied, Applied, Knows, Stored
<1> QED
  BY <1>1, <1>2, <1>4, <1>5

LEMMA KnownStep ==
  ASSUME TypeInv, KnownInv, NEW r \in Requests, HandlerStep(r) \/ RoundSteps(r)
  PROVE  KnownInv'
<1>1. ASSUME NEW x \in Requests, pc'[x] \in {"new", "reading"} PROVE ~Stored(x)'
  <2>1. pc[x] \in {"new", "reading"}
    BY <1>1, ReadingStep, ShapeElsewhere
  <2>2. ~Stored(x)
    BY <2>1 DEF KnownInv
  <2>3. CASE ApplySave(r) /\ application' # application
    <3>1. x # r
      <4>1. pc'[r] = "done" \/ pc'[r] = "failed" \/ pc'[r] = "rejected"
        BY <2>3 DEF ApplySave, Goto, TypeInv, MemoryOK
      <4> QED
        BY <1>1, <4>1
    <3>2. application'[x] = application[x]
      BY <2>3, <3>1, SavedRow DEF TypeInv, RowsOK, Ids
    <3> QED
      BY <2>2, <3>2 DEF Stored
  <2>4. CASE ApplySave(r) => application' = application
    BY <2>2, <2>4, ApplicationsStep DEF SameApplications, Ids
  <2> QED
    BY <2>3, <2>4
<1>2. ASSUME NEW x \in Requests, Looked(x)' PROVE Knows(x)'
  <2>1. CASE x = r
    BY <1>2, <2>1, LookedStep
  <2>2. CASE x # r
    <3>1. pc'[x] = pc[x] /\ held'[x] = held[x] /\ open'[x] = open[x]
      BY <2>2, ShapeElsewhere
    <3>2. Knows(x) /\ missed[x] \subseteq missed'[x] /\ pc[x] = "reading"
      BY <1>2, <2>2, <3>1, MissedStep DEF KnownInv, Looked, Knows
    <3>3. CASE ApplySave(r) /\ application' # application
      <4>1. \A a \in Ids \ {r} : application'[a] = application[a]
        BY <3>3, SavedRow DEF TypeInv, RowsOK
      <4>2. r \in missed'[x]
        BY <3>2, <3>3, SavedRow
      <4> QED
        BY <3>1, <3>2, <4>1, <4>2 DEF Knows, Stored
    <3>4. CASE ApplySave(r) => application' = application
      BY <3>1, <3>2, <3>4, ApplicationsStep DEF Knows, SameApplications
    <3> QED
      BY <3>3, <3>4
  <2> QED
    BY <2>1, <2>2
<1> QED
  BY <1>1, <1>2 DEF KnownInv, Looked, Knows

(* Two applications of a profile for a job, one of them a request's that   *)
(* missed the other.                                                       *)
Missed(a, b) == \E x \in {a, b} \cap Requests : {a, b} \ {x} \subseteq missed[x]
SameTarget(a, b) ==
    /\ a # b /\ Stored(a) /\ Stored(b)
    /\ application[a].profile = application[b].profile
    /\ application[a].job = application[b].job

LEMMA MissedStays ==
  ASSUME TypeInv, KnownInv, NEW r \in Requests, HandlerStep(r) \/ RoundSteps(r),
         NEW a \in Ids, NEW b \in Ids, Stored(a), Stored(b), Missed(a, b)
  PROVE  Missed(a, b)'
<1>1. PICK x \in {a, b} \cap Requests : {a, b} \ {x} \subseteq missed[x]
  BY DEF Missed
<1>2. pc[x] # "reading"
  BY <1>1 DEF KnownInv
<1>3. ~(x = r /\ ApplyReadExisting(r))
  <2>1. ApplyReadExisting(r) => pc[r] = "reading"
    BY DEF ApplyReadExisting, TypeInv, ShapeInv, ShapeFact, PhaseFact, Reading
  <2> QED
    BY <1>2, <2>1
<1>4. missed[x] \subseteq missed'[x]
  BY <1>1, <1>3, MissedStep
<1> QED
  BY <1>1, <1>4 DEF Missed

LEMMA OneStep ==
  ASSUME TypeInv, OneInv, NEW r \in Requests, HandlerStep(r) \/ RoundSteps(r)
  PROVE  OneApplicationPerJob'
<1> SUFFICES ASSUME NEW a \in Ids, NEW b \in Ids, SameTarget(a, b)' PROVE Missed(a, b)'
  BY DEF OneApplicationPerJob, SameTarget, Missed
<1>o. SameTarget(a, b) => Missed(a, b)
  BY DEF OneInv, OneApplicationPerJob, SameTarget, Missed
<1>1. CASE ApplySave(r) /\ application' # application
  <2>1. \A c \in Ids \ {r} : application'[c] = application[c]
    BY <1>1, SavedRow DEF TypeInv, RowsOK
  <2>2. /\ application'[r].profile = held[r].profile
        /\ application'[r].job = held[r].job
    <3>1. application'[r] = Pending(held[r].profile, held[r].job, held[r].cv)
      BY <1>1, SavedRow DEF TypeInv, RowsOK, Ids
    <3> QED
      BY <3>1 DEF Pending
  <2>3. Knows(r) /\ \A x \in Requests : missed[x] \subseteq missed'[x]
    <3>1. pc[r] = "reading" /\ open[r] = {} /\ ~held[r].refused
      BY <1>1, SavedRow DEF ApplySave
    <3>2. Knows(r)
      BY <3>1 DEF OneInv, KnownInv, Knows
    <3>3. ~ApplyReadExisting(r)
      BY <3>1 DEF ApplyReadExisting
    <3> QED
      BY <3>2, <3>3, MissedStep
  <2>4. ASSUME NEW c \in Ids \ {r}, SameTarget(r, c)' PROVE c \in missed'[r]
    BY <2>1, <2>2, <2>3, <2>4 DEF SameTarget, Knows, Stored
  <2>5. CASE a = r
    BY <2>4, <2>5 DEF Missed, SameTarget
  <2>6. CASE b = r
    <3>1. SameTarget(r, a)'
      BY <2>6 DEF SameTarget
    <3>2. a \in missed'[r]
      BY <2>4, <2>6, <3>1 DEF SameTarget
    <3> QED
      BY <2>6, <3>2 DEF Missed
  <2>7. CASE a # r /\ b # r
    <3>1. SameTarget(a, b)
      BY <2>1, <2>7 DEF SameTarget, Stored
    <3> QED
      BY <1>o, <3>1, MissedStays DEF OneInv, SameTarget
  <2> QED
    BY <2>5, <2>6, <2>7
<1>2. CASE ApplySave(r) => application' = application
  <2>1. SameTarget(a, b)
    BY <1>2, ApplicationsStep DEF SameApplications, SameTarget
  <2> QED
    BY <1>o, <2>1, MissedStays DEF OneInv, SameTarget
<1> QED
  BY <1>1, <1>2

LEMMA OneInvStep == TypeInv /\ OneInv /\ [Next]_vars => OneInv'
<1> SUFFICES ASSUME TypeInv, OneInv, [Next]_vars PROVE OneInv'
  OBVIOUS
<1>1. ASSUME NEW r \in Requests, HandlerStep(r) \/ RoundSteps(r) PROVE OneInv'
  BY <1>1, KnownStep, OneStep DEF OneInv
<1>2. ASSUME UNCHANGED applicationVars PROVE OneInv'
  BY <1>2 DEF OneInv, KnownInv, OneApplicationPerJob, Stored, applicationVars, database, memory, history
<1>3. CASE Crash
  <2>1. /\ pc' = [r \in Requests |-> IF pc[r] \in Ended \cup {"new"} THEN pc[r] ELSE "dead"]
        /\ UNCHANGED <<application, held, missed>>
    BY <1>3 DEF Crash, ProcessEnds, database
  <2>2. KnownInv'
    BY <2>1 DEF OneInv, KnownInv, Stored, Ended
  <2>3. OneApplicationPerJob'
    BY <2>1 DEF OneInv, OneApplicationPerJob, Stored
  <2> QED
    BY <2>2, <2>3 DEF OneInv
<1> QED
  BY <1>1, <1>2, <1>3, NextSteps DEF Take, Complete, vars

LEMMA OneInit == Init => OneInv
<1> SUFFICES ASSUME Init PROVE OneInv
  OBVIOUS
<1>1. /\ \A a \in Ids \ {Old} : ~Stored(a)
      /\ \A r \in Requests : pc[r] = "new"
  BY DEF Init, ApplicationInit, Stored
<1> QED
  BY <1>1, IdsAssumption DEF OneInv, KnownInv, OneApplicationPerJob, Ids

(* However many requests apply at once, a profile has two applications for *)
(* a job only when one of them was stored after the other request had      *)
(* looked for one.                                                         *)
THEOREM OneApplication == Spec => []OneApplicationPerJob
<1>1. Init => OneInv
  BY OneInit
<1>2. OneInv => OneApplicationPerJob
  BY DEF OneInv
<1> QED
  BY <1>1, <1>2, OneInvStep, TypeInit, TypeInvStep, PTL DEF Spec

-----------------------------------------------------------------------------
(* What candidates are told                                                *)

(* A decision that has stored a status, and a branch that will tell of one.*)
Updated(x, a, s) == /\ pc[x] = "updating" /\ a \in Targets(held[x].items, s)
                    /\ Update(s) \notin open[x]
Telling(x, a, type) == <<type, a>> \in open[x]

ToldFact(a) ==
    /\ \A x \in Requests : \A s \in {"APPROVED", "DENIED"} :
         Updated(x, a, s) => application[a].status = s
    /\ \A x \in Requests : \A type \in Decisions :
         Telling(x, a, type) => type = ToldAs(application[a].status)
    /\ Stored(a) /\ (\A x \in Requests : ~Outstanding(x, a))
         => last[a] = ToldAs(application[a].status)

DecidedInv ==
    /\ \A a \in Ids \ untold : ToldFact(a)
    /\ \A a \in Ids : ~Stored(a) => last[a] = None

LEMMA OutstandingIs ==
  ASSUME NEW x \in Requests, NEW a \in Ids
  PROVE  Outstanding(x, a) <=> \/ \E s \in {"APPROVED", "DENIED"} : Updated(x, a, s)
                               \/ \E type \in Decisions : Telling(x, a, type)
  BY DEF Outstanding, Updated, Telling

LEMMA OutstandingThen ==
  ASSUME NEW x \in Requests, NEW a \in Ids
  PROVE  Outstanding(x, a)' <=> \/ \E s \in {"APPROVED", "DENIED"} : Updated(x, a, s)'
                                \/ \E type \in Decisions : Telling(x, a, type)'
  BY DEF Outstanding, Updated, Telling

LEMMA DecidedMatches ==
  ASSUME DecidedInv
  PROVE  NoticesMatchDecisions
  BY DEF DecidedInv, ToldFact, NoticesMatchDecisions, ToldAs

LEMMA ToldSame ==
  ASSUME NEW a \in Ids, ToldFact(a), application'[a] = application[a], last'[a] = last[a],
         \A x \in Requests, s \in {"APPROVED", "DENIED"} : Updated(x, a, s)' <=> Updated(x, a, s),
         \A x \in Requests, type \in Decisions : Telling(x, a, type)' <=> Telling(x, a, type)
  PROVE  ToldFact(a)'
<1>1. \A x \in Requests : Outstanding(x, a)' <=> Outstanding(x, a)
  BY OutstandingIs, OutstandingThen
<1> QED
  BY <1>1 DEF ToldFact, Stored

LEMMA Elsewhere ==
  ASSUME TypeInv, NEW r \in Requests, HandlerStep(r) \/ RoundSteps(r), NEW x \in Requests \ {r}, NEW a
  PROVE  /\ \A s \in {"APPROVED", "DENIED"} : Updated(x, a, s)' <=> Updated(x, a, s)
         /\ \A type \in Decisions : Telling(x, a, type)' <=> Telling(x, a, type)
         /\ Outstanding(x, a)' <=> Outstanding(x, a)
  BY ShapeElsewhere DEF Updated, Telling, Outstanding

(* Only a decision is ever between its updates and its notices.            *)
LEMMA QuietStep ==
  ASSUME TypeInv, NEW r \in Requests, HandlerStep(r) \/ RoundSteps(r), ~DecideSteps(r), NEW a
  PROVE  /\ \A s \in {"APPROVED", "DENIED"} : ~Updated(r, a, s) /\ ~Updated(r, a, s)'
         /\ \A type \in Decisions : Telling(r, a, type)' <=> Telling(r, a, type)
<1>t. /\ pc \in [Requests -> Labels] /\ open = [x \in Requests |-> open[x]]
      /\ PhaseFact(pc[r], open[r])
  BY DEF TypeInv, MemoryOK, ShapeInv, ShapeFact
<1> USE DEF Goto, Starts, Ends, memory
<1>1. pc[r] # "updating" /\ pc'[r] # "updating"
  <2>1. CASE RoundTell(r) \/ RoundAddBulk(r)
    <3>1. pc' = pc /\ \E j : Tell(j) \in open[r] \/ Bulk \in open[r]
      BY <2>1 DEF RoundTell, RoundAddBulk
    <3>2. \A j : Tell(j) \notin {Update("APPROVED"), Update("DENIED")}
      BY DEF Tell, Update
    <3> QED
      BY <1>t, <3>1, <3>2, Branches DEF PhaseFact
  <2>2. CASE ApplySteps(r)
    BY <2>2, <1>t DEF ApplySteps, ApplyStart, ApplyReadCv, ApplyReadExisting, ApplySave, PhaseFact,
       Reading
  <2>3. CASE CvSteps(r) \/ MarkSteps(r)
    BY <2>3, <1>t DEF CvSteps, MarkSteps, UploadCV, CvCheck, UpdateCV, DeleteUseCheck, DeleteCV,
       MarkLoad, MarkAsRead, MarkAsReadAll
  <2>4. CASE RoundLoad(r) \/ RoundMark(r) \/ RoundNext(r) \/ RoundFails(r)
    BY <2>4, <1>t DEF RoundLoad, RoundMark, RoundNext, RoundFails
  <2> QED
    BY <2>1, <2>2, <2>3, <2>4 DEF HandlerStep, RoundSteps
<1>2. ASSUME NEW type \in Decisions PROVE <<type, a>> \in open'[r] <=> <<type, a>> \in open[r]
  <2>1. CASE ApplyStart(r)
    BY <2>1, <1>t, Branches DEF ApplyStart, PhaseFact, Reading
  <2>2. CASE RoundMark(r)
    <3>1. open[r] = {}
      BY <2>2, <1>t DEF RoundMark, PhaseFact
    <3> QED
      BY <2>2, <1>t, <3>1, Branches DEF RoundMark
  <2>3. CASE RoundNext(r)
    BY <2>3, <1>t, Branches DEF RoundNext
  <2>4. CASE ApplyReadCv(r) \/ ApplyReadExisting(r)
    BY <2>4, <1>t, Branches DEF ApplyReadCv, ApplyReadExisting, Reading
  <2>5. CASE RoundTell(r) \/ RoundAddBulk(r) \/ RoundFails(r)
    BY <2>5, <1>t, Branches DEF RoundTell, RoundAddBulk, RoundFails
  <2>6. CASE ApplySave(r) \/ RoundLoad(r) \/ CvSteps(r) \/ MarkSteps(r)
    BY <2>6, <1>t DEF ApplySave, RoundLoad, CvSteps, MarkSteps, UploadCV, CvCheck, UpdateCV,
       DeleteUseCheck, DeleteCV, MarkLoad, MarkAsRead, MarkAsReadAll
  <2> QED
    BY <2>1, <2>2, <2>3, <2>4, <2>5, <2>6 DEF HandlerStep, ApplySteps, RoundSteps
<1> QED
  BY <1>1, <1>2 DEF Updated, Telling

LEMMA HistorySame ==
  ASSUME NEW r \in Requests, HandlerStep(r) \/ RoundSteps(r), ~DecideSteps(r)
  PROVE  last' = last /\ untold' = untold
  BY DEF HandlerStep, ApplySteps, CvSteps, MarkSteps, RoundSteps, ApplyStart,
     ApplyReadCv, ApplyReadExisting, ApplySave, UploadCV, CvCheck, UpdateCV, DeleteUseCheck,
     DeleteCV, MarkLoad, MarkAsRead, MarkAsReadAll, RoundLoad, RoundMark, RoundTell, RoundAddBulk,
     RoundNext, RoundFails, history

LEMMA OtherStep ==
  ASSUME TypeInv, KnownInv, DecidedInv, NEW r \in Requests, HandlerStep(r) \/ RoundSteps(r),
         ~DecideSteps(r)
  PROVE  DecidedInv'
<1>h. last' = last /\ untold' = untold
  BY HistorySame
<1>m. \A a \in Ids : /\ \A x \in Requests, s \in {"APPROVED", "DENIED"} :
                          Updated(x, a, s)' <=> Updated(x, a, s)
                     /\ \A x \in Requests, type \in Decisions :
                          Telling(x, a, type)' <=> Telling(x, a, type)
  BY QuietStep, Elsewhere
<1>1. ASSUME NEW a \in Ids, application'[a] = application[a]
      PROVE  (a \notin untold' => ToldFact(a)') /\ (~Stored(a)' => last'[a] = None)
  BY <1>h, <1>m, <1>1, ToldSame DEF DecidedInv, Stored
<1>2. CASE ApplySave(r) /\ application' # application
  <2>1. \A a \in Ids \ {r} : application'[a] = application[a]
    BY <1>2, SavedRow DEF TypeInv, RowsOK
  <2>2. application'[r].status = "PENDING" /\ r \in Ids /\ Stored(r)'
    <3>1. application'[r] = Pending(held[r].profile, held[r].job, held[r].cv)
      BY <1>2, SavedRow DEF TypeInv, RowsOK, Ids
    <3> QED
      BY <3>1, <1>2, SavedRow, RowsAssumption DEF Pending, Ids, Stored
  <2>3. ~Stored(r)
    BY <1>2 DEF ApplySave, KnownInv
  <2>4. last'[r] = None
    BY <1>h, <2>2, <2>3 DEF DecidedInv
  <2>5. \A x \in Requests, s \in {"APPROVED", "DENIED"} : ~Updated(x, r, s)
    BY <2>3, TargetsStored DEF Updated
  <2>6. \A x \in Requests, type \in Decisions : ~Telling(x, r, type)
    BY <2>2, <2>3 DEF TypeInv, ShapeInv, ShapeFact, StoredFact, Telling
  <2>7. ToldFact(r)'
    BY <1>m, <2>2, <2>4, <2>5, <2>6 DEF ToldFact, ToldAs
  <2> QED
    BY <1>1, <2>1, <2>2, <2>7 DEF DecidedInv
<1>3. CASE ~(ApplySave(r) /\ application' # application)
  <2>1. application' = application
    BY <1>3 DEF HandlerStep, ApplySteps, CvSteps, MarkSteps, RoundSteps, ApplyStart, ApplyReadCv,
       ApplyReadExisting, UploadCV, CvCheck, UpdateCV, DeleteUseCheck, DeleteCV, MarkLoad,
       MarkAsRead, MarkAsReadAll, RoundLoad, RoundMark, RoundTell, RoundAddBulk, RoundNext,
       RoundFails, database
  <2> QED
    BY <1>1, <2>1 DEF DecidedInv
<1> QED
  BY <1>2, <1>3

LEMMA ToldLocal ==
  ASSUME TypeInv, NEW r \in Requests, HandlerStep(r) \/ RoundSteps(r),
         NEW a \in Ids, ToldFact(a), application'[a] = application[a], last'[a] = last[a],
         \A s \in {"APPROVED", "DENIED"} : Updated(r, a, s)' <=> Updated(r, a, s),
         \A type \in Decisions : Telling(r, a, type)' <=> Telling(r, a, type)
  PROVE  ToldFact(a)'
<1>1. \A x \in Requests, s \in {"APPROVED", "DENIED"} : Updated(x, a, s)' <=> Updated(x, a, s)
  BY Elsewhere
<1>2. \A x \in Requests, type \in Decisions : Telling(x, a, type)' <=> Telling(x, a, type)
  BY Elsewhere
<1> QED
  BY <1>1, <1>2, ToldSame

LEMMA DecideCheckTold ==
  ASSUME TypeInv, DecidedInv, NEW r \in Requests, HandlerStep(r) \/ RoundSteps(r), DecideCheck(r)
  PROVE  DecidedInv'
<1>t. /\ pc \in [Requests -> Labels] /\ open = [x \in Requests |-> open[x]]
      /\ held \in [Requests -> HeldRecord] /\ PhaseFact(pc[r], open[r])
  BY DEF TypeInv, MemoryOK, ShapeInv, ShapeFact
<1>1. UNCHANGED <<application, last, untold>> /\ pc[r] = "new" /\ open[r] = {}
  BY <1>t DEF DecideCheck, Starts, database, history, PhaseFact
<1>2. \A a, s : ~Updated(r, a, s)
  BY <1>1 DEF Updated
<1>3. \A a, type : ~Telling(r, a, type)
  BY <1>1 DEF Telling
<1>4. CASE pc'[r] = "rejected" /\ open' = open
  <2>1. \A a, s : ~Updated(r, a, s)'
    BY <1>4 DEF Updated
  <2>2. \A a, type : ~Telling(r, a, type)'
    BY <1>1, <1>4 DEF Telling
  <2>5. \A a \in Ids \ untold : ToldFact(a)'
    BY <1>1, <1>2, <1>3, <2>1, <2>2, ToldLocal DEF DecidedInv
  <2> QED
    BY <1>1, <2>5 DEF DecidedInv, Stored
<1>5. CASE ~(pc'[r] = "rejected" /\ open' = open)
  <2>1. PICK items : /\ held' = [held EXCEPT ![r] = [Nothing EXCEPT !.items = items]]
                     /\ open' = [open EXCEPT ![r] = Updates(items)]
    BY <1>5, <1>t DEF DecideCheck, Goto, Hold
  <2>2. held'[r].items = items /\ open'[r] = Updates(items)
    BY <2>1, <1>t DEF Nothing
  <2>3. \A a : \A s \in {"APPROVED", "DENIED"} : ~Updated(r, a, s)'
    BY <2>2 DEF Updated, Updates
  <2>4. \A a : \A type \in Decisions : ~Telling(r, a, type)'
    BY <2>2, Branches DEF Telling, Updates
  <2>5. \A a \in Ids \ untold : ToldFact(a)'
    BY <1>1, <1>2, <1>3, <2>3, <2>4, ToldLocal DEF DecidedInv
  <2> QED
    BY <1>1, <2>5 DEF DecidedInv, Stored
<1> QED
  BY <1>4, <1>5

LEMMA DecideUpdateTold ==
  ASSUME TypeInv, DecidedInv, NEW r \in Requests, HandlerStep(r) \/ RoundSteps(r), DecideUpdate(r)
  PROVE  DecidedInv'
<1>t. open = [x \in Requests |-> open[x]] /\ application \in [Ids -> Row \cup {None}]
  BY DEF TypeInv, MemoryOK, RowsOK
<1>1. PICK status \in {"APPROVED", "DENIED"} :
        /\ Update(status) \in open[r]
        /\ Ends(r, Update(status))
        /\ application' = [a \in Ids |-> IF a \in Targets(held[r].items, status)
                                        THEN [application[a] EXCEPT !.status = status]
                                        ELSE application[a]]
        /\ untold' = (untold \ Targets(held[r].items, status))
                     \cup {a \in Targets(held[r].items, status) :
                             pc[r] # "updating" \/ \E x \in Requests : Outstanding(x, a)}
        /\ UNCHANGED <<pc, held, last>>
  BY DEF DecideUpdate
<1>2. open'[r] = open[r] \ {Update(status)}
  BY <1>1, <1>t DEF Ends
<1>3. \A a : \A type \in Decisions : Telling(r, a, type)' <=> Telling(r, a, type)
  BY <1>2, Branches DEF Telling
<1>4. \A s \in {"APPROVED", "DENIED"} \ {status} : Update(s) # Update(status)
  BY DEF Update
<1>5. \A a : \A s \in {"APPROVED", "DENIED"} \ {status} : Updated(r, a, s)' <=> Updated(r, a, s)
  BY <1>1, <1>2, <1>4 DEF Updated
<1>6. ASSUME NEW a \in Ids \ untold', a \in Targets(held[r].items, status) PROVE ToldFact(a)'
  <2>1. pc[r] = "updating" /\ \A x \in Requests : ~Outstanding(x, a)
    BY <1>1, <1>6
  <2>2. application'[a].status = status
    <3>1. application[a] \in Row
      BY <1>6, TargetsStored, StoredRow
    <3>2. [application[a] EXCEPT !.status = status].status = status
      BY <3>1 DEF Row
    <3> QED
      BY <1>1, <1>6, <3>2
  <2>3. \A x \in Requests \ {r}, s \in {"APPROVED", "DENIED"} : ~Updated(x, a, s)'
    BY <2>1, OutstandingIs, Elsewhere
  <2>4. \A s \in {"APPROVED", "DENIED"} \ {status} : ~Updated(r, a, s)'
    BY <1>5, <2>1, OutstandingIs
  <2>5. \A x \in Requests, type \in Decisions : ~Telling(x, a, type)'
    BY <1>3, <2>1, OutstandingIs, Elsewhere
  <2>6. Outstanding(r, a)'
    <3>1. Updated(r, a, status)'
      BY <1>1, <1>2, <1>6, <2>1 DEF Updated
    <3> QED
      BY <3>1, OutstandingThen
  <2> QED
    BY <2>2, <2>3, <2>4, <2>5, <2>6 DEF ToldFact
<1>7. ASSUME NEW a \in Ids \ untold', a \notin Targets(held[r].items, status) PROVE ToldFact(a)'
  <2>1. ToldFact(a)
    BY <1>1, <1>7 DEF DecidedInv
  <2>2. application'[a] = application[a] /\ last'[a] = last[a]
    BY <1>1, <1>7
  <2>3. ~Updated(r, a, status) /\ ~Updated(r, a, status)'
    BY <1>1, <1>7 DEF Updated
  <2> QED
    BY <1>3, <1>5, <2>1, <2>2, <2>3, ToldLocal
<1>8. \A a \in Ids : ~Stored(a)' => last'[a] = None
  BY <1>1, DecideRows DEF SameApplications, DecidedInv
<1> QED
  BY <1>6, <1>7, <1>8 DEF DecidedInv

LEMMA DecideFailsTold ==
  ASSUME TypeInv, DecidedInv, NEW r \in Requests, HandlerStep(r) \/ RoundSteps(r), DecideFails(r)
  PROVE  DecidedInv'
<1>t. /\ pc \in [Requests -> Labels] /\ open = [x \in Requests |-> open[x]]
      /\ PhaseFact(pc[r], open[r])
  BY DEF TypeInv, MemoryOK, ShapeInv, ShapeFact
<1>1. /\ UNCHANGED <<application, last>> /\ untold' = untold \cup {a \in Ids : Outstanding(r, a)}
      /\ pc'[r] = "failed" /\ pc[r] = "updating" /\ open'[r] \subseteq open[r]
  BY <1>t DEF DecideFails, Goto, Ends, database
<1>2. \A a, s : ~Updated(r, a, s)'
  BY <1>1 DEF Updated
<1>3. \A a : \A type \in Decisions : ~Telling(r, a, type) /\ ~Telling(r, a, type)'
  BY <1>t, <1>1, Branches DEF Telling, PhaseFact
<1>4. ASSUME NEW a \in Ids \ untold' PROVE ToldFact(a)'
  <2>1. \A s \in {"APPROVED", "DENIED"} : ~Updated(r, a, s)
    BY <1>1, <1>4, OutstandingIs
  <2>2. ToldFact(a) /\ application'[a] = application[a] /\ last'[a] = last[a]
    BY <1>1, <1>4 DEF DecidedInv
  <2>3. \A s \in {"APPROVED", "DENIED"} : Updated(r, a, s)' <=> Updated(r, a, s)
    BY <1>2, <2>1
  <2> QED
    BY <1>3, <2>2, <2>3, ToldLocal
<1> QED
  BY <1>1, <1>4 DEF DecidedInv, Stored

LEMMA DecideTellTold ==
  ASSUME TypeInv, DecidedInv, NEW r \in Requests, HandlerStep(r) \/ RoundSteps(r), DecideTell(r)
  PROVE  DecidedInv'
<1>t. open = [x \in Requests |-> open[x]] /\ last \in [Ids -> Decisions \cup {None}]
  BY DEF TypeInv, MemoryOK, RowsOK
<1>1. PICK type \in Decisions, b \in Ids :
        /\ <<type, b>> \in open[r]
        /\ Ends(r, <<type, b>>)
        /\ last' = [last EXCEPT ![b] = type]
        /\ UNCHANGED <<application, pc, held, untold>>
  BY DEF DecideTell
<1>2. open'[r] = open[r] \ {<<type, b>>}
  BY <1>1, <1>t DEF Ends
<1>3. \A a : \A s \in {"APPROVED", "DENIED"} : Updated(r, a, s)' <=> Updated(r, a, s)
  BY <1>1, <1>2, Branches DEF Updated
<1>4. \A a : \A ty \in Decisions : Telling(r, a, ty)' => Telling(r, a, ty)
  BY <1>2 DEF Telling
<1>5. \A a \in Ids \ {b} : \A ty \in Decisions : Telling(r, a, ty)' <=> Telling(r, a, ty)
  BY <1>2 DEF Telling
<1>6. ASSUME NEW a \in Ids \ untold' PROVE ToldFact(a)'
  <2>1. ToldFact(a)
    BY <1>1, <1>6 DEF DecidedInv
  <2>2. CASE a # b
    <3>1. application'[a] = application[a] /\ last'[a] = last[a]
      BY <1>1, <1>t, <2>2
    <3>2. \A ty \in Decisions : Telling(r, a, ty)' <=> Telling(r, a, ty)
      BY <1>5, <2>2
    <3> QED
      BY <1>3, <2>1, <3>1, <3>2, ToldLocal
  <2>3. CASE a = b
    <3>1. last'[a] = ToldAs(application'[a].status)
      BY <1>1, <1>t, <2>1, <2>3 DEF ToldFact, Telling
    <3>2. \A x \in Requests, s \in {"APPROVED", "DENIED"} : Updated(x, a, s)' => Updated(x, a, s)
      BY <1>3, Elsewhere
    <3>3. \A x \in Requests, ty \in Decisions : Telling(x, a, ty)' => Telling(x, a, ty)
      BY <1>4, Elsewhere
    <3> QED
      BY <1>1, <2>1, <3>1, <3>2, <3>3 DEF ToldFact
  <2> QED
    BY <2>2, <2>3
<1>7. \A a \in Ids : ~Stored(a)' => last'[a] = None
  <2>1. Stored(b)
    BY <1>1 DEF TypeInv, ShapeInv, ShapeFact, StoredFact
  <2> QED
    BY <1>1, <1>t, <2>1 DEF DecidedInv, Stored
<1> QED
  BY <1>6, <1>7 DEF DecidedInv

LEMMA DecideAnswerTold ==
  ASSUME Asked \subseteq ApplyJobStatus,
         TypeInv, DecidedInv, NEW r \in Requests, HandlerStep(r) \/ RoundSteps(r), DecideAnswer(r)
  PROVE  DecidedInv'
<1>t. /\ pc \in [Requests -> Labels] /\ open = [x \in Requests |-> open[x]]
      /\ held[r] \in HeldRecord /\ StoredFact(r)
  BY DEF TypeInv, MemoryOK, ShapeInv, ShapeFact
<1>1. /\ UNCHANGED <<application, held, last, untold>>
      /\ pc[r] = "updating" /\ pc'[r] = "done" /\ open[r] = {}
      /\ open'[r] = {<<NoticeType(i[2]), i[1]>> : i \in held[r].items}
  BY <1>t DEF DecideAnswer, Goto, database, history
<1>2. ASSUME NEW i \in held[r].items
      PROVE  /\ i = <<i[1], i[2]>> /\ i[1] \in Ids /\ i[2] \in {"APPROVED", "DENIED"}
             /\ i[1] \in Targets(held[r].items, i[2])
  <2>1. i \in Ids \X Asked
    BY <1>t DEF HeldRecord, Items
  <2>2. i[2] \in {"APPROVED", "DENIED"}
    BY <1>t, <2>1 DEF StoredFact, ApplyJobStatus
  <2> QED
    BY <2>1, <2>2 DEF Targets, Approved, Denied
<1>3. \A a, s : ~Updated(r, a, s)'
  BY <1>1 DEF Updated
<1>4. \A a, type : ~Telling(r, a, type)
  BY <1>1 DEF Telling
<1>5. ASSUME NEW a \in Ids \ untold' PROVE ToldFact(a)'
  <2>1. ToldFact(a)
    BY <1>1, <1>5 DEF DecidedInv
  <2>2. ASSUME NEW type \in Decisions, Telling(r, a, type)'
        PROVE  type = ToldAs(application'[a].status)
    <3>1. PICK i \in held[r].items : type = NoticeType(i[2]) /\ a = i[1]
      BY <1>1, <2>2 DEF Telling
    <3>2. Updated(r, a, i[2]) /\ i[2] \in {"APPROVED", "DENIED"}
      BY <1>1, <1>2, <3>1 DEF Updated
    <3>3. application[a].status = i[2]
      BY <2>1, <3>2 DEF ToldFact
    <3> QED
      BY <1>1, <3>1, <3>2, <3>3 DEF NoticeType, ToldAs
  <2>3. Outstanding(r, a) => Outstanding(r, a)'
    <3>1. ASSUME NEW s \in {"APPROVED", "DENIED"}, Updated(r, a, s)
          PROVE  \E type \in Decisions : Telling(r, a, type)'
      <4>1. <<a, s>> \in held[r].items
        BY <3>1, TargetsStored DEF Updated
      <4>2. <<NoticeType(s), a>> \in open'[r]
        BY <1>1, <4>1
      <4> QED
        BY <4>2 DEF Telling, NoticeType, Decisions
    <3> QED
      BY <1>4, <3>1, OutstandingIs, OutstandingThen
  <2>4. \A x \in Requests : Outstanding(x, a) => Outstanding(x, a)'
    BY <2>3, Elsewhere
  <2>5. Stored(a)' /\ (\A x \in Requests : ~Outstanding(x, a)')
          => last'[a] = ToldAs(application'[a].status)
    BY <1>1, <2>1, <2>4 DEF ToldFact, Stored
  <2>6. \A x \in Requests, s \in {"APPROVED", "DENIED"} :
          Updated(x, a, s)' => application'[a].status = s
    BY <1>1, <1>3, <2>1, Elsewhere DEF ToldFact
  <2>7. \A x \in Requests, type \in Decisions :
          Telling(x, a, type)' => type = ToldAs(application'[a].status)
    BY <1>1, <2>1, <2>2, Elsewhere DEF ToldFact
  <2> QED
    BY <2>5, <2>6, <2>7 DEF ToldFact
<1> QED
  BY <1>1, <1>5 DEF DecidedInv, Stored

LEMMA DecidedInvStep ==
  ASSUME Asked \subseteq ApplyJobStatus
  PROVE  TypeInv /\ OneInv /\ DecidedInv /\ [Next]_vars => DecidedInv'
<1> SUFFICES ASSUME TypeInv, OneInv, DecidedInv, [Next]_vars PROVE DecidedInv'
  OBVIOUS
<1>1. ASSUME NEW r \in Requests, HandlerStep(r) \/ RoundSteps(r) PROVE DecidedInv'
  <2>1. CASE ~DecideSteps(r)
    BY <1>1, <2>1, OtherStep DEF OneInv
  <2>2. CASE DecideSteps(r)
    BY <1>1, <2>2, DecideCheckTold, DecideUpdateTold, DecideFailsTold, DecideAnswerTold,
       DecideTellTold DEF DecideSteps
  <2> QED
    BY <2>1, <2>2
<1>2. ASSUME UNCHANGED applicationVars PROVE DecidedInv'
  <2>1. /\ UNCHANGED <<application, last, untold>>
        /\ \A x, a, s : Updated(x, a, s)' <=> Updated(x, a, s)
        /\ \A x, a, type : Telling(x, a, type)' <=> Telling(x, a, type)
    BY <1>2 DEF applicationVars, database, memory, history, Updated, Telling
  <2> QED
    BY <2>1, ToldSame DEF DecidedInv, Stored
<1>3. CASE Crash
  <2>1. /\ \A r \in Requests : pc'[r] # "updating" /\ open'[r] = {}
        /\ UNCHANGED <<application, last>>
        /\ untold' = untold \cup {a \in Ids : \E r \in Requests : Outstanding(r, a)}
    BY <1>3 DEF Crash, ProcessEnds, database, Ended
  <2>2. /\ \A x \in Requests : \A a, s : ~Updated(x, a, s)'
        /\ \A x \in Requests : \A a, type : ~Telling(x, a, type)'
    BY <2>1 DEF Updated, Telling
  <2>3. \A a \in Ids \ untold' : ToldFact(a)'
    BY <2>1, <2>2, OutstandingIs, ToldSame DEF DecidedInv
  <2> QED
    BY <2>1, <2>3 DEF DecidedInv, Stored
<1> QED
  BY <1>1, <1>2, <1>3, NextSteps DEF Take, Complete, vars

(* When decisions ask for statuses an application can have, what the       *)
(* candidate was last told about it is its status, unless two decisions    *)
(* overlapped or one of them failed or ended with the process.  (For the   *)
(* documented ACCEPTED it is false: a run finds the counterexample.)       *)
THEOREM NoticesMatch ==
  ASSUME Asked \subseteq ApplyJobStatus
  PROVE  Spec => []NoticesMatchDecisions
<1>1. Init => DecidedInv
  <2> SUFFICES ASSUME Init PROVE DecidedInv
    OBVIOUS
  <2>1. PICK c \in Cvs :
          application = [a \in Ids |-> IF a = Old THEN Pending(Applicant, Wanted, c) ELSE None]
    BY DEF Init, ApplicationInit
  <2>2. /\ pc = [r \in Requests |-> "new"] /\ open = [r \in Requests |-> {}]
        /\ last = [a \in Ids |-> None]
    BY DEF Init, ApplicationInit
  <2>3. \A a \in Ids : Stored(a) => application[a].status = "PENDING"
    BY <2>1 DEF Stored, Pending
  <2> QED
    BY <2>2, <2>3 DEF DecidedInv, ToldFact, Updated, Telling, ToldAs
<1>2. Init => OneInv
  BY OneInit
<1>3. TypeInv /\ OneInv /\ DecidedInv /\ [Next]_vars => DecidedInv'
  BY DecidedInvStep
<1>4. DecidedInv => NoticesMatchDecisions
  BY DecidedMatches
<1> QED
  BY <1>1, <1>2, <1>3, <1>4, OneInvStep, TypeInit, TypeInvStep, PTL DEF Spec

-----------------------------------------------------------------------------
(* How expiries are told                                                   *)

LEMMA SliceOrder ==
  ASSUME NEW a \in Nat, NEW c \in Nat, a <= c
  PROVE  a \div BatchSize \in Nat /\ a \div BatchSize <= c \div BatchSize
  BY BatchAssumption

(* A job of the round has its turn in one of the batches.                  *)
LEMMA BatchFacts ==
  ASSUME TypeInv, NEW r \in Requests, NEW j \in held[r].jobs
  PROVE  BatchOf(r, j) \in Nat /\ BatchOf(r, j) <= LastBatch(r) /\ LastBatch(r) \in Nat
<1> DEFINE jobs == held[r].jobs
           before == {i \in jobs : i < j}
<1>1. jobs \subseteq Jobs /\ IsFiniteSet(jobs)
  <2>1. jobs \subseteq Jobs
    BY DEF TypeInv, MemoryOK, HeldRecord
  <2> QED
    BY <2>1, FS_Subset, JobsAssumption
<1>2. /\ IsFiniteSet(jobs \ {j}) /\ Cardinality(jobs \ {j}) = Cardinality(jobs) - 1
  BY <1>1, FS_RemoveElement
<1>3. before \subseteq jobs \ {j}
  <2>1. ASSUME NEW i \in jobs, i < j PROVE i # j
    <3>1. i \in Jobs /\ j \in Jobs
      BY <1>1
    <3>2. Jobs \subseteq Nat
      BY JobsAssumption
    <3>3. i \in Nat /\ j \in Nat
      BY <3>1, <3>2
    <3> QED
      BY <2>1, <3>3
  <2> QED
    BY <2>1
<1>4. IsFiniteSet(before) /\ Cardinality(before) <= Cardinality(jobs) - 1
  BY <1>2, <1>3, FS_Subset
<1>5. Cardinality(before) \in Nat /\ Cardinality(jobs) - 1 \in Nat
  BY <1>2, <1>4, FS_CardinalityType
<1> HIDE DEF before
<1>6. /\ Cardinality(before) \div BatchSize \in Nat
      /\ Cardinality(before) \div BatchSize <= (Cardinality(jobs) - 1) \div BatchSize
      /\ (Cardinality(jobs) - 1) \div BatchSize \in Nat
  BY <1>4, <1>5, SliceOrder
<1> QED
  BY <1>6 DEF BatchOf, Position, LastBatch, before

LEMMA BatchSame ==
  ASSUME NEW r \in Requests, held'[r].jobs = held[r].jobs
  PROVE  (\A j : BatchOf(r, j)' = BatchOf(r, j)) /\ LastBatch(r)' = LastBatch(r)
  BY DEF BatchOf, Position, LastBatch

LEMMA InQueueStep ==
  ASSUME TypeInv, NEW r \in Requests, HandlerStep(r) \/ RoundSteps(r)
  PROVE  /\ Busy' = Busy /\ served' = served /\ queue \subseteq queue' /\ expired \subseteq expired'
         /\ \A m : NoticeOf(m) => NoticeOf(m)'
         /\ ~RoundAddBulk(r) => queue' = queue
<1>1. Busy' = Busy /\ served' = served
  BY HistoryStep DEF Busy
<1>2. queue \subseteq queue' /\ expired \subseteq expired' /\ (~RoundAddBulk(r) => queue' = queue)
  BY DEF HandlerStep, RoundSteps, RoundLoad, RoundMark, RoundTell, RoundAddBulk, RoundNext,
     RoundFails, queueVars
<1>3. \A m : NoticeOf(m) => NoticeOf(m)'
  BY NoticesStep DEF NoticeOf
<1> QED
  BY <1>1, <1>2, <1>3

(* The steps of the other handlers are not about rounds.                   *)
LEMMA HandlerJobs ==
  ASSUME TypeInv, NEW r \in Requests, HandlerStep(r)
  PROVE  held'[r].jobs \in {held[r].jobs, {}}
<1>t. held \in [Requests -> HeldRecord] /\ held[r] \in HeldRecord
  BY DEF TypeInv, MemoryOK
<1> USE <1>t DEF Hold, Release, memory
<1>1. CASE ApplyStart(r)
  BY <1>1 DEF ApplyStart, Nothing
<1>2. CASE ApplyReadCv(r) \/ ApplyReadExisting(r)
  BY <1>2 DEF ApplyReadCv, ApplyReadExisting, HeldRecord
<1>3. CASE ApplySave(r)
  BY <1>3 DEF ApplySave, Nothing
<1>4. CASE DecideCheck(r)
  BY <1>4 DEF DecideCheck, Nothing
<1>5. CASE DecideUpdate(r) \/ DecideTell(r)
  BY <1>5, DecideFrame
<1>6. CASE DecideFails(r) \/ DecideAnswer(r)
  BY <1>6 DEF DecideFails, DecideAnswer
<1>7. CASE CvCheck(r)
  BY <1>7 DEF CvCheck, Nothing
<1>8. CASE UploadCV(r) \/ UpdateCV(r) \/ DeleteUseCheck(r) \/ DeleteCV(r)
  BY <1>8 DEF UploadCV, UpdateCV, DeleteUseCheck, DeleteCV, Nothing
<1>9. CASE MarkLoad(r)
  BY <1>9 DEF MarkLoad, Nothing
<1>10. CASE MarkAsRead(r) \/ MarkAsReadAll(r)
  BY <1>10 DEF MarkAsRead, MarkAsReadAll, Nothing
<1> QED
  BY <1>1, <1>2, <1>3, <1>4, <1>5, <1>6, <1>7, <1>8, <1>9, <1>10
  DEF HandlerStep, ApplySteps, DecideSteps, CvSteps, MarkSteps

LEMMA HandlerPhase ==
  ASSUME TypeInv, NEW r \in Requests, HandlerStep(r)
  PROVE  \/ /\ pc[r] \in Ended /\ pc' = pc /\ held' = held
            /\ Bulk \in open'[r] <=> Bulk \in open[r]
         \/ /\ pc[r] \notin Ended \cup {"telling", "expiring"}
            /\ pc'[r] \notin {"telling", "expiring"} /\ Bulk \notin open'[r]
<1>t. /\ pc \in [Requests -> Labels] /\ open = [x \in Requests |-> open[x]]
      /\ PhaseFact(pc[r], open[r])
  BY DEF TypeInv, MemoryOK, ShapeInv, ShapeFact
<1> USE DEF Goto, Starts, Ends, memory
<1>1. CASE ApplySteps(r)
  <2>1. /\ pc[r] \in {"new", "reading"} /\ pc'[r] \notin {"telling", "expiring"}
        /\ open'[r] \subseteq Reading
    <3>1. CASE ApplyStart(r)
      BY <3>1, <1>t DEF ApplyStart, Reading
    <3>2. CASE ApplyReadCv(r) \/ ApplyReadExisting(r)
      BY <3>2, <1>t DEF ApplyReadCv, ApplyReadExisting, PhaseFact, Reading
    <3>3. CASE ApplySave(r)
      BY <3>3, <1>t DEF ApplySave
    <3> QED
      BY <1>1, <3>1, <3>2, <3>3 DEF ApplySteps
  <2> QED
    BY <2>1, Branches DEF Ended
<1>2. CASE DecideUpdate(r) \/ DecideTell(r)
  <2>1. PICK b \in open[r] : b # Bulk /\ b \notin {Tell(j) : j \in Jobs} /\ b \notin Reading
                             /\ open' = [open EXCEPT ![r] = open[r] \ {b}]
    <3>1. CASE DecideUpdate(r)
      <4>1. PICK s \in {"APPROVED", "DENIED"} :
              Update(s) \in open[r] /\ open' = [open EXCEPT ![r] = open[r] \ {Update(s)}]
        BY <3>1 DEF DecideUpdate
      <4>2. Update(s) \notin {Tell(j) : j \in Jobs}
        BY DEF Update, Tell
      <4> QED
        BY <4>1, <4>2, Branches
    <3>2. CASE DecideTell(r)
      <4>1. PICK type \in Decisions, a \in Ids :
              <<type, a>> \in open[r] /\ open' = [open EXCEPT ![r] = open[r] \ {<<type, a>>}]
        BY <3>2 DEF DecideTell
      <4>2. <<type, a>> \notin {Tell(j) : j \in Jobs}
        BY Branches
      <4> QED
        BY <4>1, <4>2, Branches
    <3> QED
      BY <1>2, <3>1, <3>2
  <2>2. pc' = pc /\ held' = held
    BY <1>2, DecideFrame
  <2>3. pc[r] \in Ended \cup {"updating"}
    BY <1>t, <2>1 DEF PhaseFact, Labels
  <2>4. Bulk \in open'[r] <=> Bulk \in open[r]
    BY <1>t, <2>1
  <2>5. pc[r] = "updating" => Bulk \notin open[r]
    BY <1>t DEF PhaseFact, Ended
  <2> QED
    BY <2>2, <2>3, <2>4, <2>5 DEF Ended
<1>3. CASE DecideCheck(r) \/ DecideFails(r) \/ DecideAnswer(r)
  <2>1. /\ pc[r] \in {"new", "updating"} /\ pc'[r] \notin {"telling", "expiring"}
    BY <1>3, <1>t DEF DecideCheck, DecideFails, DecideAnswer
  <2>2. Bulk \notin open[r]
    BY <1>t, <2>1 DEF PhaseFact, Ended
  <2>3. Bulk \notin open'[r]
    <3>1. CASE DecideCheck(r)
      BY <3>1, <1>t, <2>2, Branches DEF DecideCheck, Updates
    <3>2. CASE DecideFails(r)
      BY <3>2, <1>t, <2>2 DEF DecideFails
    <3>3. CASE DecideAnswer(r)
      BY <3>3, <1>t, Branches DEF DecideAnswer, NoticeType, Decisions
    <3> QED
      BY <1>3, <3>1, <3>2, <3>3
  <2> QED
    BY <2>1, <2>3 DEF Ended
<1>4. CASE CvSteps(r) \/ MarkSteps(r)
  <2>1. /\ pc[r] \in {"new", "updateCv", "deleteCv", "deleting", "marking"}
        /\ pc'[r] \notin {"telling", "expiring"} /\ open' = open
    BY <1>4, <1>t DEF CvSteps, MarkSteps, UploadCV, CvCheck, UpdateCV, DeleteUseCheck, DeleteCV,
       MarkLoad, MarkAsRead, MarkAsReadAll
  <2> QED
    BY <1>t, <2>1 DEF PhaseFact, Ended
<1> QED
  BY <1>1, <1>2, <1>3, <1>4 DEF HandlerStep, DecideSteps

(* A request whose part in the round stays as it was.                      *)
LEMMA RoundKept ==
  ASSUME TypeInv, NEW r \in Requests, HandlerStep(r) \/ RoundSteps(r),
         NEW x \in Requests, RoundFact(x), x # r \/ HandlerStep(r),
         pc'[x] = pc[x], held'[x] = held[x], Bulk \in open'[x] <=> Bulk \in open[x],
         pc[x] # "telling" \/ open'[x] = open[x]
  PROVE  RoundFact(x)'
<1>1. \A j : <<x, j>> \in InQueue' <=> <<x, j>> \in InQueue
  <2>1. CASE HandlerStep(r)
    <3>1. queue' = queue
      BY <2>1 DEF HandlerStep, queueVars
    <3> QED
      BY <3>1, InQueueStep DEF InQueue
  <2>2. CASE x # r /\ RoundAddBulk(r)
    <3>1. \A j : <<x, j>> \in queue' <=> <<x, j>> \in queue
      BY <2>2 DEF RoundAddBulk
    <3> QED
      BY <3>1, InQueueStep DEF InQueue
  <2>3. CASE ~RoundAddBulk(r)
    BY <2>3, InQueueStep DEF InQueue
  <2> QED
    BY <2>1, <2>2, <2>3
<1>2. \A j : Handed(x, j)' <=> Handed(x, j)
  BY BatchSame DEF Handed
<1>3. expired \subseteq expired' /\ \A m : NoticeOf(m) => NoticeOf(m)'
  BY InQueueStep
<1> QED
  BY <1>1, <1>2, <1>3 DEF RoundFact, Marked

LEMMA RoundElsewhere ==
  ASSUME TypeInv, NEW r \in Requests, HandlerStep(r) \/ RoundSteps(r),
         NEW x \in Requests \ {r}, RoundFact(x)
  PROVE  RoundFact(x)'
  BY ShapeElsewhere, RoundKept

(* A request that is in no round.                                          *)
LEMMA NoRound ==
  ASSUME NEW r \in Requests, held'[r].jobs = {}, pc'[r] \notin {"expiring", "telling"},
         \A j \in Jobs : <<r, j>> \notin InQueue'
  PROVE  RoundFact(r)'
  BY DEF RoundFact

LEMMA HandlerRound ==
  ASSUME TypeInv, NEW r \in Requests, HandlerStep(r), RoundFact(r)
  PROVE  RoundFact(r)'
<1>1. CASE pc[r] \in Ended /\ pc' = pc /\ held' = held /\ (Bulk \in open'[r] <=> Bulk \in open[r])
  BY <1>1, RoundKept DEF Ended
<1>2. CASE /\ pc[r] \notin Ended \cup {"telling", "expiring"}
           /\ pc'[r] \notin {"telling", "expiring"} /\ Bulk \notin open'[r]
  <2>1. held[r].jobs = {}
    BY <1>2 DEF TypeInv, ShapeInv, ShapeFact, HeldFact
  <2>2. held'[r].jobs = {}
    BY <2>1, HandlerJobs
  <2>3. \A j \in Jobs : <<r, j>> \notin InQueue
    BY <1>2 DEF RoundFact, Marked
  <2>4. InQueue' = InQueue
    <3>1. queue' = queue
      BY DEF HandlerStep, queueVars
    <3> QED
      BY <3>1, InQueueStep DEF InQueue
  <2> QED
    BY <1>2, <2>2, <2>3, <2>4, NoRound
<1> QED
  BY <1>1, <1>2, HandlerPhase

LEMMA RoundLoadRound ==
  ASSUME TypeInv, NEW r \in Requests, RoundLoad(r), RoundFact(r)
  PROVE  RoundFact(r)'
<1>t. /\ pc \in [Requests -> Labels] /\ held \in [Requests -> HeldRecord]
      /\ PhaseFact(pc[r], open[r])
  BY DEF TypeInv, MemoryOK, ShapeInv, ShapeFact
<1>1. PICK due : held' = [held EXCEPT ![r] = [Nothing EXCEPT !.jobs = due]]
  BY DEF RoundLoad, Hold
<1>2. held'[r].jobs = due /\ held'[r].batch = 0
  BY <1>1, <1>t DEF Nothing
<1>3. /\ pc[r] = "new" /\ pc'[r] = IF held'[r].jobs = {} THEN "done" ELSE "expiring"
      /\ open' = open /\ UNCHANGED <<expired, queueVars, notices>>
  BY <1>t DEF RoundLoad, Starts, Goto, database
<1>4. Bulk \notin open'[r]
  BY <1>3, <1>t DEF PhaseFact
<1>5. \A j \in Jobs : <<r, j>> \notin InQueue
  BY <1>3 DEF RoundFact, Marked, Ended
<1>6. InQueue' = InQueue
  BY <1>3 DEF InQueue, Busy, queueVars
<1> QED
  BY <1>2, <1>3, <1>4, <1>5, <1>6 DEF RoundFact

LEMMA RoundMarkRound ==
  ASSUME TypeInv, NEW r \in Requests, RoundMark(r), RoundFact(r)
  PROVE  RoundFact(r)'
<1>t. /\ pc \in [Requests -> Labels] /\ open = [x \in Requests |-> open[x]]
      /\ PhaseFact(pc[r], open[r]) /\ held[r].jobs \subseteq Jobs
  BY DEF TypeInv, MemoryOK, ShapeInv, ShapeFact, HeldRecord
<1>1. /\ pc[r] = "expiring" /\ held' = held /\ open[r] = {}
      /\ expired' = expired \cup held[r].jobs
      /\ UNCHANGED queueVars
  BY <1>t DEF RoundMark, PhaseFact
<1>2. \/ pc'[r] = "failed" /\ open'[r] = {}
      \/ pc'[r] = "telling" /\ open'[r] = {Bulk} \cup {Tell(j) : j \in held[r].jobs}
  BY <1>t, <1>1 DEF RoundMark, Goto
<1>3. \A j \in Jobs : <<r, j>> \notin InQueue'
  <2>1. InQueue' = InQueue
    BY <1>1 DEF InQueue, Busy, queueVars
  <2> QED
    BY <1>1, <2>1 DEF RoundFact, Marked, Ended
<1>4. \A j \in held[r].jobs : pc'[r] = "telling" => ~Handed(r, j)'
  <2>1. held[r].batch = 0
    BY <1>1 DEF RoundFact
  <2>2. \A j \in held[r].jobs : BatchOf(r, j) \in Nat /\ BatchOf(r, j)' = BatchOf(r, j)
    BY <1>1, BatchFacts, BatchSame
  <2> QED
    BY <1>1, <1>2, <2>1, <2>2 DEF Handed
<1> QED
  BY <1>1, <1>2, <1>3, <1>4 DEF RoundFact

LEMMA RoundTellRound ==
  ASSUME TypeInv, NEW r \in Requests, RoundTell(r), RoundFact(r)
  PROVE  RoundFact(r)'
<1>t. open = [x \in Requests |-> open[x]]
  BY DEF TypeInv, MemoryOK
<1>1. PICK j \in Jobs : /\ Tell(j) \in open[r]
                        /\ open' = [open EXCEPT ![r] = open[r] \ {Tell(j)}]
                        /\ notices' = notices \cup {[by |-> r, about |-> j, type |-> "job_expired",
                                                     to |-> Employer[j]]}
                        /\ UNCHANGED <<pc, held, expired, queueVars>>
  BY DEF RoundTell, Ends
<1>2. NoticeOf(<<r, j>>)'
  <2> DEFINE notice == [by |-> r, about |-> j, type |-> "job_expired", to |-> Employer[j]]
  <2>1. notice \in notices'
    BY <1>1
  <2>2. notice.by = r /\ notice.about = j /\ notice.type = "job_expired"
    OBVIOUS
  <2>3. <<r, j>>[1] = r /\ <<r, j>>[2] = j
    OBVIOUS
  <2> HIDE DEF notice
  <2> QED
    BY <2>1, <2>2, <2>3 DEF NoticeOf
<1>3. \A m : NoticeOf(m) => NoticeOf(m)'
  BY <1>1 DEF NoticeOf
<1>4. \A i \in held[r].jobs : Tell(i) \notin open'[r] => Tell(i) \notin open[r] \/ i = j
  BY <1>1, <1>t DEF Tell
<1>5. Bulk \in open'[r] <=> Bulk \in open[r]
  BY <1>1, <1>t, Branches
<1>6. \A i : Handed(r, i)' <=> Handed(r, i)
  BY <1>1, <1>5, BatchSame DEF Handed
<1>7. InQueue' = InQueue
  BY <1>1 DEF InQueue, Busy, queueVars
<1> QED
  BY <1>1, <1>2, <1>3, <1>4, <1>5, <1>6, <1>7 DEF RoundFact, Marked

LEMMA RoundAddBulkRound ==
  ASSUME TypeInv, NEW r \in Requests, RoundAddBulk(r), RoundFact(r)
  PROVE  RoundFact(r)'
<1>t. /\ open = [x \in Requests |-> open[x]] /\ PhaseFact(pc[r], open[r])
      /\ held[r].batch \in Nat
  BY DEF TypeInv, MemoryOK, ShapeInv, ShapeFact, HeldRecord
<1> DEFINE slice == {x \in held[r].jobs : BatchOf(r, x) = held[r].batch}
<1>1. /\ Bulk \in open[r] /\ open' = [open EXCEPT ![r] = open[r] \ {Bulk}]
      /\ queue' = queue \cup {<<r, j>> : j \in slice}
      /\ UNCHANGED <<pc, held, expired, active, served, notices>>
  BY DEF RoundAddBulk, Ends, database
<1>2. Bulk \notin open'[r] /\ \A j : Tell(j) \in open'[r] <=> Tell(j) \in open[r]
  BY <1>1, <1>t, Branches
<1>3. Marked(r)' /\ (pc[r] = "expiring" => held[r].batch = 0)
  BY <1>1, <1>t DEF Marked, PhaseFact, RoundFact
<1>4. \A j : <<r, j>> \in InQueue' <=> <<r, j>> \in InQueue \/ j \in slice
  BY <1>1 DEF InQueue, Busy
<1>5. \A j : Handed(r, j)' <=> j \in held[r].jobs /\ BatchOf(r, j) <= held[r].batch
  BY <1>1, <1>2, BatchSame DEF Handed
<1>6. \A j : Handed(r, j)' <=> Handed(r, j) \/ j \in slice
  <2>1. \A j \in held[r].jobs : BatchOf(r, j) \in Nat
    BY BatchFacts
  <2> QED
    BY <1>1, <1>t, <1>5, <2>1 DEF Handed
<1> HIDE DEF slice
<1>7. \A j \in held[r].jobs : NoticeOf(<<r, j>>)' <=> NoticeOf(<<r, j>>)
  BY <1>1 DEF NoticeOf
<1> QED
  BY <1>1, <1>2, <1>3, <1>4, <1>6, <1>7 DEF RoundFact, Marked

LEMMA RoundNextRound ==
  ASSUME TypeInv, NEW r \in Requests, RoundNext(r), RoundFact(r)
  PROVE  RoundFact(r)'
<1>t. /\ pc \in [Requests -> Labels] /\ held \in [Requests -> HeldRecord] /\ held[r] \in HeldRecord
      /\ open = [x \in Requests |-> open[x]] /\ held[r].batch \in Nat /\ held[r].jobs \subseteq Jobs
  BY DEF TypeInv, MemoryOK, HeldRecord
<1>1. /\ pc[r] = "telling" /\ Bulk \notin open[r]
      /\ \A j \in held[r].jobs : BatchOf(r, j) <= held[r].batch => Tell(j) \notin open[r]
      /\ UNCHANGED <<notices, expired, queueVars>>
  BY DEF RoundNext, database
<1>2. InQueue' = InQueue /\ \A m : NoticeOf(m)' <=> NoticeOf(m)
  BY <1>1 DEF InQueue, Busy, NoticeOf, queueVars
<1>3. \A j \in held[r].jobs : BatchOf(r, j) \in Nat /\ BatchOf(r, j) <= LastBatch(r)
  BY BatchFacts
<1>4. CASE held[r].batch = LastBatch(r) /\ pc'[r] = "done" /\ UNCHANGED <<open, held>>
  <2>1. \A j \in held[r].jobs : NoticeOf(<<r, j>>) /\ <<r, j>> \in InQueue
    BY <1>1, <1>3, <1>4 DEF RoundFact, Handed
  <2>2. \A j : Handed(r, j)' <=> Handed(r, j)
    BY <1>4, BatchSame DEF Handed
  <2> QED
    BY <1>1, <1>2, <1>4, <2>1, <2>2 DEF RoundFact, Marked, Ended
<1>5. CASE /\ held' = [held EXCEPT ![r] = [held[r] EXCEPT !.batch = held[r].batch + 1]]
           /\ open' = [open EXCEPT ![r] = open[r] \cup {Bulk}] /\ pc' = pc
  <2>1. held'[r].jobs = held[r].jobs /\ held'[r].batch = held[r].batch + 1
    BY <1>5, <1>t DEF HeldRecord
  <2>2. Bulk \in open'[r] /\ \A j : Tell(j) \in open'[r] <=> Tell(j) \in open[r]
    BY <1>5, <1>t, Branches
  <2>3. \A j : BatchOf(r, j)' = BatchOf(r, j)
    BY <2>1, BatchSame
  <2>4. \A j : Handed(r, j)' <=> Handed(r, j)
    BY <1>1, <1>3, <1>t, <2>1, <2>2, <2>3 DEF Handed
  <2> QED
    BY <1>1, <1>2, <1>5, <2>1, <2>2, <2>4 DEF RoundFact, Marked
<1> QED
  BY <1>4, <1>5, <1>t DEF RoundNext, Goto, Hold

LEMMA RoundFailsRound ==
  ASSUME TypeInv, NEW r \in Requests, RoundFails(r), RoundFact(r)
  PROVE  RoundFact(r)'
<1>t. /\ pc \in [Requests -> Labels] /\ open = [x \in Requests |-> open[x]]
  BY DEF TypeInv, MemoryOK
<1>1. /\ pc[r] = "telling" /\ pc'[r] = "failed" /\ open'[r] \subseteq open[r]
      /\ UNCHANGED <<held, expired, queueVars>>
  BY <1>t DEF RoundFails, Goto, Ends
<1>2. InQueue' = InQueue
  BY <1>1 DEF InQueue, Busy, queueVars
<1>3. \A j : Handed(r, j) => Handed(r, j)'
  BY <1>1, BatchSame DEF Handed
<1> QED
  BY <1>1, <1>2, <1>3 DEF RoundFact, Marked, Ended

LEMMA RoundInvStep ==
  ASSUME TypeInv, NEW r \in Requests, HandlerStep(r) \/ RoundSteps(r),
         \A x \in Requests : RoundFact(x)
  PROVE  \A x \in Requests : RoundFact(x)'
<1>1. RoundFact(r)'
  BY HandlerRound, RoundLoadRound, RoundMarkRound, RoundTellRound, RoundAddBulkRound,
     RoundNextRound, RoundFailsRound DEF RoundSteps
<1> QED
  BY <1>1, RoundElsewhere

(* The queue, through the steps of a request.                              *)
LEMMA QueueStep ==
  ASSUME TypeInv, ToldInv, NEW r \in Requests, HandlerStep(r) \/ RoundSteps(r)
  PROVE  QueueFact'
<1>1. /\ Busy' = Busy /\ UNCHANGED <<served, active, mailed, twice, stalled>>
      /\ expired \subseteq expired'
  BY HistoryStep, InQueueStep
<1>2. CASE ~RoundAddBulk(r)
  <2>1. queue' = queue
    BY <1>2, InQueueStep
  <2> QED
    BY <1>1, <2>1 DEF ToldInv, QueueFact, InQueue
<1>3. CASE RoundAddBulk(r)
  <2> DEFINE fresh == {<<r, j>> : j \in {x \in held[r].jobs : BatchOf(r, x) = held[r].batch}}
  <2>1. queue' = queue \cup fresh /\ Bulk \in open[r]
    BY <1>3 DEF RoundAddBulk
  <2>2. held[r].jobs \subseteq Jobs /\ held[r].jobs \subseteq expired
    BY <2>1 DEF TypeInv, MemoryOK, HeldRecord, ToldInv, RoundFact
  <2>3. \A m \in fresh : m \notin InQueue /\ m[2] \in expired
    BY <2>1, <2>2 DEF ToldInv, RoundFact, Handed
  <2> HIDE DEF fresh
  <2> QED
    BY <1>1, <2>1, <2>3 DEF ToldInv, QueueFact, InQueue
<1> QED
  BY <1>2, <1>3

(* A round is the same to those who see the same memory and messages.      *)
LEMMA RoundSame ==
  ASSUME UNCHANGED <<pc, held, open, notices, expired>>, InQueue' = InQueue,
         NEW r \in Requests, RoundFact(r)
  PROVE  RoundFact(r)'
<1>1. (\A j : Handed(r, j)' <=> Handed(r, j)) /\ \A m : NoticeOf(m)' <=> NoticeOf(m)
  BY BatchSame DEF Handed, NoticeOf
<1> QED
  BY <1>1 DEF RoundFact, Marked

LEMMA TakeTold ==
  ASSUME TypeInv, ToldInv, NEW p \in Processors, Take(p)
  PROVE  ToldInv'
<1>t. active \in [Processors -> Messages \cup {None}] /\ queue \subseteq Messages
  BY DEF TypeInv, RowsOK, TypeOK
<1>1. PICK m \in queue : queue' = queue \ {m} /\ active' = [active EXCEPT ![p] = m]
  BY DEF Take
<1>2. /\ active[p] = None /\ m # None
      /\ UNCHANGED <<pc, held, open, notices, expired, mailed, twice, served, stalled>>
  BY <1>1, <1>t, MessagesAssumption DEF Take, applicationVars, database, memory
<1>3. Busy' = Busy \cup {m} /\ m \notin Busy
  <2>1. Busy' = Busy \cup {m}
    BY <1>1, <1>2, <1>t DEF Busy
  <2> QED
    BY <1>1, <2>1 DEF ToldInv, QueueFact
<1>4. InQueue' = InQueue /\ queue' \cup Busy' = queue \cup Busy /\ queue' \cap Busy' = {}
  BY <1>1, <1>2, <1>3 DEF ToldInv, QueueFact, InQueue
<1>5. \A x \in Processors : active[x] = m => FALSE
  BY <1>2, <1>3 DEF Busy
<1>6. \A x, q \in Processors : active'[x] = active'[q] /\ active'[x] # None => x = q
  BY <1>1, <1>t, <1>5 DEF ToldInv, QueueFact
<1>7. QueueFact'
  BY <1>2, <1>4, <1>6 DEF ToldInv, QueueFact
<1> QED
  BY <1>2, <1>4, <1>7, RoundSame DEF ToldInv

LEMMA CompleteTold ==
  ASSUME TypeInv, ToldInv, NEW p \in Processors, Complete(p)
  PROVE  ToldInv'
<1>t. active \in [Processors -> Messages \cup {None}]
  BY DEF TypeInv, RowsOK
<1> DEFINE m == active[p]
<1>1. /\ m # None /\ m \in Busy /\ active' = [active EXCEPT ![p] = None]
      /\ mailed' = mailed \cup {m} /\ twice' = twice \cup ({m} \cap mailed)
      /\ served' = served \cup {m}
      /\ UNCHANGED <<pc, held, open, notices, expired, queue, stalled>>
  BY DEF Complete, Mails, Busy, applicationVars, database, memory
<1>2. \A q \in Processors \ {p} : active[q] # m
  BY <1>1 DEF ToldInv, QueueFact
<1>3. Busy' = Busy \ {m}
  BY <1>1, <1>2, <1>t DEF Busy
<1> HIDE DEF m
<1>4. m \notin queue /\ InQueue' = InQueue
  BY <1>1, <1>3 DEF ToldInv, QueueFact, InQueue
<1>5. \A x, q \in Processors : active'[x] = active'[q] /\ active'[x] # None => x = q
  BY <1>1, <1>t DEF ToldInv, QueueFact
<1>6. queue' \cap Busy' = {} /\ (queue' \cup Busy') \cap served' = {}
  BY <1>1, <1>3, <1>4 DEF ToldInv, QueueFact
<1>7. twice' \cup (mailed' \cap (queue' \cup Busy')) \subseteq stalled'
  BY <1>1, <1>3, <1>4 DEF ToldInv, QueueFact
<1>8. mailed' \subseteq InQueue' /\ \A x \in InQueue' : x[2] \in expired'
  BY <1>1, <1>4 DEF ToldInv, QueueFact, InQueue
<1>9. QueueFact'
  BY <1>5, <1>6, <1>7, <1>8 DEF QueueFact
<1> QED
  BY <1>1, <1>4, <1>9, RoundSame DEF ToldInv

LEMMA CrashTold ==
  ASSUME TypeInv, ToldInv, Crash
  PROVE  ToldInv'
<1>1. /\ pc' = [r \in Requests |-> IF pc[r] \in Ended \cup {"new"} THEN pc[r] ELSE "dead"]
      /\ open' = [r \in Requests |-> {}]
      /\ UNCHANGED <<held, notices, expired, served>>
      /\ queue' = queue \cup Busy /\ active' = [p \in Processors |-> None]
      /\ stalled' = stalled \cup Busy
  BY DEF Crash, ProcessEnds, database
<1>2. PICK messages \in SUBSET Busy :
        mailed' = mailed \cup messages /\ twice' = twice \cup (messages \cap mailed)
  BY DEF Crash, Mails
<1>3. Busy' = {}
  BY <1>1 DEF Busy
<1>4. InQueue' = InQueue
  BY <1>1, <1>3 DEF InQueue
<1>5. QueueFact'
  <2>1. mailed' \subseteq InQueue'
    BY <1>2, <1>4 DEF ToldInv, QueueFact, InQueue
  <2>2. twice' \cup (mailed' \cap (queue' \cup Busy')) \subseteq stalled'
    BY <1>1, <1>2, <1>3 DEF ToldInv, QueueFact
  <2>3. queue' \cap Busy' = {} /\ (queue' \cup Busy') \cap served' = {}
    BY <1>1, <1>3 DEF ToldInv, QueueFact
  <2> QED
    BY <1>1, <1>4, <2>1, <2>2, <2>3 DEF ToldInv, QueueFact
<1>6. ASSUME NEW r \in Requests PROVE RoundFact(r)'
  <2>1. RoundFact(r) /\ open'[r] = {} /\ held'[r] = held[r]
    BY <1>1 DEF ToldInv
  <2>2. /\ pc'[r] \notin {"expiring", "telling"} /\ (pc'[r] = "done" => pc[r] = "done")
        /\ Marked(r) => Marked(r)'
    BY <1>1 DEF Ended, Marked
  <2>3. \A j : Handed(r, j) => Handed(r, j)'
    BY <2>1, BatchSame DEF Handed
  <2>4. \A m : NoticeOf(m)' <=> NoticeOf(m)
    BY <1>1 DEF NoticeOf
  <2> QED
    BY <1>4, <2>1, <2>2, <2>3, <2>4 DEF RoundFact
<1> QED
  BY <1>5, <1>6 DEF ToldInv

LEMMA ToldInit == Init => ToldInv
<1> SUFFICES ASSUME Init PROVE ToldInv
  OBVIOUS
<1>1. /\ pc = [r \in Requests |-> "new"] /\ open = [r \in Requests |-> {}]
      /\ queue = {} /\ active = [p \in Processors |-> None]
      /\ mailed = {} /\ twice = {} /\ served = {} /\ stalled = {}
  BY DEF Init, ApplicationInit
<1>2. Busy = {} /\ InQueue = {}
  BY <1>1 DEF Busy, InQueue
<1> QED
  BY <1>1, <1>2 DEF ToldInv, QueueFact, RoundFact

LEMMA ToldInvStep == TypeInv /\ ToldInv /\ [Next]_vars => ToldInv'
<1> SUFFICES ASSUME TypeInv, ToldInv, [Next]_vars PROVE ToldInv'
  OBVIOUS
<1>1. ASSUME NEW r \in Requests, HandlerStep(r) \/ RoundSteps(r) PROVE ToldInv'
  BY <1>1, RoundInvStep, QueueStep DEF ToldInv
<1>2. CASE UNCHANGED vars
  <2>1. /\ InQueue' = InQueue /\ Busy' = Busy
        /\ UNCHANGED <<pc, held, open, notices, expired>>
    BY <1>2 DEF vars, queueVars, applicationVars, memory, database, InQueue, Busy
  <2>2. QueueFact'
    BY <1>2, <2>1 DEF ToldInv, QueueFact, vars, queueVars
  <2> QED
    BY <2>1, <2>2, RoundSame DEF ToldInv
<1> QED
  BY <1>1, <1>2, NextSteps, TakeTold, CompleteTold, CrashTold

(* A round that ends well has left a notice and exactly one message for    *)
(* every job it marked, for every size of a batch; a message is about an   *)
(* expired job and is mailed a second time only when a worker stalled.     *)
THEOREM ExpiryIsTold == Spec => []ExpiryTold
<1>1. TypeInv /\ ToldInv => ExpiryTold
  BY DEF ToldInv, QueueFact, RoundFact, ExpiryTold, InQueue
<1> QED
  BY <1>1, ToldInit, ToldInvStep, TypeInit, TypeInvStep, PTL DEF Spec
=============================================================================
