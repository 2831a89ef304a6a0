---------------------------- MODULE Applications ----------------------------
(***************************************************************************)
(* Applications of candidates for jobs, the CVs they name and the          *)
(* notifications that tell their outcome: ApplyJobService, CvService and   *)
(* NotificationService.                                                    *)
(*                                                                         *)
(* Applications are never deleted, and a job that has some cannot be; the  *)
(* jobs and the profiles are constant here.  An application, like a        *)
(* notification, is named by the request that inserted it, Old for the     *)
(* application there is at the start.                                      *)
(***************************************************************************)
EXTENDS Naturals, FiniteSets

CONSTANTS
    Requests, Old, None,
    Jobs,         \* a range 1..N: the order the cron reads them in
    Profiles, Cvs,
    Employer,     \* [Jobs -> the profile whose enterprise posted the job]
    Applicant, Wanted,  \* profile and job of the application Old
    Asked,        \* statuses a decision may ask for
    Mixes,        \* sets of handlers: the requests of a behaviour choose from one
    MaxItems,     \* bound on the items of a decision
    MaxFaults     \* bound on failed statements and crashes

ASSUME IdsAssumption == Old \notin Requests /\ None \notin Requests \cup Profiles
ASSUME JobsAssumption == Jobs \subseteq Nat /\ IsFiniteSet(Jobs) /\ Employer \in [Jobs -> Profiles]
ASSUME OldAssumption == Applicant \in Profiles /\ Wanted \in Jobs /\ Employer[Wanted] # Applicant
ASSUME BoundsAssumption == MaxItems \in Nat /\ MaxFaults \in Nat

VARIABLES
    \* ---- database
    application, \* [Ids -> the row, or None]
    cv,          \* [Cvs -> the row, or None]
    notices,     \* rows of "notifications"
    unread,      \* those with isRead false
    \* ---- handlers in memory
    pc,          \* [Requests -> label of the next step]
    held,        \* [Requests -> what a handler holds]
    open,        \* [Requests -> branches it started and has not seen end]
    faults,
    mix,         \* the member of Mixes
    \* ---- history variables, read by the properties only
    missed,      \* [Requests -> applications stored since it looked for one]
    last,        \* [Ids -> type of the last notice about it, or None]
    untold       \* applications whose last decision clashed or was cut short

database == <<application, cv, notices, unread>>
memory == <<pc, held, open>>
bounds == <<faults, mix>>
history == <<missed, last, untold>>
applicationVars == <<database, memory, bounds, history>>

-----------------------------------------------------------------------------
Ids == Requests \cup {Old}
ApplyJobStatus == {"PENDING", "APPROVED", "DENIED"}
NotificationType == {"application_accepted", "application_rejected", "job_expired"}

Row == [profile : Profiles, job : Jobs, cv : Cvs, status : ApplyJobStatus]
CvRow == [owner : Profiles, published : BOOLEAN]
Notice == [by : Requests, about : Ids \cup Jobs, type : NotificationType, to : Profiles]

ASSUME RowsAssumption == None \notin Row /\ None \notin CvRow

Items == Ids \X Asked
Nothing == [profile |-> None, job |-> None, cv |-> None, refused |-> FALSE,
            items |-> {}, notices |-> {}, jobs |-> {}, batch |-> 0]

Ended == {"done", "rejected", "failed", "dead"}
Goto(r, label) == pc' = [pc EXCEPT ![r] = label]
Starts(r, kind) == kind \in mix /\ pc[r] = "new"
Hold(r, h) == held' = [held EXCEPT ![r] = h]
Release(r) == Hold(r, Nothing)
Ends(r, branch) == open' = [open EXCEPT ![r] = @ \ {branch}]
Fault == faults < MaxFaults /\ faults' = faults + 1 /\ mix' = mix

Stored(a) == application[a] # None
Owns(p, c) == cv[c] # None /\ cv[c].owner = p
Applied(p, j) == \E a \in Ids : Stored(a) /\ application[a].profile = p /\ application[a].job = j
InUse(c) == \E a \in Ids : Stored(a) /\ application[a].cv = c

MutPending(p, j, c) == [profile |-> p, job |-> j, cv |-> None, status |-> "PENDING"]
Pending(p, j, c) == [profile |-> p, job |-> j, cv |-> c, status |-> "PENDING"]

ApplicationInit ==
    \E c \in Cvs :
       /\ application = [a \in Ids |-> IF a = Old THEN Pending(Applicant, Wanted, c) ELSE None]
       /\ cv = [x \in Cvs |-> IF x = c THEN [owner |-> Applicant, published |-> FALSE] ELSE None]
       /\ notices = {} /\ unread = {}
       /\ pc = [r \in Requests |-> "new"]
       /\ held = [r \in Requests |-> Nothing]
       /\ open = [r \in Requests |-> {}]
       /\ faults = 0 /\ mix \in Mixes
       /\ missed = [r \in Requests |-> {}]
       /\ last = [a \in Ids |-> None]
       /\ untold = {}

-----------------------------------------------------------------------------
(* ApplyJobService.applyJob.  Its four reads run together; the job and the *)
(* profile are there, the other two may end in either order.               *)
ApplyStart(r) ==
    /\ Starts(r, "apply")
    /\ \E p \in Profiles, j \in Jobs, c \in Cvs :
          Hold(r, [Nothing EXCEPT !.profile = p, !.job = j, !.cv = c,
                                  !.refused = (Employer[j] = p)])
    /\ open' = [open EXCEPT ![r] = {<<"cv", None>>, <<"existing", None>>}]
    /\ Goto(r, "reading")
    /\ UNCHANGED <<database, bounds, history>>

ApplyReadCv(r) ==
    /\ <<"cv", None>> \in open[r]
    /\ Ends(r, <<"cv", None>>)
    /\ Hold(r, [held[r] EXCEPT !.refused = @ \/ cv[held[r].cv] = None])
    /\ UNCHANGED <<database, pc, bounds, history>>

MutAlreadyApplied(p, j, c) ==
    \E a \in Ids : Stored(a) /\ application[a].profile = p /\ application[a].job = j
                   /\ application[a].cv = c
AlreadyApplied(p, j, c) == Applied(p, j)

ApplyReadExisting(r) ==
    /\ <<"existing", None>> \in open[r]
    /\ Ends(r, <<"existing", None>>)
    /\ Hold(r, [held[r] EXCEPT !.refused =
                   @ \/ AlreadyApplied(held[r].profile, held[r].job, held[r].cv)])
    /\ missed' = [missed EXCEPT ![r] = {}]
    /\ UNCHANGED <<database, pc, bounds, last, untold>>

(* The INSERT; the table has no unique key but its id, and cv_id must name *)
(* a row.                                                                  *)
ApplySave(r) ==
    /\ pc[r] = "reading" /\ open[r] = {}
    /\ \/ held[r].refused /\ Goto(r, "rejected") /\ UNCHANGED <<application, missed>>
       \/ /\ ~held[r].refused /\ cv[held[r].cv] = None
          /\ Goto(r, "failed") /\ UNCHANGED <<application, missed>>
       \/ /\ ~held[r].refused /\ cv[held[r].cv] # None
          /\ application' = [application EXCEPT ![r] =
                                Pending(held[r].profile, held[r].job, held[r].cv)]
          /\ missed' = [x \in Requests |->
                           IF pc[x] = "reading" THEN missed[x] \cup {r} ELSE missed[x]]
          /\ Goto(r, "done")
    /\ Release(r)
    /\ UNCHANGED <<cv, notices, unread, open, bounds, last, untold>>

-----------------------------------------------------------------------------
(* ApplyJobService.updateApplicationStatus: items name stored applications.*)

(* One application of the caller's enterprise is enough.                   *)
MayDecide(items, e) == \E i \in items : Employer[application[i[1]].job] = e

Approved(items) == {i[1] : i \in {x \in items : x[2] = "APPROVED"}}
Denied(items) == {i[1] : i \in {x \in items : x[2] = "DENIED"}}

Targets(items, status) == IF status = "APPROVED" THEN Approved(items) ELSE Denied(items)
Update(status) == <<status, None>>
MutUpdates(items) == IF Denied(items) # {} THEN {Update("DENIED")} ELSE {Update("APPROVED")}
Updates(items) == {Update(s) : s \in {x \in {"APPROVED", "DENIED"} : Targets(items, x) # {}}}

DecideCheck(r) ==
    /\ Starts(r, "decide")
    /\ \E items \in SUBSET {i \in Items : Stored(i[1])}, e \in Profiles :
          /\ items # {} /\ Cardinality(items) <= MaxItems
          /\ \/ /\ MayDecide(items, e) /\ ~\E i \in items : i[2] = "PENDING"
                /\ Hold(r, [Nothing EXCEPT !.items = items])
                /\ open' = [open EXCEPT ![r] = Updates(items)]
                /\ Goto(r, "updating")
             \/ /\ ~MayDecide(items, e) \/ \E i \in items : i[2] = "PENDING"
                /\ Goto(r, "rejected") /\ UNCHANGED <<held, open>>
    /\ UNCHANGED <<database, bounds, history>>

Decisions == {"application_accepted", "application_rejected"}

(* Whoever has updated the application and has not told its outcome yet.   *)
Outstanding(r, a) ==
    \/ /\ pc[r] = "updating"
       /\ \E s \in {"APPROVED", "DENIED"} :
             a \in Targets(held[r].items, s) /\ Update(s) \notin open[r]
    \/ \E type \in Decisions : <<type, a>> \in open[r]

(* The status is set whatever it was.                                      *)
DecideUpdate(r) ==
    \E status \in {"APPROVED", "DENIED"} :
       LET targets == Targets(held[r].items, status)
       IN  /\ Update(status) \in open[r]
           /\ Ends(r, Update(status))
           /\ application' = [a \in Ids |-> IF a \in targets
                                           THEN [application[a] EXCEPT !.status = status]
                                           ELSE application[a]]
           /\ untold' = (untold \ targets)
                        \cup {a \in targets : pc[r] # "updating"
                                              \/ \E x \in Requests : Outstanding(x, a)}
           /\ UNCHANGED <<cv, notices, unread, pc, held, bounds, missed, last>>

(* One of the two statements fails, and the other one goes on; or one of   *)
(* the reads that follow both.                                             *)
DecideFails(r) ==
    /\ pc[r] = "updating"
    /\ (open[r] = {} /\ UNCHANGED open) \/ \E b \in open[r] : Ends(r, b)
    /\ Goto(r, "failed")
    /\ untold' = untold \cup {a \in Ids : Outstanding(r, a)}
    /\ Fault
    /\ UNCHANGED <<database, held, missed, last>>

NoticeType(status) ==
    IF status = "APPROVED" THEN "application_accepted" ELSE "application_rejected"

(* The accounts are read and the answer is given; one branch per item.     *)
DecideAnswer(r) ==
    /\ pc[r] = "updating" /\ open[r] = {}
    /\ open' = [open EXCEPT ![r] = {<<NoticeType(i[2]), i[1]>> : i \in held[r].items}]
    /\ Goto(r, "done")
    /\ UNCHANGED <<database, held, bounds, history>>

(* createNotificationApplication; the mail and the push message that       *)
(* follow keep no state.                                                   *)
DecideTell(r) ==
    \E type \in Decisions, a \in Ids :
       LET notice == [by |-> r, about |-> a, type |-> type, to |-> application[a].profile]
       IN  /\ <<type, a>> \in open[r]
           /\ Ends(r, <<type, a>>)
           /\ notices' = notices \cup {notice}
           /\ unread' = unread \cup {notice}
           /\ last' = [last EXCEPT ![a] = type]
           /\ UNCHANGED <<application, cv, pc, held, bounds, missed, untold>>

-----------------------------------------------------------------------------
(* CvService.                                                              *)

UploadCV(r) ==
    /\ Starts(r, "uploadCv")
    /\ \E c \in Cvs, p \in Profiles, published \in BOOLEAN :
          /\ cv[c] = None
          /\ cv' = [cv EXCEPT ![c] = [owner |-> p, published |-> published]]
    /\ Goto(r, "done")
    /\ UNCHANGED <<application, notices, unread, held, open, bounds, history>>

(* updateCV and deleteCV begin with the same question.                     *)
CvCheck(r) ==
    \E kind \in {"updateCv", "deleteCv"}, c \in Cvs, p \in Profiles :
       /\ Starts(r, kind)
       /\ \/ Owns(p, c) /\ Goto(r, kind) /\ Hold(r, [Nothing EXCEPT !.cv = c, !.profile = p])
          \/ ~Owns(p, c) /\ Goto(r, "rejected") /\ UNCHANGED held
       /\ UNCHANGED <<database, open, bounds, history>>

UpdateCV(r) ==
    /\ pc[r] = "updateCv"
    /\ \E published \in BOOLEAN :
          cv' = [cv EXCEPT ![held[r].cv] =
                    IF Owns(held[r].profile, held[r].cv) THEN [@ EXCEPT !.published = published] ELSE @]
    /\ Goto(r, "done") /\ Release(r)
    /\ UNCHANGED <<application, notices, unread, open, bounds, history>>

DeleteUseCheck(r) ==
    /\ pc[r] = "deleteCv"
    /\ \/ InUse(held[r].cv) /\ Goto(r, "rejected") /\ Release(r)
       \/ ~InUse(held[r].cv) /\ Goto(r, "deleting") /\ UNCHANGED held
    /\ UNCHANGED <<database, open, bounds, history>>

(* The foreign key of an application stored in between refuses the DELETE. *)
DeleteCV(r) ==
    /\ pc[r] = "deleting" /\ Release(r)
    /\ \/ InUse(held[r].cv) /\ Goto(r, "failed") /\ UNCHANGED cv
       \/ /\ ~InUse(held[r].cv)
          /\ cv' = [cv EXCEPT ![held[r].cv] =
                       IF Owns(held[r].profile, held[r].cv) THEN None ELSE @]
          /\ Goto(r, "done")
    /\ UNCHANGED <<application, notices, unread, open, bounds, history>>

-----------------------------------------------------------------------------
(* NotificationService: reading marks.                                     *)

NoticesOf(p) == {n \in notices : n.to = p}

MarkLoad(r) ==
    /\ Starts(r, "markRead")
    /\ \E p \in Profiles : \E chosen \in (SUBSET NoticesOf(p)) \ {{}} :
          Hold(r, [Nothing EXCEPT !.notices = chosen])
    /\ Goto(r, "marking")
    /\ UNCHANGED <<database, open, bounds, history>>

MarkAsRead(r) ==
    /\ pc[r] = "marking"
    /\ unread' = unread \ held[r].notices
    /\ Goto(r, "done") /\ Release(r)
    /\ UNCHANGED <<application, cv, notices, open, bounds, history>>

MarkAsReadAll(r) ==
    /\ Starts(r, "markAll")
    /\ \E p \in Profiles : unread' = unread \ NoticesOf(p)
    /\ Goto(r, "done")
    /\ UNCHANGED <<application, cv, notices, held, open, bounds, history>>

-----------------------------------------------------------------------------
(* The process is killed, or ends because a branch nobody awaits, such as  *)
(* an INSERT of DecideTell, is rejected; it starts again with an empty     *)
(* memory.                                                                 *)
ProcessEnds ==
    /\ pc' = [r \in Requests |-> IF pc[r] \in Ended \cup {"new"} THEN pc[r] ELSE "dead"]
    /\ open' = [r \in Requests |-> {}]
    /\ untold' = untold \cup {a \in Ids : \E r \in Requests : Outstanding(r, a)}
    /\ Fault
    /\ UNCHANGED <<database, held, missed, last>>

ApplicationNext ==
    \E r \in Requests :
       \/ ApplyStart(r) \/ ApplyReadCv(r) \/ ApplyReadExisting(r) \/ ApplySave(r)
       \/ DecideCheck(r) \/ DecideUpdate(r) \/ DecideFails(r) \/ DecideAnswer(r) \/ DecideTell(r)
       \/ UploadCV(r) \/ CvCheck(r) \/ UpdateCV(r) \/ DeleteUseCheck(r) \/ DeleteCV(r)
       \/ MarkLoad(r) \/ MarkAsRead(r) \/ MarkAsReadAll(r)

-----------------------------------------------------------------------------
ApplicationTypeOK ==
    /\ \A a \in Ids : Stored(a) => application[a] \in Row
    /\ \A c \in Cvs : cv[c] # None => cv[c] \in CvRow
    /\ unread \subseteq notices /\ notices \subseteq Notice
    /\ faults \in 0..MaxFaults

(* applyJob refuses a second application of a profile for a job, although  *)
(* no key of the table does: there are two only when one of them was       *)
(* stored after the other one had looked for it.                           *)
OneApplicationPerJob ==
    \A a, b \in Ids :
       (/\ a # b /\ Stored(a) /\ Stored(b)
        /\ application[a].profile = application[b].profile
        /\ application[a].job = application[b].job)
       => \E x \in {a, b} \cap Requests : {a, b} \ {x} \subseteq missed[x]

(* What a candidate was last told about an application is its status:      *)
(* updateApplicationStatus stores the decision, answers, and tells later.  *)
(* Excepted are applications two decisions were about at once, and those   *)
(* whose decision failed or ended with the process in between.             *)
NoticesMatchDecisions ==
    \A a \in Ids \ untold :
       (Stored(a) /\ \A r \in Requests : ~Outstanding(r, a))
       => last[a] = CASE application[a].status = "PENDING" -> None
                      [] application[a].status = "APPROVED" -> "application_accepted"
                      [] application[a].status = "DENIED" -> "application_rejected"

(* A decision that asks for ACCEPTED, a status the documentation of the    *)
(* payload lists, does not tell the candidate of a rejection.              *)
AcceptedIsNotRejected ==
    [][\A n \in notices' \ notices :
          n.type = "application_rejected" => <<n.about, "ACCEPTED">> \notin held[n.by].items]_notices
=============================================================================
