---------------------------- MODULE ExpiryQueue -----------------------------
(***************************************************************************)
(* How an enterprise learns that a job expired: the round of               *)
(* JobCronService after it marked the jobs, the queue job-expired, and the *)
(* two processors that take messages from it.  Composed with Applications, *)
(* which shares the table of notifications and the process.                *)
(*                                                                         *)
(* A round is a request of kind "round"; a message is the round and the    *)
(* job.                                                                    *)
(***************************************************************************)
EXTENDS Applications

CONSTANTS
    BatchSize,     \* messages and notices per batch
    Rounds,        \* rounds at once: each process runs its own crons
    Processors     \* the workers of the queue job-expired

ASSUME BatchAssumption == BatchSize \in Nat \ {0}

VARIABLES
    expired,     \* jobs whose status is EXPIRED
    \* ---- the queue, in Redis
    queue,       \* messages that wait
    active,      \* [Processors -> the message it works on, or None]
    \* ---- history variables, read by the properties only
    mailed,      \* messages a mail was handed to the mail server for
    twice,       \* ... more than once
    served,      \* messages that were completed
    stalled      \* messages whose processor ended with the process

queueVars == <<queue, active, mailed, twice, served, stalled>>
vars == <<applicationVars, expired, queueVars>>

-----------------------------------------------------------------------------
Messages == Requests \X Jobs

ASSUME MessagesAssumption == None \notin Messages

Init ==
    /\ ApplicationInit
    /\ expired = {}
    /\ queue = {} /\ active = [p \in Processors |-> None]
    /\ mailed = {} /\ twice = {} /\ served = {} /\ stalled = {}

-----------------------------------------------------------------------------
InRound(r) == pc[r] \in {"expiring", "telling"}

(* The jobs past their deadline are read.  A batch that cannot be read     *)
(* ends the loop with what was read so far.                                *)
RoundLoad(r) ==
    /\ Starts(r, "round") /\ Cardinality({x \in Requests : InRound(x)}) < Rounds
    /\ \E due \in SUBSET (Jobs \ expired) :
          \/ Hold(r, [Nothing EXCEPT !.jobs = due]) /\ UNCHANGED bounds
          \/ due # {} /\ Fault /\ \E n \in due : Hold(r, [Nothing EXCEPT !.jobs = {j \in due : j < n}])
    /\ Goto(r, IF held'[r].jobs = {} THEN "done" ELSE "expiring")
    /\ UNCHANGED <<database, open, history, expired, queueVars>>

(* The position of a job in the list, and the slice of a batch.            *)
Position(r, j) == Cardinality({i \in held[r].jobs : i < j})
MutBatchOf(r, j) == (Position(r, j) + 1) \div BatchSize
BatchOf(r, j) == Position(r, j) \div BatchSize
LastBatch(r) == (Cardinality(held[r].jobs) - 1) \div BatchSize

Tell(j) == <<"job_expired", j>>
Bulk == <<"bulk", None>>

(* updateBulkJobExpired, then all the INSERTs of notices and the first     *)
(* addBulk are started.                                                    *)
RoundMark(r) ==
    /\ pc[r] = "expiring"
    /\ expired' = expired \cup held[r].jobs
    /\ \/ Goto(r, "telling") /\ UNCHANGED bounds
          /\ open' = [open EXCEPT ![r] = {Bulk} \cup {Tell(j) : j \in held[r].jobs}]
       \/ Goto(r, "failed") /\ Fault /\ UNCHANGED open
    /\ UNCHANGED <<database, held, history, queueVars>>

RoundTell(r) ==
    \E j \in Jobs :
       LET notice == [by |-> r, about |-> j, type |-> "job_expired", to |-> Employer[j]]
       IN  /\ Tell(j) \in open[r]
           /\ Ends(r, Tell(j))
           /\ notices' = notices \cup {notice}
           /\ unread' = unread \cup {notice}
           /\ UNCHANGED <<application, cv, pc, held, bounds, history, expired, queueVars>>

RoundAddBulk(r) ==
    /\ Bulk \in open[r]
    /\ Ends(r, Bulk)
    /\ queue' = queue \cup {<<r, j>> : j \in {x \in held[r].jobs : BatchOf(r, x) = held[r].batch}}
    /\ UNCHANGED <<database, pc, held, bounds, history, expired, active, mailed, twice, served, stalled>>

(* Promise.all of a batch; the embeddings at the end leave no trace here.  *)
RoundNext(r) ==
    /\ pc[r] = "telling" /\ Bulk \notin open[r]
    /\ \A j \in held[r].jobs : BatchOf(r, j) <= held[r].batch => Tell(j) \notin open[r]
    /\ \/ /\ held[r].batch = LastBatch(r)
          /\ Goto(r, "done") /\ UNCHANGED <<open, held>>
       \/ /\ held[r].batch < LastBatch(r)
          /\ Hold(r, [held[r] EXCEPT !.batch = @ + 1])
          /\ open' = [open EXCEPT ![r] = @ \cup {Bulk}]
          /\ UNCHANGED pc
    /\ UNCHANGED <<database, bounds, history, expired, queueVars>>

(* A statement of the batch that is awaited fails: the rest of the batches *)
(* is skipped.  The failure of a notice nobody awaits is ProcessEnds.      *)
RoundFails(r) ==
    /\ pc[r] = "telling"
    /\ \/ Bulk \in open[r] /\ Ends(r, Bulk)
       \/ \E j \in held[r].jobs :
             Tell(j) \in open[r] /\ BatchOf(r, j) <= held[r].batch /\ Ends(r, Tell(j))
    /\ Goto(r, "failed")
    /\ Fault
    /\ UNCHANGED <<database, held, history, expired, queueVars>>

-----------------------------------------------------------------------------
(* Both processors are registered on the queue job-expired; nothing takes  *)
(* from boostJob-expired.  A worker takes a message, mails and completes   *)
(* it, whether the mail server took the mail or not.                       *)
Take(p) ==
    /\ active[p] = None
    /\ \E m \in queue : queue' = queue \ {m} /\ active' = [active EXCEPT ![p] = m]
    /\ UNCHANGED <<applicationVars, expired, mailed, twice, served, stalled>>

Mails(messages) == mailed' = mailed \cup messages /\ twice' = twice \cup (messages \cap mailed)

Complete(p) ==
    /\ active[p] # None
    /\ Mails({active[p]})
    /\ served' = served \cup {active[p]}
    /\ active' = [active EXCEPT ![p] = None]
    /\ UNCHANGED <<applicationVars, expired, queue, stalled>>

(* The process ends, its workers before or after they mailed; what they    *)
(* were busy with is stalled and put back once the process runs again (a   *)
(* second time it would fail instead: MaxFaults is 1 in the instances).    *)
Busy == {active[p] : p \in Processors} \ {None}

Crash ==
    /\ ProcessEnds
    /\ \E messages \in SUBSET Busy : Mails(messages)
    /\ queue' = queue \cup Busy
    /\ active' = [p \in Processors |-> None]
    /\ stalled' = stalled \cup Busy
    /\ UNCHANGED <<expired, served>>

-----------------------------------------------------------------------------
Next ==
    \/ ApplicationNext /\ UNCHANGED <<expired, queueVars>>
    \/ \E r \in Requests :
          \/ RoundLoad(r) \/ RoundMark(r) \/ RoundTell(r)
          \/ RoundAddBulk(r) \/ RoundNext(r) \/ RoundFails(r)
    \/ \E p \in Processors : Take(p) \/ Complete(p)
    \/ Crash

Spec == Init /\ [][Next]_vars

-----------------------------------------------------------------------------
TypeOK ==
    /\ ApplicationTypeOK
    /\ expired \subseteq Jobs
    /\ queue \cup Busy \subseteq Messages
    /\ mailed \cup served \subseteq Messages

NoticeOf(m) == \E n \in notices : n.by = m[1] /\ n.about = m[2] /\ n.type = "job_expired"

(* A round that ended well has left a notice and exactly one message for   *)
(* every job it marked, however the batches were cut; messages are only    *)
(* about jobs that expired, and a message is mailed about twice only when  *)
(* its processor stalled.                                                  *)
ExpiryTold ==
    /\ \A r \in Requests : \A j \in held[r].jobs :
          pc[r] = "done" => NoticeOf(<<r, j>>) /\ <<r, j>> \in queue \cup Busy \cup served
    /\ \A m \in queue \cup Busy \cup served : m[2] \in expired
    /\ queue \cap Busy = {} /\ twice \subseteq stalled
    /\ (queue \cup Busy) \cap served = {}
=============================================================================
