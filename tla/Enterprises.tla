---------------------------- MODULE Enterprises -----------------------------
(***************************************************************************)
(* The enterprise an account registers, composed with the account: what    *)
(* EnterpriseService does to the row from registration to removal, and the *)
(* roles of the account that follow its status.                            *)
(*                                                                         *)
(* The row of an enterprise is named by the request that inserted it, Old  *)
(* for the one there may be at the start.                                  *)
(***************************************************************************)
EXTENDS Accounts

CONSTANTS
    Reviews,          \* statuses a review may ask for
    PayloadStatuses   \* statuses a payload of the company's data may name

VARIABLES
    enterprise,  \* the row with the id, the status and the company data, or None
    dossier,     \* [Requests -> the row a handler will save, and what differs]
    \* ---- history variables, read by the properties only
    crossed,     \* requests whose reading of the enterprise precedes its last write
    lapsed,      \* the roles no longer follow the reviews, for a reason given below
    naming,      \* requests whose payload names a status
    verdict,     \* the status of the last review written, PENDING before the first
    named        \* a payload has named the status since

decision == <<naming, verdict, named>>
enterpriseVars == <<enterprise, dossier, crossed, lapsed, decision>>
vars == <<accountVars, enterpriseVars>>

-----------------------------------------------------------------------------
EnterpriseStatuses == {"PENDING", "ACTIVE", "REJECTED", "BLOCKED"}
EnterpriseColumns == {"id", "status"}
EnterpriseRow == [id : Tokens, status : EnterpriseStatuses]

ASSUME ReviewsAssumption ==
    Reviews \subseteq EnterpriseStatuses /\ PayloadStatuses \subseteq EnterpriseStatuses
ASSUME NoEnterpriseAssumption == None \notin EnterpriseRow

Empty == [row |-> None, cols |-> {}]

Registered(i) == enterprise # None /\ enterprise.id = i

Touches(r) == crossed' = (crossed \ {r}) \cup {x \in Requests \ {r} : Live(x)}
Studies(r) == crossed' = crossed \ {r}

(* A step of a handler of this module that leaves the account alone.       *)
Moves(r, from, to) ==
    /\ pc[r] = from
    /\ Goto(r, to)
    /\ UNCHANGED <<database, redis, clients, held, open, crashes, history>>

Init ==
    /\ AccountInit
    /\ \/ enterprise = None
       \/ HasStatus("ACTIVE") /\ enterprise = [id |-> Old, status |-> "PENDING"]
    /\ dossier = [r \in Requests |-> Empty]
    /\ crossed = {} /\ lapsed = FALSE
    /\ naming = {} /\ verdict = "PENDING" /\ named = FALSE

(* What is saved: the row and the payload over it.  Create- and            *)
(* UpdateEnterpriseDto have an optional status.                            *)
(* Mutant: a payload without a status withdraws the approval.              *)
MutWithPayload(row, s) == [row EXCEPT !.status = IF s = "unset" THEN "PENDING" ELSE s]
WithPayload(row, s) == IF s = "unset" THEN row ELSE [row EXCEPT !.status = s]

NotesNaming(r, s) == naming' = IF s = "unset" THEN naming ELSE naming \cup {r}

-----------------------------------------------------------------------------
(* EnterpriseService.create: the caller holds a token of the account.      *)

EnrollCheck(r) ==
    /\ "enroll" \in Kinds /\ Exists
    /\ enterprise = None
    /\ Moves(r, "new", "enrolling")
    /\ UNCHANGED enterpriseVars

(* The account owns one enterprise at most: account_id is UNIQUE.  The     *)
(* status is PENDING by default; the embedding that follows may throw, and *)
(* the row stays.                                                          *)
EnrollSave(r) ==
    \/ /\ Moves(r, "enrolling", "done")
       /\ enterprise = None
       /\ \E s \in PayloadStatuses \cup {"unset"} :
             /\ enterprise' = WithPayload([id |-> r, status |-> "PENDING"], s)
             /\ NotesNaming(r, s)
             /\ named' = (s # "unset")
       /\ verdict' = "PENDING"
       /\ lapsed' = (lapsed \/ "ENTERPRISE" \in account.roles)
       /\ Touches(r)
       /\ UNCHANGED dossier
    \/ /\ Moves(r, "enrolling", "failed")
       /\ enterprise # None
       /\ UNCHANGED enterpriseVars

-----------------------------------------------------------------------------
(* cancelEnterprise and remove                                             *)

(* Mutant: the status is not asked.                                        *)
MutCancelAny(row) == TRUE
Cancellable(row) == row.status = "PENDING"

CancelLoad(r) ==
    /\ "cancel" \in Kinds
    /\ enterprise # None /\ Cancellable(enterprise)
    /\ dossier' = [dossier EXCEPT ![r].row = enterprise]
    /\ Moves(r, "new", "cancelling")
    /\ Studies(r)
    /\ UNCHANGED <<enterprise, lapsed, decision>>

(* An administrator removes the enterprise whatever its status; the caches *)
(* and the embedding come before the row, and may throw.                   *)
RemoveLoad(r) ==
    /\ "remove" \in Kinds
    /\ enterprise # None
    /\ dossier' = [dossier EXCEPT ![r].row = enterprise]
    /\ Moves(r, "new", "removing")
    /\ Studies(r)
    /\ UNCHANGED <<enterprise, lapsed, decision>>

(* remove deletes by id whatever is there by then; rows of other tables    *)
(* that refer to an enterprise once approved may prevent it.               *)
DeleteRow(r) ==
    /\ \/ /\ \/ Moves(r, "cancelling", "done")
             \/ Moves(r, "removing", "done")
          /\ enterprise' = IF Registered(dossier[r].row.id) THEN None ELSE enterprise
          /\ Touches(r)
       \/ /\ \/ Moves(r, "cancelling", "failed")
             \/ Moves(r, "removing", "failed")
          /\ UNCHANGED <<enterprise, crossed>>
    /\ UNCHANGED <<dossier, lapsed, decision>>

-----------------------------------------------------------------------------
(* updateRegisterEnterprise: the applicant corrects the company data of a  *)
(* PENDING enterprise; the whole row is saved.                             *)
AmendLoad(r) ==
    /\ "amend" \in Kinds
    /\ enterprise # None /\ enterprise.status = "PENDING"
    /\ \E s \in PayloadStatuses \cup {"unset"} :
          /\ dossier' = [dossier EXCEPT ![r].row = WithPayload(enterprise, s)]
          /\ NotesNaming(r, s)
    /\ Moves(r, "new", "amending")
    /\ Studies(r)
    /\ UNCHANGED <<enterprise, lapsed, verdict, named>>

(* update(id, payload), whatever the status.  Without a status it does to  *)
(* the row what the other handlers that save it back do, such as           *)
(* updatePartialInfoActive, whose payload has none.                        *)
PatchLoad(r) ==
    /\ "patch" \in Kinds
    /\ enterprise # None
    /\ \E s \in PayloadStatuses \cup {"unset"} :
          /\ dossier' = [dossier EXCEPT ![r].row = WithPayload(enterprise, s)]
          /\ NotesNaming(r, s)
    /\ Moves(r, "new", "patching")
    /\ Studies(r)
    /\ UNCHANGED <<enterprise, lapsed, verdict, named>>

(* updateEnterpriseStatus: the status is compared with the payload, then   *)
(* update(id, payload) reads the row again and saves it with the status.   *)
ReviewLoad(r) ==
    /\ "review" \in Kinds
    /\ enterprise # None
    /\ \E s \in Reviews \ {enterprise.status} :
          dossier' = [dossier EXCEPT ![r].row = [enterprise EXCEPT !.status = s]]
    /\ Moves(r, "new", "judged")
    /\ Studies(r)
    /\ UNCHANGED <<enterprise, lapsed, decision>>

ReviewFind(r) ==
    \/ /\ Moves(r, "judged", "reviewing")
       /\ Registered(dossier[r].row.id)
       /\ Studies(r)
       /\ UNCHANGED <<enterprise, dossier, lapsed, decision>>
    \/ /\ Moves(r, "judged", "rejected")
       /\ ~Registered(dossier[r].row.id)
       /\ UNCHANGED enterpriseVars

(* save: SELECT and diff.  A row that is gone will be inserted, except by  *)
(* updateRegisterEnterprise, which did not read the account the row needs. *)
Saving == {<<"amending", "amendDiffed", "failed">>,
           <<"patching", "patchDiffed", "patchInserting">>,
           <<"reviewing", "reviewDiffed", "reviewInserting">>}

SaveSelect(r) ==
    /\ \E s \in Saving :
          \/ /\ Moves(r, s[1], s[2])
             /\ Registered(dossier[r].row.id)
             /\ dossier' = [dossier EXCEPT ![r].cols =
                               {c \in EnterpriseColumns : dossier[r].row[c] # enterprise[c]}]
          \/ /\ Moves(r, s[1], s[3])
             /\ ~Registered(dossier[r].row.id)
             /\ UNCHANGED dossier
    /\ UNCHANGED <<enterprise, crossed, lapsed, decision>>

(* save: the UPDATE, of no row if it is gone, or the INSERT.               *)
Inserting(r) == pc[r] \in {"patchInserting", "reviewInserting"}

Saved(r) ==
    IF Inserting(r) THEN dossier[r].row
    ELSE IF "status" \in dossier[r].cols /\ Registered(dossier[r].row.id)
      THEN [enterprise EXCEPT !.status = dossier[r].row.status]
    ELSE enterprise

Rejected(r) == Inserting(r) /\ enterprise # None

(* A review and not the company's data.                                    *)
Reviewing(r) == pc[r] \in {"reviewDiffed", "reviewInserting"}

SaveWrite(r) ==
    \/ /\ ~Rejected(r)
       /\ \/ Moves(r, "amendDiffed", "done")
          \/ Moves(r, "patchDiffed", "done") \/ Moves(r, "patchInserting", "done")
          \/ Moves(r, "reviewDiffed", "reviewed") \/ Moves(r, "reviewInserting", "reviewed")
       /\ enterprise' = Saved(r)
       /\ verdict' = IF Reviewing(r) THEN dossier[r].row.status ELSE verdict
       /\ named' = (~Reviewing(r) /\ (named \/ r \in naming))
       /\ lapsed' = (lapsed \/ r \in crossed)
       /\ Touches(r)
       /\ UNCHANGED <<dossier, naming>>
    \/ /\ Rejected(r)
       /\ Moves(r, "patchInserting", "failed") \/ Moves(r, "reviewInserting", "failed")
       /\ UNCHANGED enterpriseVars

(* The embedding of update throws: the status is saved and nothing else    *)
(* follows.                                                                *)
EmbeddingFails(r) ==
    /\ Moves(r, "reviewed", "failed")
    /\ lapsed' = TRUE
    /\ UNCHANGED <<enterprise, dossier, crossed, decision>>

-----------------------------------------------------------------------------
(* AuthService.updateRoles at the end of a review: a restricted account    *)
(* throws, after the status of the enterprise was saved.                   *)

(* Mutant: only the approval sets roles.                                   *)
MutRolesFor(status) == IF status = "ACTIVE" THEN {"USER", "ENTERPRISE"} ELSE account.roles
RolesFor(status) == IF status = "ACTIVE" THEN {"USER", "ENTERPRISE"} ELSE {"USER"}

RolesLoad(r) ==
    \/ /\ HasStatus("ACTIVE")
       /\ Moves(r, "reviewed", "granting")
       /\ UNCHANGED enterpriseVars
    \/ /\ ~HasStatus("ACTIVE")
       /\ Moves(r, "reviewed", "failed")
       /\ lapsed' = TRUE
       /\ UNCHANGED <<enterprise, dossier, crossed, decision>>

(* The notification and the mails that follow leave the rows alone.        *)
RolesWrite(r) ==
    /\ pc[r] = "granting"
    /\ account' = [account EXCEPT !.roles = RolesFor(dossier[r].row.status)]
    /\ Goto(r, "done")
    /\ Writes(r)
    /\ lapsed' = (lapsed \/ r \in crossed)
    /\ UNCHANGED <<profile, redis, clients, held, open, crashes, consumed, raced, verified, slipped,
                   enterprise, dossier, crossed, decision>>

-----------------------------------------------------------------------------
EnterpriseStep(r) ==
    \/ EnrollCheck(r) \/ EnrollSave(r)
    \/ CancelLoad(r) \/ RemoveLoad(r) \/ DeleteRow(r)
    \/ AmendLoad(r) \/ PatchLoad(r) \/ ReviewLoad(r) \/ ReviewFind(r)
    \/ SaveSelect(r) \/ SaveWrite(r) \/ EmbeddingFails(r)
    \/ RolesLoad(r) \/ RolesWrite(r)

ReviewUnfinished(r) == pc[r] \in {"reviewDiffed", "reviewInserting", "reviewed", "granting"}

(* Linking an identity to an outdated copy may bring old roles back; a     *)
(* crash may end a review between its two writes.                          *)
AccountMoves ==
    /\ \E r \in Requests : AccountStep(r)
    /\ lapsed' = (lapsed \/ (account # None /\ account'.roles # account.roles))
    /\ UNCHANGED <<enterprise, dossier, crossed, decision>>

ProcessEnds ==
    /\ Crash
    /\ lapsed' = (lapsed \/ \E r \in Requests : pc[r] \in {"reviewed", "granting"})
    /\ crossed' = {}
    /\ UNCHANGED <<enterprise, dossier, decision>>

Next ==
    \/ AccountMoves
    \/ \E r \in Requests : EnterpriseStep(r)
    \/ Expire /\ UNCHANGED enterpriseVars
    \/ ProcessEnds

Spec == Init /\ [][Next]_vars

-----------------------------------------------------------------------------
(* Properties *)

Labels == Ended \cup
    {"new", "counted", "asked", "matched", "activated", "welcomed", "cleared", "storing",
     "checked", "owned", "resetting", "ruling", "unlinked", "linking", "creating", "created",
     "diffed", "enrolling", "cancelling", "removing", "amending", "amendDiffed",
     "patching", "patchDiffed", "patchInserting", "judged", "reviewing", "reviewDiffed", "reviewInserting", "reviewed",
     "granting"}

(* Type invariant of every variable of the account and of the enterprise.  *)
TypeOK ==
    /\ account \in Row \cup {None}
    /\ profile \in {"none", "inactive", "active"}
    /\ code \in Tokens \cup {None} /\ resetKey \in Tokens \cup {None}
    /\ sessions \subseteq Tokens
    /\ mailed \subseteq {"code", "link"} \X Tokens
    /\ issued \subseteq {"refresh", "ticket"} \X Tokens
    /\ pc \in [Requests -> Labels]
    /\ held \in [Requests -> [tok : Tokens \cup {None}, row : Row \cup {None}, cols : SUBSET Columns]]
    /\ open \in [Requests -> SUBSET {"profile", "code", "mailCode", "mailLink", "key", "forget"}]
    /\ crashes \in 0..MaxCrashes
    /\ consumed \subseteq Requests \X Tokens /\ raced \subseteq Tokens
    /\ unaware \subseteq Requests /\ crossed \subseteq Requests
    /\ verified \in BOOLEAN /\ slipped \in BOOLEAN /\ lapsed \in BOOLEAN
    /\ naming \subseteq Requests /\ verdict \in EnterpriseStatuses /\ named \in BOOLEAN
    /\ enterprise \in EnterpriseRow \cup {None}
    /\ dossier \in [Requests -> [row : EnterpriseRow \cup {None}, cols : SUBSET EnterpriseColumns]]

(* When no review is between its two writes, the account of an enterprise  *)
(* has the role ENTERPRISE exactly when its last review approved it: no    *)
(* status that a payload names grants or withdraws the role, and the       *)
(* status differs from that review only if a payload named one since.  It  *)
(* ceases to hold when a review stops between the two (its account is      *)
(* restricted, the embedding throws, the process ends), when a row is      *)
(* written from an outdated reading, and when an account that kept the     *)
(* role of a removed enterprise registers another.                         *)
RolesFollowReview ==
    enterprise # None /\ ~lapsed =>
      /\ (\A r \in Requests : ~ReviewUnfinished(r))
            => (verdict = "ACTIVE" <=> "ENTERPRISE" \in account.roles)
      /\ ~named => enterprise.status = verdict

(* Cancelling takes away a PENDING enterprise only; one that was reviewed  *)
(* in the meantime goes with it only when the review came between the      *)
(* reading of the handler and its deletion.                                *)
CancelSparesReviewed ==
    [][enterprise # None /\ enterprise' = None =>
          \A r \in Requests : pc[r] = "cancelling" /\ pc'[r] = "done"
              => enterprise.status = "PENDING" \/ r \in crossed]_vars
=============================================================================
