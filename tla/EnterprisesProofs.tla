------------------------- MODULE EnterprisesProofs --------------------------
(***************************************************************************)
(* Proofs about Accounts and Enterprises, for every set of requests, every *)
(* choice of handlers and any number of crashes.                           *)
(***************************************************************************)
EXTENDS Enterprises, FiniteSetTheorems, TLAPS

(* As long as the address has no account, nothing else refers to one, and  *)
(* no handler is past a reading of it.                                     *)
AbsentInv ==
    ~Exists =>
      /\ profile = "none" /\ code = None /\ resetKey = None /\ sessions = {}
      /\ enterprise = None
      /\ \A r \in Requests :
           /\ open[r] = {}
           /\ pc[r] \in Ended \cup {"new", "counted", "asked", "matched", "activated", "cleared",
                                   "unlinked", "creating"}
           /\ pc[r] \in {"asked", "matched", "activated"} => held[r].row = None

(* What a handler holds has the shape its next steps rely on.              *)
HoldsCopy(r) == pc[r] \in {"cancelling", "removing", "amending", "amendDiffed", "patching",
                           "patchDiffed", "patchInserting", "judged", "reviewing",
                           "reviewDiffed", "reviewInserting", "reviewed", "granting"}

ShapeFact(r) ==
    /\ pc[r] = "new" => open[r] = {} /\ held[r] = Nothing
    /\ pc[r] \in {"checked", "owned", "resetting"} => held[r].tok \in Tokens
    /\ pc[r] \in {"ruling", "linking", "diffed"} => held[r].row \in Row
    /\ pc[r] \in {"unlinked", "linking", "creating"} => held[r].cols \subseteq Providers
    /\ "forget" \in open[r] => held[r].tok \in Tokens /\ pc[r] \in Ended \cup {"resetting"}
    /\ HoldsCopy(r) => dossier[r].row \in EnterpriseRow

ShapeInv == \A r \in Requests : ShapeFact(r)

(* x has read the token t, or used it up.                                  *)
Claims(x, t) ==
    \/ held[x].tok = t /\ (pc[x] \in {"checked", "resetting"} \/ "forget" \in open[x])
    \/ <<x, t>> \in consumed

(* t is still there to be read.                                            *)
Available(t) == t \in sessions \/ resetKey = t

(* OnceUnlessRaced is not inductive.  A token that is still available has  *)
(* only claims that the next reader overlaps with; a token is either a     *)
(* refresh token or a reset token, and its maker has ended, so that it is  *)
(* never stored again.                                                     *)
OneClaim ==
    \A t \in Tokens \ raced : \A x, y \in Requests : Claims(x, t) /\ Claims(y, t) => x = y

ClaimsOverlap ==
    \A t \in Tokens \ raced : Available(t) => \A x \in Requests : Claims(x, t) => InWindow(x, t)

MakersOfClaimed ==
    \A t, x \in Requests : Claims(x, t) => pc[t] \in Ended /\ "key" \notin open[t]

ConsumedLater ==
    \A x \in Requests : pc[x] \in {"new", "checked", "resetting"}
                           => \A t \in Tokens : <<x, t>> \notin consumed

ClaimsInv == OneClaim /\ ClaimsOverlap /\ MakersOfClaimed /\ ConsumedLater

KeysLinked ==
    /\ \A t \in sessions : Refresh(t) \in issued
    /\ resetKey # None => resetKey \in Requests /\ Refresh(resetKey) \notin issued

HoldersLinked ==
    \A x \in Requests :
      /\ pc[x] = "checked" => Refresh(held[x].tok) \in issued
      /\ pc[x] = "resetting" \/ "forget" \in open[x] => Refresh(held[x].tok) \notin issued

MakersLinked ==
    \A t \in Requests :
      /\ resetKey = t \/ "key" \in open[t] => pc[t] \in Ended
      /\ "key" \in open[t] => Refresh(t) \notin issued /\ resetKey # t
      /\ Refresh(t) \in issued => pc[t] \in Ended

LinksInv == KeysLinked /\ HoldersLinked /\ MakersLinked

(* A handler that is not unaware holds what the row still says.            *)
AwareInv ==
    \A r \in Requests \ unaware :
      /\ pc[r] = "storing" => HasStatus("ACTIVE")
      /\ pc[r] \in {"linking", "diffed"} =>
           held[r].row.status = account.status /\ held[r].row.password = account.password

(* So does one that is not crossed, of the enterprise.                     *)
CopyInv ==
    \A r \in Requests \ crossed :
      /\ pc[r] = "cancelling" => enterprise = dossier[r].row /\ enterprise.status = "PENDING"
      /\ pc[r] \in {"amending", "amendDiffed", "patching", "patchDiffed", "patchInserting"} =>
           /\ Registered(dossier[r].row.id) /\ pc[r] # "patchInserting"
           /\ r \notin naming => enterprise.status = dossier[r].row.status
           /\ r \notin naming /\ pc[r] \in {"amendDiffed", "patchDiffed"}
                => "status" \notin dossier[r].cols
      /\ pc[r] \in {"reviewing", "reviewDiffed", "reviewInserting"} =>
           /\ Registered(dossier[r].row.id) /\ pc[r] # "reviewInserting"
           /\ pc[r] = "reviewDiffed" /\ "status" \notin dossier[r].cols
                => enterprise.status = dossier[r].row.status
      /\ pc[r] \in {"reviewed", "granting"} => verdict = dossier[r].row.status

(* A review that has yet to write the roles does not count.                *)
RolesInv ==
    enterprise # None /\ ~lapsed =>
      /\ (\A r \in Requests : pc[r] \notin {"reviewed", "granting"})
            => (verdict = "ACTIVE" <=> "ENTERPRISE" \in account.roles)
      /\ ~named => enterprise.status = verdict

TypeInv == TypeOK /\ AbsentInv /\ ShapeInv

-----------------------------------------------------------------------------
(* Lemmas about the rows and the tokens                                    *)

LEMMA TokenIsNamed == ASSUME NEW t \in Tokens PROVE t # None
  BY NamesAssumption DEF Tokens

LEMMA TokenNames ==
  ASSUME NEW t, NEW u
  PROVE  /\ Refresh(t) = Refresh(u) => t = u
         /\ Refresh(t) # Ticket(u) /\ Code(t) # Link(u)
  BY DEF Refresh, Ticket, Code, Link

LEMMA NewRowType ==
  ASSUME NEW s \in Statuses, NEW t \in Tokens
  PROVE  NewRow(s, t) \in Row
  BY DEF NewRow, Row, Roles

LEMMA ColumnSetType ==
  ASSUME NEW a \in Row
  PROVE  /\ \A s \in Statuses : [a EXCEPT !.status = s] \in Row
         /\ \A t \in Tokens : [a EXCEPT !.password = t] \in Row
         /\ \A R \in SUBSET Roles : [a EXCEPT !.roles = R] \in Row
  BY DEF Row

LEMMA IdentityType ==
  ASSUME NEW a \in Row, NEW P \in SUBSET Providers
  PROVE  /\ WithIdentity(a, P) \in Row
         /\ WithIdentity(a, P).status = a.status
         /\ WithIdentity(a, P).password = a.password
  BY DEF WithIdentity, Row, Columns, Providers

LEMMA LinkedType ==
  ASSUME NEW r, account \in Row, held[r].row \in Row
  PROVE  /\ Linked(r) \in Row
         /\ Linked(r).status \in {account.status, held[r].row.status}
         /\ Linked(r).password \in {account.password, held[r].row.password}
  BY DEF Linked, Row, Columns

LEMMA RowIsThere ==
  /\ \A a \in Row : a # None
  /\ TypeOK => (Exists <=> account \in Row) /\ (enterprise # None <=> enterprise \in EnterpriseRow)
  /\ None \notin Tokens
  BY NoneAssumption, NoEnterpriseAssumption, NamesAssumption DEF TypeOK, Exists, Tokens

LEMMA TypeInvInit == Init => TypeInv
<1> SUFFICES ASSUME Init PROVE TypeInv
  OBVIOUS
<1> USE DEF Init, AccountInit
<1>1. Old \in Tokens /\ {"USER"} \subseteq Roles
  BY DEF Tokens, Roles
<1>2. /\ held \in [Requests -> [tok : Tokens \cup {None}, row : Row \cup {None}, cols : SUBSET Columns]]
      /\ dossier \in [Requests -> [row : EnterpriseRow \cup {None}, cols : SUBSET EnterpriseColumns]]
  BY DEF Nothing, Empty
<1>3. /\ pc \in [Requests -> Labels] /\ crashes \in 0..MaxCrashes
      /\ open \in [Requests -> SUBSET {"profile", "code", "mailCode", "mailLink", "key", "forget"}]
  BY CrashAssumption DEF Labels
<1>4. enterprise \in EnterpriseRow \cup {None}
  BY <1>1 DEF EnterpriseRow, EnterpriseStatuses
<1>5. /\ account \in Row \cup {None} /\ profile \in {"none", "inactive", "active"}
      /\ code \in Tokens \cup {None} /\ resetKey \in Tokens \cup {None}
      /\ sessions \subseteq Tokens
      /\ mailed \subseteq {"code", "link"} \X Tokens
      /\ issued \subseteq {"refresh", "ticket"} \X Tokens
  BY <1>1, NewRowType DEF Absentee, Newcomer, Member, Statuses, Code, Refresh
<1>6. naming \subseteq Requests /\ verdict \in EnterpriseStatuses /\ named \in BOOLEAN
  BY DEF EnterpriseStatuses
<1>7. /\ consumed \subseteq Requests \X Tokens /\ raced \subseteq Tokens
      /\ unaware \subseteq Requests /\ crossed \subseteq Requests
      /\ verified \in BOOLEAN /\ slipped \in BOOLEAN /\ lapsed \in BOOLEAN
  OBVIOUS
<1>8. TypeOK
  BY <1>2, <1>3, <1>4, <1>5, <1>6, <1>7 DEF TypeOK
<1>9. AbsentInv
  <2>1. CASE Absentee
    BY <2>1 DEF AbsentInv, Absentee, HasStatus, Exists
  <2>2. CASE Newcomer \/ Member
    BY <1>1, <2>2, NewRowType, NoneAssumption
       DEF AbsentInv, Newcomer, Member, Statuses, Exists
  <2> QED
    BY <2>1, <2>2
<1>10. ShapeInv
  BY DEF ShapeInv, ShapeFact, HoldsCopy
<1> QED
  BY <1>8, <1>9, <1>10 DEF TypeInv

-----------------------------------------------------------------------------
(* What a step of a handler touches                                        *)

Branches == {"profile", "code", "mailCode", "mailLink", "key", "forget"}
HeldRecord == [tok : Tokens \cup {None}, row : Row \cup {None}, cols : SUBSET Columns]

(* The memory of the other requests stays as it is.                        *)
LocalTo(r) ==
    /\ pc' = [pc EXCEPT ![r] = pc'[r]]
    /\ held' = [held EXCEPT ![r] = held'[r]]
    /\ open' = [open EXCEPT ![r] = open'[r]]

WritesAccount(r) == RegisterSave(r) \/ VerifyActivate(r) \/ ResetPassword(r) \/ StatusWrite(r)
                    \/ OAuthCreate(r) \/ OAuthUpdate(r)

LEMMA AccountFrame ==
  ASSUME NEW r \in Requests, AccountStep(r), ~WritesAccount(r)
  PROVE  account' = account
  BY DEF WritesAccount, AccountStep, RegisterCount, BranchProfile, BranchCode, BranchMail, BranchKey,
         BranchForget, VerifyLoad, VerifyCompare, VerifyProfile, VerifyDelete, ResendDelete,
         ResendLoad, LoginLoad, ConfirmLoad, StoreSession, RefreshCheck, RefreshDelete, RefreshLoad,
         Logout, ForgetLoad, ResetCheck, StatusLoad, OAuthFind, OAuthLookup, OAuthProfile,
         OAuthSelect, database

LEMMA LocalStep ==
  ASSUME TypeInv, NEW r \in Requests, AccountStep(r)
  PROVE  LocalTo(r) /\ pc'[r] \in Labels
<1> USE DEF TypeInv, TypeOK, Goto, database, redis, clients, memory, history,
         AccountStep, RegisterCount, RegisterSave, BranchProfile, BranchCode, BranchMail,
         BranchKey, BranchForget, VerifyLoad, VerifyCompare, VerifyActivate, VerifyProfile,
         VerifyDelete, ResendDelete, ResendLoad, LoginLoad, ConfirmLoad, StoreSession,
         RefreshCheck, RefreshDelete, RefreshLoad, Logout, ForgetLoad, ResetCheck, ResetPassword,
         StatusLoad, StatusWrite, OAuthFind, OAuthLookup, OAuthCreate, OAuthProfile, OAuthSelect,
         OAuthUpdate
<1>1. pc' = [pc EXCEPT ![r] = pc'[r]]
  OBVIOUS
<1>2. pc'[r] \in Labels
  BY DEF Labels, Ended
<1>3. held' = [held EXCEPT ![r] = held'[r]]
  OBVIOUS
<1>4. open' = [open EXCEPT ![r] = open'[r]]
  OBVIOUS
<1> QED
  BY <1>1, <1>2, <1>3, <1>4 DEF LocalTo

(* What changes elsewhere, and what a handler may hold.                    *)
LEMMA ElsewhereStep ==
  ASSUME TypeInv, NEW r \in Requests, AccountStep(r)
  PROVE  /\ profile' \in {"none", "inactive", "active"}
         /\ code' \in {code, None, r} /\ resetKey' \in {resetKey, None, r}
         /\ sessions' \subseteq sessions \cup {r}
         /\ mailed' \subseteq mailed \cup {Code(r), Link(r)}
         /\ issued' \subseteq issued \cup {Refresh(r), Ticket(r)}
         /\ crashes' = crashes
         /\ unaware' \subseteq Requests
         /\ verified' \in BOOLEAN /\ slipped' \in BOOLEAN
<1> USE DEF TypeInv, TypeOK, Goto, database, redis, clients, memory, history,
         AccountStep, RegisterCount, RegisterSave, BranchProfile, BranchCode, BranchMail,
         BranchKey, BranchForget, VerifyLoad, VerifyCompare, VerifyActivate, VerifyProfile,
         VerifyDelete, ResendDelete, ResendLoad, LoginLoad, ConfirmLoad, StoreSession,
         RefreshCheck, RefreshDelete, RefreshLoad, Logout, ForgetLoad, ResetCheck, ResetPassword,
         StatusLoad, StatusWrite, OAuthFind, OAuthLookup, OAuthCreate, OAuthProfile, OAuthSelect,
         OAuthUpdate
<1>1. profile' \in {"none", "inactive", "active"}
  BY DEF StoreProfile, Activated
<1>2. code' \in {code, None, r} /\ resetKey' \in {resetKey, None, r}
  BY DEF Forgotten
<1>3. sessions' \subseteq sessions \cup {r}
  BY DEF StoreRefreshToken, DeleteRefreshToken
<1>4. mailed' \subseteq mailed \cup {Code(r), Link(r)}
  OBVIOUS
<1>5. issued' \subseteq issued \cup {Refresh(r), Ticket(r)}
  OBVIOUS
<1>6. crashes' = crashes /\ unaware' \subseteq Requests
  BY DEF Reads, Writes
<1>7. verified' \in BOOLEAN /\ slipped' \in BOOLEAN
  BY DEF StoreProfile
<1> QED
  BY <1>1, <1>2, <1>3, <1>4, <1>5, <1>6, <1>7

LEMMA OpenStep ==
  ASSUME TypeInv, NEW r \in Requests, AccountStep(r)
  PROVE  open'[r] \in SUBSET Branches
<1>1. open \in [Requests -> SUBSET Branches]
  BY DEF TypeInv, TypeOK, Branches
<1>2. CASE RegisterSave(r) \/ ResendLoad(r) \/ ForgetLoad(r) \/ ResetCheck(r)
  BY <1>1, <1>2 DEF RegisterSave, ResendLoad, ForgetLoad, ResetCheck, Branches
<1>3. CASE BranchProfile(r) \/ BranchCode(r) \/ BranchMail(r) \/ BranchKey(r) \/ BranchForget(r)
  BY <1>1, <1>3 DEF BranchProfile, BranchCode, BranchMail, BranchKey, BranchForget, Branches
<1>4. CASE open' = open
  BY <1>1, <1>4
<1>5. \/ open' = open \/ RegisterSave(r) \/ ResendLoad(r) \/ ForgetLoad(r) \/ ResetCheck(r)
      \/ BranchProfile(r) \/ BranchCode(r) \/ BranchMail(r) \/ BranchKey(r) \/ BranchForget(r)
  BY DEF AccountStep, RegisterCount, VerifyLoad, VerifyCompare, VerifyActivate, VerifyProfile,
         VerifyDelete, ResendDelete, LoginLoad, ConfirmLoad, StoreSession, RefreshCheck,
         RefreshDelete, RefreshLoad, Logout, ResetPassword, StatusLoad, StatusWrite, OAuthFind,
         OAuthLookup, OAuthCreate, OAuthProfile, OAuthSelect, OAuthUpdate, memory
<1> QED
  BY <1>2, <1>3, <1>4, <1>5

(* The row of the account after a step.                                    *)
LEMMA AccountRowStep ==
  ASSUME TypeInv, NEW r \in Requests, AccountStep(r)
  PROVE  account' \in Row \cup {None} /\ (Exists => account' # None)
<1> USE RowIsThere DEF TypeInv
<1>t. TypeOK /\ r \in Tokens
  BY DEF Tokens
<1>1. CASE RegisterSave(r) \/ OAuthCreate(r)
  <2>1. CASE RegisterSave(r)
    BY <1>t, <2>1, NewRowType DEF RegisterSave, Statuses
  <2>2. CASE OAuthCreate(r)
    <3>1. held[r].cols \subseteq Providers
      BY <2>2 DEF OAuthCreate, ShapeInv, ShapeFact
    <3>2. WithIdentity(NewRow("ACTIVE", r), held[r].cols) \in Row
      BY <1>t, <3>1, NewRowType, IdentityType DEF Statuses
    <3> QED
      BY <1>t, <2>2, <3>2 DEF OAuthCreate
  <2> QED
    BY <1>1, <2>1, <2>2
<1>2. CASE VerifyActivate(r) \/ ResetPassword(r) \/ StatusWrite(r)
  <2>1. ~VerifyActivate(r) => Exists
    BY <1>2 DEF ResetPassword, StatusWrite, AbsentInv, Ended
  <2>2. CASE VerifyActivate(r)
    BY <1>t, <2>2, ColumnSetType DEF VerifyActivate, Statuses
  <2>3. CASE ResetPassword(r) /\ ~VerifyActivate(r)
    BY <1>t, <2>1, <2>3, ColumnSetType DEF ResetPassword
  <2>4. CASE StatusWrite(r) /\ ~VerifyActivate(r)
    <3>1. held[r].row.status \in Statuses
      BY <2>4 DEF StatusWrite, ShapeInv, ShapeFact, Row
    <3> QED
      BY <1>t, <2>1, <2>4, <3>1, ColumnSetType DEF StatusWrite
  <2> QED
    BY <1>2, <2>2, <2>3, <2>4
<1>3. CASE OAuthUpdate(r)
  <2>1. Exists /\ held[r].row \in Row
    BY <1>3 DEF OAuthUpdate, AbsentInv, ShapeInv, ShapeFact, Ended
  <2>2. Linked(r) \in Row
    BY <1>t, <2>1, LinkedType
  <2> QED
    BY <1>3, <1>t, <2>2 DEF OAuthUpdate
<1>4. CASE ~WritesAccount(r)
  BY <1>4, <1>t, AccountFrame DEF TypeOK, Exists
<1> QED
  BY <1>1, <1>2, <1>3, <1>4 DEF WritesAccount

LEMMA HeldStep ==
  ASSUME TypeInv, NEW r \in Requests, AccountStep(r)
  PROVE  held'[r] \in HeldRecord
<1> USE RowIsThere DEF TypeInv, HeldRecord, Nothing
<1>t. TypeOK /\ held[r] \in HeldRecord /\ r \in Tokens
  BY DEF TypeOK, Tokens
<1>1. CASE VerifyLoad(r) \/ RefreshCheck(r) \/ Logout(r) \/ ResetCheck(r) \/ OAuthFind(r)
  <2>1. CASE VerifyLoad(r)
    <3>1. account \in Row \cup {None}
      BY <1>t DEF TypeOK
    <3>2. PICK c \in Tokens \cup {None} : held' = [held EXCEPT ![r] =
            [Nothing EXCEPT !.tok = c, !.row = IF HasStatus("PENDING") THEN account ELSE None]]
      BY <2>1 DEF VerifyLoad
    <3>3. held'[r] = [tok |-> c, row |-> IF HasStatus("PENDING") THEN account ELSE None, cols |-> {}]
      BY <1>t, <3>2 DEF TypeOK
    <3> QED
      BY <3>1, <3>3
  <2>2. CASE RefreshCheck(r) \/ Logout(r) \/ ResetCheck(r)
    BY <1>t, <2>2 DEF RefreshCheck, Logout, ResetCheck, TypeOK
  <2>3. CASE OAuthFind(r)
    BY <1>t, <2>3 DEF OAuthFind, TypeOK, Providers, Columns
  <2> QED
    BY <1>1, <2>1, <2>2, <2>3
<1>2. CASE StatusLoad(r)
  <2>1. account \in Row
    BY <1>2, <1>t DEF StatusLoad, AbsentInv
  <2>2. \A s \in Verdicts : [account EXCEPT !.status = s] \in Row
    BY <2>1, ColumnSetType, VerdictsAssumption
  <2> QED
    BY <1>2, <1>t, <2>2 DEF StatusLoad, TypeOK
<1>3. CASE OAuthLookup(r)
  <2>1. held[r].cols \subseteq Providers
    BY <1>3 DEF OAuthLookup, ShapeInv, ShapeFact
  <2>2. Exists => WithIdentity(account, held[r].cols) \in Row
    BY <1>t, <2>1, IdentityType
  <2> QED
    BY <1>3, <1>t, <2>2 DEF OAuthLookup, TypeOK
<1>4. CASE OAuthSelect(r)
  BY <1>4, <1>t DEF OAuthSelect, TypeOK
<1>5. CASE held' = held
  BY <1>5, <1>t
<1>6. \/ held' = held \/ OAuthSelect(r) \/ OAuthLookup(r) \/ StatusLoad(r)
      \/ VerifyLoad(r) \/ RefreshCheck(r) \/ Logout(r) \/ ResetCheck(r) \/ OAuthFind(r)
  BY DEF AccountStep, RegisterCount, RegisterSave, BranchProfile, BranchCode, BranchMail,
         BranchKey, BranchForget, VerifyCompare, VerifyActivate, VerifyProfile, VerifyDelete,
         ResendDelete, ResendLoad, LoginLoad, ConfirmLoad, StoreSession, RefreshDelete,
         RefreshLoad, ForgetLoad, ResetPassword, StatusWrite, OAuthCreate, OAuthProfile,
         OAuthUpdate, memory
<1> QED
  BY <1>1, <1>2, <1>3, <1>4, <1>5, <1>6

LEMMA ConsumedStep ==
  ASSUME TypeInv, NEW r \in Requests, AccountStep(r)
  PROVE  consumed' \subseteq Requests \X Tokens /\ raced' \subseteq Tokens
<1>t. TypeOK /\ ShapeInv
  BY DEF TypeInv
<1>1. CASE RefreshDelete(r) \/ ResetPassword(r)
  BY <1>t, <1>1 DEF RefreshDelete, ResetPassword, TypeOK, ShapeInv, ShapeFact
<1>2. CASE RefreshCheck(r) \/ ResetCheck(r)
  BY <1>t, <1>2 DEF RefreshCheck, ResetCheck, TypeOK
<1>3. CASE UNCHANGED <<consumed, raced>>
  BY <1>t, <1>3 DEF TypeOK
<1>4. \/ UNCHANGED <<consumed, raced>> \/ RefreshDelete(r) \/ ResetPassword(r)
      \/ RefreshCheck(r) \/ ResetCheck(r)
  BY DEF AccountStep, RegisterCount, RegisterSave, BranchProfile, BranchCode, BranchMail,
         BranchKey, BranchForget, VerifyLoad, VerifyCompare, VerifyActivate, VerifyProfile,
         VerifyDelete, ResendDelete, ResendLoad, LoginLoad, ConfirmLoad, StoreSession,
         RefreshLoad, Logout, ForgetLoad, StatusLoad, StatusWrite, OAuthFind, OAuthLookup,
         OAuthCreate, OAuthProfile, OAuthSelect, OAuthUpdate, history
<1> QED
  BY <1>1, <1>2, <1>3, <1>4

LEMMA AccountTypeOK ==
  ASSUME TypeInv, NEW r \in Requests, AccountStep(r),
         UNCHANGED <<enterprise, dossier, crossed, decision>>, lapsed' \in BOOLEAN
  PROVE  TypeOK'
<1> USE AccountRowStep, HeldStep, ConsumedStep, ElsewhereStep
<1>t. TypeOK /\ r \in Tokens /\ LocalTo(r) /\ pc'[r] \in Labels
  BY LocalStep DEF TypeInv, Tokens
<1>1. pc' \in [Requests -> Labels] /\ held' \in [Requests -> HeldRecord]
      /\ open' \in [Requests -> SUBSET Branches]
  <2>1. pc \in [Requests -> Labels] /\ held \in [Requests -> HeldRecord]
        /\ open \in [Requests -> SUBSET Branches]
    BY <1>t DEF TypeOK, HeldRecord, Branches
  <2>2. held'[r] \in HeldRecord /\ open'[r] \in SUBSET Branches
    BY OpenStep
  <2> QED
    BY <1>t, <2>1, <2>2 DEF LocalTo
<1>2. /\ code' \in Tokens \cup {None} /\ resetKey' \in Tokens \cup {None}
      /\ sessions' \subseteq Tokens /\ mailed' \subseteq {"code", "link"} \X Tokens
      /\ issued' \subseteq {"refresh", "ticket"} \X Tokens
  BY <1>t DEF TypeOK, Code, Link, Refresh, Ticket
<1>3. UNCHANGED <<crashes>> /\ profile' \in {"none", "inactive", "active"}
      /\ unaware' \subseteq Requests /\ verified' \in BOOLEAN /\ slipped' \in BOOLEAN
  OBVIOUS
<1>4. account' \in Row \cup {None} /\ consumed' \subseteq Requests \X Tokens /\ raced' \subseteq Tokens
  OBVIOUS
<1> QED
  BY <1>t, <1>1, <1>2, <1>3, <1>4 DEF TypeOK, HeldRecord, Branches, decision

LEMMA AbsentStep ==
  ASSUME TypeInv, NEW r \in Requests, AccountStep(r), enterprise' = enterprise
  PROVE  AbsentInv'
<1> SUFFICES ASSUME account' = None PROVE AbsentInv'
  BY DEF AbsentInv, Exists
<1>1. account = None /\ account' = account /\ r # None
  BY AccountRowStep, NamesAssumption DEF Exists
<1>2. /\ profile = "none" /\ code = None /\ resetKey = None /\ sessions = {} /\ enterprise = None
      /\ \A x \in Requests :
           /\ open[x] = {}
           /\ pc[x] \in Ended \cup {"new", "counted", "asked", "matched", "activated", "cleared",
                                   "unlinked", "creating"}
           /\ pc[x] \in {"asked", "matched", "activated"} => held[x].row = None
  BY <1>1 DEF TypeInv, AbsentInv, Exists
<1>3. \/ RegisterCount(r) \/ VerifyLoad(r) \/ VerifyCompare(r) \/ VerifyActivate(r)
      \/ VerifyProfile(r) \/ ResendDelete(r) \/ ResendLoad(r)
      \/ LoginLoad(r) \/ ConfirmLoad(r) \/ RefreshCheck(r) \/ Logout(r) \/ ForgetLoad(r)
      \/ ResetCheck(r) \/ OAuthFind(r) \/ OAuthLookup(r)
  <2>1. ~WritesAccount(r) \/ VerifyActivate(r)
    <3>1. ~RegisterSave(r) /\ ~OAuthCreate(r)
      <4>1. NewRow("PENDING", r) # None
        BY NewRowType, RowIsThere DEF Statuses, Tokens
      <4>2. pc[r] = "creating" => WithIdentity(NewRow("ACTIVE", r), held[r].cols) # None
        BY NewRowType, IdentityType, RowIsThere
           DEF Statuses, Tokens, TypeInv, ShapeInv, ShapeFact
      <4> QED
        BY <1>1, <4>1, <4>2 DEF RegisterSave, OAuthCreate, Exists
    <3> QED
      BY <1>2, <3>1 DEF WritesAccount, ResetPassword, StatusWrite, OAuthUpdate, Ended
  <2> QED
    BY <1>2, <2>1 DEF WritesAccount, AccountStep, BranchProfile, BranchCode, BranchMail, BranchKey,
       BranchForget, VerifyDelete, StoreSession, RefreshDelete, RefreshLoad,
       StatusLoad, OAuthProfile, OAuthSelect, Ended
<1>4. /\ UNCHANGED <<profile, resetKey, sessions, open>> /\ code' = None
      /\ pc'[r] \in Ended \cup {"asked", "matched", "activated", "counted", "cleared", "unlinked",
                               "creating"}
      /\ pc'[r] \in {"asked", "matched", "activated"} => held'[r].row = None
  <2> USE DEF Goto, Starts, database, redis, clients, Ended
  <2>1. ~Exists /\ \A a : ~HasStatus(a)
    BY <1>1 DEF Exists, HasStatus
  <2>2. pc \in [Requests -> Labels]
    BY DEF TypeInv, TypeOK
  <2>3. CASE RegisterCount(r) \/ ResendDelete(r) \/ ResendLoad(r) \/ LoginLoad(r) \/ ConfirmLoad(r)
             \/ Logout(r) \/ ForgetLoad(r)
    BY <1>2, <2>1, <2>2, <2>3
       DEF RegisterCount, ResendDelete, ResendLoad, LoginLoad, ConfirmLoad, Logout, ForgetLoad, MayEnter
  <2>4. CASE VerifyLoad(r) \/ VerifyCompare(r) \/ VerifyActivate(r) \/ VerifyProfile(r)
    <3>1. held \in [Requests -> HeldRecord]
      BY DEF TypeInv, TypeOK, HeldRecord
    <3>2. CASE VerifyLoad(r)
      BY <1>2, <2>1, <2>2, <3>1, <3>2 DEF VerifyLoad, Nothing
    <3>3. CASE VerifyCompare(r) \/ VerifyActivate(r) \/ VerifyProfile(r)
      BY <1>2, <2>1, <2>2, <3>3 DEF VerifyCompare, VerifyActivate, VerifyProfile, Activated
    <3> QED
      BY <2>4, <3>2, <3>3
  <2>5. CASE RefreshCheck(r) \/ ResetCheck(r)
    <3>1. \A t \in Tokens : ~Honoured(t) /\ GetForgetPasswordToken # t
      BY <1>2, RowIsThere DEF Honoured, GetForgetPasswordToken
    <3> QED
      BY <1>2, <2>2, <2>5, <3>1 DEF RefreshCheck, ResetCheck
  <2>6. CASE OAuthFind(r) \/ OAuthLookup(r)
    BY <1>2, <2>1, <2>2, <2>6 DEF OAuthFind, OAuthLookup, HasIdentity
  <2> QED
    BY <1>3, <2>3, <2>4, <2>5, <2>6
<1> QED
  BY <1>1, <1>2, <1>4, LocalStep DEF AbsentInv, LocalTo, TypeInv, TypeOK

LEMMA ShapeStep ==
  ASSUME TypeInv, NEW r \in Requests, AccountStep(r), dossier' = dossier
  PROVE  ShapeInv'
<1>t. /\ LocalTo(r) /\ ShapeFact(r)
      /\ pc \in [Requests -> Labels] /\ held \in [Requests -> HeldRecord]
      /\ open \in [Requests -> SUBSET Branches]
  BY LocalStep DEF TypeInv, TypeOK, ShapeInv, HeldRecord, Branches
<1>1. ASSUME NEW x \in Requests \ {r} PROVE ShapeFact(x)'
  <2>1. pc'[x] = pc[x] /\ held'[x] = held[x] /\ open'[x] = open[x]
    BY <1>t DEF LocalTo
  <2> QED
    BY <2>1 DEF TypeInv, ShapeInv, ShapeFact, HoldsCopy
<1>2. ShapeFact(r)'
  <2> USE <1>t DEF Goto, Starts, memory, ShapeFact, HoldsCopy, Ended
  <2>1. CASE BranchProfile(r) \/ BranchCode(r) \/ BranchMail(r) \/ BranchKey(r) \/ BranchForget(r)
    BY <2>1 DEF BranchProfile, BranchCode, BranchMail, BranchKey, BranchForget
  <2>2. CASE RegisterCount(r) \/ RegisterSave(r) \/ ResendDelete(r) \/ ResendLoad(r) \/ LoginLoad(r)
             \/ ConfirmLoad(r) \/ StoreSession(r) \/ Logout(r) \/ ForgetLoad(r)
    BY <2>2 DEF RegisterCount, RegisterSave, ResendDelete, ResendLoad, LoginLoad, ConfirmLoad,
                StoreSession, Logout, ForgetLoad
  <2>3. CASE VerifyLoad(r)
    <3>1. PICK c \in Tokens \cup {None} : held' = [held EXCEPT ![r] =
            [Nothing EXCEPT !.tok = c, !.row = IF HasStatus("PENDING") THEN account ELSE None]]
      BY <2>3 DEF VerifyLoad
    <3>2. held'[r].tok = c
      BY <3>1 DEF Nothing
    <3>3. pc'[r] = "asked" /\ open'[r] = {}
      BY <2>3 DEF VerifyLoad
    <3> QED
      BY <3>2, <3>3
  <2>9. CASE VerifyCompare(r) \/ VerifyActivate(r) \/ VerifyProfile(r) \/ VerifyDelete(r)
    BY <2>9 DEF VerifyCompare, VerifyActivate, VerifyProfile, VerifyDelete
  <2>4. CASE RefreshCheck(r) \/ RefreshDelete(r) \/ RefreshLoad(r) \/ ResetCheck(r)
             \/ ResetPassword(r)
    BY <2>4 DEF RefreshCheck, RefreshDelete, RefreshLoad, ResetCheck, ResetPassword, Nothing
  <2>5. CASE StatusLoad(r) \/ StatusWrite(r)
    <3>1. profile # "none" => account \in Row
      BY RowIsThere DEF TypeInv, AbsentInv
    <3>2. account \in Row => \A s \in Verdicts : [account EXCEPT !.status = s] \in Row
      BY ColumnSetType, VerdictsAssumption
    <3> QED
      BY <2>5, <3>1, <3>2 DEF StatusLoad, StatusWrite, Nothing
  <2>6. CASE OAuthFind(r) \/ OAuthCreate(r) \/ OAuthProfile(r) \/ OAuthUpdate(r)
    BY <2>6 DEF OAuthFind, OAuthCreate, OAuthProfile, OAuthUpdate, Nothing, Providers
  <2>7. CASE OAuthLookup(r)
    <3>1. held[r].cols \subseteq Providers
      BY <2>7 DEF OAuthLookup
    <3>2. Exists => WithIdentity(account, held[r].cols) \in Row
      BY <3>1, IdentityType, RowIsThere DEF TypeInv
    <3> QED
      BY <2>7, <3>1, <3>2 DEF OAuthLookup, HeldRecord
  <2>8. CASE OAuthSelect(r)
    BY <2>8 DEF OAuthSelect, HeldRecord
  <2> QED
    BY <2>1, <2>2, <2>3, <2>4, <2>5, <2>6, <2>7, <2>8, <2>9 DEF AccountStep
<1> QED
  BY <1>1, <1>2 DEF ShapeInv


-----------------------------------------------------------------------------
(* The steps of the handlers of the enterprise                             *)

OwnLabels == {"enrolling", "cancelling", "removing", "amending", "amendDiffed", "patching",
              "patchDiffed", "patchInserting", "judged", "reviewing", "reviewDiffed", "reviewInserting",
              "reviewed", "granting"}

(* They leave the memory of the account's handlers alone, and all but the  *)
(* last one its row.                                                       *)
LEMMA OwnStep ==
  ASSUME TypeInv, NEW r \in Requests, EnterpriseStep(r)
  PROVE  /\ pc[r] \in OwnLabels \cup {"new"} /\ pc'[r] \in OwnLabels \cup Ended
         /\ pc' = [pc EXCEPT ![r] = pc'[r]]
         /\ UNCHANGED <<profile, redis, clients, held, open, crashes, consumed, raced,
                        verified, slipped>>
         /\ RolesWrite(r) \/ UNCHANGED <<account, unaware>>
         /\ pc[r] = "new" \/ dossier'[r].row = dossier[r].row
<1> USE DEF EnterpriseStep, EnrollCheck, EnrollSave, CancelLoad, RemoveLoad, DeleteRow, AmendLoad, PatchLoad,
         ReviewLoad, ReviewFind, SaveSelect, SaveWrite, EmbeddingFails, RolesLoad, Moves, Saving,
         Goto, enterpriseVars
<1>t. pc \in [Requests -> Labels] /\ dossier \in [Requests ->
        [row : EnterpriseRow \cup {None}, cols : SUBSET EnterpriseColumns]]
  BY DEF TypeInv, TypeOK
<1>1. pc' = [pc EXCEPT ![r] = pc'[r]]
  BY <1>t DEF RolesWrite
<1>2. pc[r] \in OwnLabels \cup {"new"} /\ pc'[r] \in OwnLabels \cup Ended
  BY <1>t DEF RolesWrite, OwnLabels, Ended
<1>3. /\ UNCHANGED <<profile, redis, clients, held, open, crashes, consumed, raced,
                     verified, slipped>>
      /\ RolesWrite(r) \/ UNCHANGED <<account, unaware>>
  BY DEF RolesWrite, database, history
<1>4. pc[r] = "new" \/ dossier'[r].row = dossier[r].row
  BY <1>t DEF RolesWrite
<1> QED
  BY <1>1, <1>2, <1>3, <1>4

(* A reading of the enterprise.                                            *)
Loads(r) == CancelLoad(r) \/ RemoveLoad(r) \/ AmendLoad(r) \/ PatchLoad(r) \/ ReviewLoad(r)

LEMMA PayloadRow ==
  ASSUME NEW row \in EnterpriseRow, NEW s \in PayloadStatuses \cup {"unset"}
  PROVE  /\ WithPayload(row, s) \in EnterpriseRow
         /\ WithPayload(row, s).id = row.id
         /\ WithPayload(row, s).status = IF s = "unset" THEN row.status ELSE s
  BY ReviewsAssumption DEF WithPayload, EnterpriseRow

LEMMA DossierStep ==
  ASSUME TypeInv, NEW r \in Requests, EnterpriseStep(r)
  PROVE  /\ dossier' \in [Requests -> [row : EnterpriseRow \cup {None},
                                       cols : SUBSET EnterpriseColumns]]
         /\ \A x \in Requests \ {r} : dossier'[x] = dossier[x]
         /\ Loads(r) => dossier'[r].row \in EnterpriseRow
<1>t. /\ dossier \in [Requests -> [row : EnterpriseRow \cup {None}, cols : SUBSET EnterpriseColumns]]
      /\ TypeOK
  BY DEF TypeInv, TypeOK
<1>1. CASE CancelLoad(r) \/ RemoveLoad(r)
  <2>1. enterprise \in EnterpriseRow /\ dossier' = [dossier EXCEPT ![r].row = enterprise]
    BY <1>1, <1>t, RowIsThere DEF CancelLoad, RemoveLoad
  <2> QED
    BY <2>1, <1>t
<1>6. CASE AmendLoad(r) \/ PatchLoad(r)
  <2>1. PICK s \in PayloadStatuses \cup {"unset"} :
          dossier' = [dossier EXCEPT ![r].row = WithPayload(enterprise, s)]
    BY <1>6 DEF AmendLoad, PatchLoad
  <2>2. WithPayload(enterprise, s) \in EnterpriseRow
    BY <1>6, <1>t, RowIsThere, PayloadRow DEF AmendLoad, PatchLoad
  <2> QED
    BY <2>1, <2>2, <1>t
<1>2. CASE ReviewLoad(r)
  <2>1. PICK s \in Reviews : dossier' = [dossier EXCEPT ![r].row = [enterprise EXCEPT !.status = s]]
    BY <1>2 DEF ReviewLoad
  <2>2. [enterprise EXCEPT !.status = s] \in EnterpriseRow
    BY <1>2, <1>t, RowIsThere, ReviewsAssumption DEF ReviewLoad, EnterpriseRow
  <2> QED
    BY <2>1, <2>2, <1>t
<1>3. CASE SaveSelect(r) /\ dossier' # dossier
  <2>1. dossier' = [dossier EXCEPT ![r].cols =
                      {c \in EnterpriseColumns : dossier[r].row[c] # enterprise[c]}]
    BY <1>3 DEF SaveSelect
  <2>2. ~Loads(r)
    <3>1. pc[r] # "new"
      BY <1>3 DEF SaveSelect, Moves, Saving
    <3> QED
      BY <3>1 DEF Loads, CancelLoad, RemoveLoad, AmendLoad, PatchLoad, ReviewLoad, Moves
  <2> QED
    BY <2>1, <2>2, <1>t
<1>4. CASE dossier' = dossier /\ ~Loads(r)
  BY <1>4, <1>t
<1>5. dossier' = dossier \/ SaveSelect(r) \/ Loads(r)
  BY DEF EnterpriseStep, EnrollCheck, EnrollSave, DeleteRow, ReviewFind, SaveWrite,
         EmbeddingFails, RolesLoad, RolesWrite, enterpriseVars, Loads
<1> QED
  BY <1>1, <1>2, <1>3, <1>4, <1>5, <1>6 DEF Loads

(* The row of the enterprise after a step.                                 *)
LEMMA EnterpriseRowStep ==
  ASSUME TypeInv, NEW r \in Requests, EnterpriseStep(r)
  PROVE  enterprise' \in EnterpriseRow \cup {None}
<1>t. TypeOK /\ enterprise \in EnterpriseRow \cup {None} /\ r \in Tokens
  BY DEF TypeInv, TypeOK, Tokens
<1>1. CASE EnrollSave(r) /\ enterprise' # enterprise
  <2>1. [id |-> r, status |-> "PENDING"] \in EnterpriseRow
    BY <1>t DEF EnterpriseRow, EnterpriseStatuses
  <2>2. PICK s \in PayloadStatuses \cup {"unset"} :
          enterprise' = WithPayload([id |-> r, status |-> "PENDING"], s)
    BY <1>1 DEF EnrollSave, enterpriseVars
  <2> QED
    BY <2>1, <2>2, PayloadRow
<1>2. CASE DeleteRow(r)
  BY <1>2, <1>t DEF DeleteRow
<1>3. CASE SaveWrite(r)
  <2>1. pc[r] \in {"amendDiffed", "patchDiffed", "patchInserting", "reviewDiffed",
                   "reviewInserting"}
    BY <1>3 DEF SaveWrite, Moves
  <2>2. dossier[r].row \in EnterpriseRow
    BY <2>1 DEF TypeInv, ShapeInv, ShapeFact, HoldsCopy
  <2>3. Registered(dossier[r].row.id)
          => [enterprise EXCEPT !.status = dossier[r].row.status] \in EnterpriseRow
    BY <2>2, <1>t, RowIsThere DEF Registered, EnterpriseRow
  <2>4. Saved(r) \in EnterpriseRow \cup {None}
    BY <2>2, <2>3, <1>t DEF Saved
  <2> QED
    BY <1>3, <2>4, <1>t DEF SaveWrite, enterpriseVars
<1>4. enterprise' = enterprise \/ EnrollSave(r) \/ DeleteRow(r) \/ SaveWrite(r)
  BY DEF EnterpriseStep, EnrollCheck, CancelLoad, RemoveLoad, AmendLoad, PatchLoad, ReviewLoad, ReviewFind,
         SaveSelect, EmbeddingFails, RolesLoad, RolesWrite, enterpriseVars
<1> QED
  BY <1>1, <1>2, <1>3, <1>4, <1>t

(* What the reviews and the payloads have decided after a step.            *)
LEMMA DecisionStep ==
  ASSUME TypeInv, NEW r \in Requests, EnterpriseStep(r)
  PROVE  /\ naming' \subseteq Requests /\ verdict' \in EnterpriseStatuses
         /\ named' \in BOOLEAN
<1>t. /\ naming \subseteq Requests /\ verdict \in EnterpriseStatuses /\ named \in BOOLEAN
      /\ TypeOK
  BY DEF TypeInv, TypeOK
<1>1. CASE EnrollSave(r) \/ AmendLoad(r) \/ PatchLoad(r)
  BY <1>1, <1>t DEF EnrollSave, AmendLoad, PatchLoad, NotesNaming, enterpriseVars, decision,
     EnterpriseStatuses
<1>2. CASE SaveWrite(r)
  <2>1. Reviewing(r) => dossier[r].row.status \in EnterpriseStatuses
    BY DEF Reviewing, TypeInv, ShapeInv, ShapeFact, HoldsCopy, EnterpriseRow
  <2> QED
    BY <1>2, <1>t, <2>1 DEF SaveWrite, enterpriseVars, decision
<1>3. CASE UNCHANGED decision
  BY <1>3, <1>t DEF decision
<1>4. EnrollSave(r) \/ AmendLoad(r) \/ PatchLoad(r) \/ SaveWrite(r) \/ UNCHANGED decision
  BY DEF EnterpriseStep, EnrollCheck, CancelLoad, RemoveLoad, DeleteRow, ReviewLoad, ReviewFind,
     SaveSelect, EmbeddingFails, RolesLoad, RolesWrite, enterpriseVars
<1> QED
  BY <1>1, <1>2, <1>3, <1>4

(* The end of a review writes the roles, and nothing else of the account.  *)
LEMMA RolesStep ==
  ASSUME TypeInv, NEW r \in Requests, RolesWrite(r)
  PROVE  /\ account \in Row /\ account' \in Row
         /\ account'.status = account.status /\ account'.password = account.password
         /\ account'.roles = RolesFor(dossier[r].row.status)
         /\ Writes(r)
<1>1. account \in Row
  BY RowIsThere DEF RolesWrite, TypeInv, AbsentInv, Ended
<1>2. RolesFor(dossier[r].row.status) \subseteq Roles
  BY DEF RolesFor, Roles
<1> QED
  BY <1>1, <1>2, ColumnSetType DEF RolesWrite, Row

LEMMA EnterpriseTypeInv ==
  ASSUME TypeInv, NEW r \in Requests, EnterpriseStep(r)
  PROVE  TypeInv'
<1>t. TypeOK /\ AbsentInv /\ ShapeInv
  BY DEF TypeInv
<1>o. /\ pc[r] \in OwnLabels \cup {"new"} /\ pc'[r] \in OwnLabels \cup Ended
      /\ pc' = [pc EXCEPT ![r] = pc'[r]]
      /\ UNCHANGED <<profile, redis, clients, held, open, crashes, consumed, raced,
                     verified, slipped>>
      /\ RolesWrite(r) \/ UNCHANGED <<account, unaware>>
      /\ pc[r] = "new" \/ dossier'[r].row = dossier[r].row
  BY OwnStep
<1>p. pc \in [Requests -> Labels]
  BY <1>t DEF TypeOK
<1>a. account' \in Row \cup {None} /\ unaware' \subseteq Requests /\ (Exists => Exists')
      /\ (RolesWrite(r) => Exists')
  BY <1>o, <1>t, RolesStep, RowIsThere DEF TypeOK, Exists, Writes
<1>1. TypeOK'
  <2>1. pc' \in [Requests -> Labels]
    BY <1>o, <1>p DEF OwnLabels, Labels
  <2>4. /\ naming' \subseteq Requests /\ verdict' \in EnterpriseStatuses
        /\ named' \in BOOLEAN
    BY DecisionStep
  <2>2. crossed' \subseteq Requests /\ lapsed' \in BOOLEAN
    BY <1>t DEF TypeOK, EnterpriseStep, EnrollCheck, EnrollSave, CancelLoad, RemoveLoad, DeleteRow,
         AmendLoad, PatchLoad, ReviewLoad, ReviewFind, SaveSelect, SaveWrite, EmbeddingFails, RolesLoad,
         RolesWrite, enterpriseVars, Touches, Studies
  <2>3. UNCHANGED <<profile, code, resetKey, sessions, mailed, issued, held, open, crashes,
                    consumed, raced, verified, slipped>>
    BY <1>o DEF redis, clients
  <2> QED
    BY <1>t, <1>a, <2>1, <2>2, <2>3, <2>4, DossierStep, EnterpriseRowStep DEF TypeOK
<1>2. AbsentInv'
  <2> SUFFICES ASSUME ~Exists' PROVE FALSE
    BY DEF AbsentInv
  <2>1. ~Exists /\ ~RolesWrite(r)
    BY <1>a
  <2>2. enterprise = None /\ pc[r] = "new"
    BY <2>1, <1>t, <1>o DEF AbsentInv, OwnLabels, Ended
  <2> QED
    BY <2>1, <2>2 DEF EnterpriseStep, EnrollCheck, EnrollSave, CancelLoad, RemoveLoad, DeleteRow,
       AmendLoad, PatchLoad, ReviewLoad, ReviewFind, SaveSelect, SaveWrite, EmbeddingFails, RolesLoad, Moves,
       Saving
<1>3. ShapeInv'
  <2>1. ASSUME NEW x \in Requests \ {r} PROVE ShapeFact(x)'
    <3>1. pc'[x] = pc[x] /\ dossier'[x] = dossier[x] /\ held' = held /\ open' = open
      BY <1>o, <1>p, DossierStep
    <3> QED
      BY <3>1, <1>t DEF ShapeInv, ShapeFact, HoldsCopy
  <2>2. ShapeFact(r)'
    <3>1. HoldsCopy(r)' => dossier'[r].row \in EnterpriseRow
      <4>1. CASE HoldsCopy(r)
        BY <4>1, <1>o, <1>t DEF ShapeInv, ShapeFact, HoldsCopy
      <4>2. CASE pc[r] = "new" /\ ~Loads(r)
        <5>1. EnrollCheck(r)
          BY <4>2 DEF EnterpriseStep, EnrollSave, DeleteRow, ReviewFind, SaveSelect, SaveWrite,
             EmbeddingFails, RolesLoad, RolesWrite, Moves, Saving, Loads
        <5> QED
          BY <5>1, <1>p DEF EnrollCheck, Moves, Goto, HoldsCopy
      <4>3. CASE pc[r] = "enrolling"
        <5>1. EnrollSave(r)
          BY <4>3 DEF EnterpriseStep, EnrollCheck, CancelLoad, RemoveLoad, AmendLoad, PatchLoad, ReviewLoad,
             DeleteRow, ReviewFind, SaveSelect, SaveWrite, EmbeddingFails, RolesLoad, RolesWrite,
             Moves, Saving
        <5> QED
          BY <5>1, <1>p DEF EnrollSave, Moves, Goto, HoldsCopy
      <4>4. CASE Loads(r)
        BY <4>4, DossierStep
      <4> QED
        BY <4>1, <4>2, <4>3, <4>4, <1>o DEF HoldsCopy, OwnLabels
    <3>2. held' = held /\ open' = open /\ ShapeFact(r)
      BY <1>o, <1>t DEF ShapeInv
    <3>3. "forget" \notin open[r]
      BY <3>2, <1>o DEF ShapeFact, OwnLabels, Ended
    <3> QED
      BY <3>1, <3>2, <3>3, <1>o DEF ShapeFact, OwnLabels, Ended
  <2> QED
    BY <2>1, <2>2 DEF ShapeInv
<1> QED
  BY <1>1, <1>2, <1>3 DEF TypeInv


-----------------------------------------------------------------------------
(* The type invariant                                                      *)

LEMMA ExpireTypeInv == TypeInv /\ Expire /\ UNCHANGED enterpriseVars => TypeInv'
<1> SUFFICES ASSUME TypeInv, Expire, UNCHANGED enterpriseVars PROVE TypeInv'
  OBVIOUS
<1>1. /\ code' \in {code, None} /\ resetKey' \in {resetKey, None} /\ sessions' \subseteq sessions
      /\ UNCHANGED <<account, profile, mailed, issued, pc, held, open, crashes, consumed, raced,
                     unaware, verified, slipped, enterprise, dossier, crossed, lapsed, decision>>
  BY DEF Expire, database, clients, memory, history, enterpriseVars
<1>2. TypeOK'
  BY <1>1 DEF TypeInv, TypeOK, decision
<1>3. AbsentInv'
  BY <1>1 DEF TypeInv, AbsentInv, Exists
<1>4. ShapeInv'
  BY <1>1 DEF TypeInv, ShapeInv, ShapeFact, HoldsCopy
<1> QED
  BY <1>2, <1>3, <1>4 DEF TypeInv

(* After the end of the process every handler that was under way is dead.  *)
LEMMA CrashStep ==
  ASSUME TypeInv, ProcessEnds
  PROVE  /\ \A r \in Requests : /\ pc'[r] \in Ended \cup {"new"}
                                /\ pc'[r] = "new" <=> pc[r] = "new"
                                /\ pc[r] \in Ended => pc'[r] = pc[r]
                                /\ open'[r] = {}
         /\ UNCHANGED <<account, profile, code, resetKey, sessions, mailed, issued, held, consumed,
                        verified, enterprise, dossier, decision>>
         /\ unaware' = {} /\ crossed' = {}
  BY DEF ProcessEnds, Crash, Live, Ended, database, redis, clients

LEMMA CrashTypeInv == TypeInv /\ ProcessEnds => TypeInv'
<1> SUFFICES ASSUME TypeInv, ProcessEnds PROVE TypeInv'
  OBVIOUS
<1>1. /\ \A r \in Requests : /\ pc'[r] \in Ended \cup {"new"}
                             /\ pc'[r] = "new" <=> pc[r] = "new"
                             /\ open'[r] = {}
      /\ UNCHANGED <<account, profile, code, resetKey, sessions, mailed, issued, held, consumed,
                     verified, enterprise, dossier, decision>>
      /\ unaware' = {} /\ crossed' = {}
  BY CrashStep
<1>2. TypeOK'
  <2>1. pc' \in [Requests -> Labels] /\ open' \in [Requests -> SUBSET Branches]
    <3>1. pc' = [r \in Requests |-> pc'[r]] /\ open' = [r \in Requests |-> open'[r]]
      BY DEF ProcessEnds, Crash
    <3> QED
      BY <3>1, <1>1 DEF Labels
  <2>2. crashes' \in 0..MaxCrashes
    BY CrashAssumption DEF TypeInv, TypeOK, ProcessEnds, Crash
  <2>3. raced' \subseteq Tokens
    BY DEF TypeInv, TypeOK, ShapeInv, ShapeFact, ProcessEnds, Crash
  <2>4. slipped' \in BOOLEAN /\ lapsed' \in BOOLEAN
    BY DEF TypeInv, TypeOK, ProcessEnds, Crash
  <2> QED
    BY <1>1, <2>1, <2>2, <2>3, <2>4 DEF TypeInv, TypeOK, Branches, decision
<1>3. AbsentInv'
  BY <1>1 DEF TypeInv, AbsentInv, Exists, Ended
<1>4. ShapeInv'
  BY <1>1 DEF TypeInv, ShapeInv, ShapeFact, HoldsCopy, Ended
<1> QED
  BY <1>2, <1>3, <1>4 DEF TypeInv

LEMMA TypeInvStep == TypeInv /\ [Next]_vars => TypeInv'
<1> SUFFICES ASSUME TypeInv, [Next]_vars PROVE TypeInv'
  OBVIOUS
<1>1. CASE AccountMoves
  <2>1. PICK r \in Requests : AccountStep(r)
    BY <1>1 DEF AccountMoves
  <2>2. /\ UNCHANGED <<enterprise, dossier, crossed, decision>>
        /\ lapsed' \in BOOLEAN
    BY <1>1 DEF AccountMoves, TypeInv, TypeOK
  <2> QED
    BY <2>1, <2>2, AccountTypeOK, AbsentStep, ShapeStep DEF TypeInv
<1>2. CASE \E r \in Requests : EnterpriseStep(r)
  BY <1>2, EnterpriseTypeInv
<1>3. CASE Expire /\ UNCHANGED enterpriseVars
  BY <1>3, ExpireTypeInv
<1>4. CASE ProcessEnds
  BY <1>4, CrashTypeInv
<1>5. CASE UNCHANGED vars
  <2> USE <1>5 DEF TypeInv, vars, accountVars, database, redis, clients, memory, history,
                   enterpriseVars, decision
  <2>1. TypeOK'
    BY DEF TypeOK
  <2>2. AbsentInv'
    BY DEF AbsentInv, Exists
  <2>3. ShapeInv'
    BY DEF ShapeInv, ShapeFact, HoldsCopy
  <2> QED
    BY <2>1, <2>2, <2>3
<1> QED
  BY <1>1, <1>2, <1>3, <1>4, <1>5 DEF Next

LEMMA TypeInvAlways == Spec => []TypeInv
  BY TypeInvInit, TypeInvStep, PTL DEF Spec

(* Type correctness of every variable of the account and of the            *)
(* enterprise, across every handler, every expiry and every crash.         *)
THEOREM TypeCorrect == Spec => []TypeOK
<1>1. TypeInv => TypeOK
  BY DEF TypeInv
<1> QED
  BY <1>1, TypeInvAlways, PTL

-----------------------------------------------------------------------------
(* The profile of a verified address                                       *)

LEMMA ProfileStep ==
  ASSUME TypeInv, ProfileFollows, NEW r \in Requests, AccountStep(r)
  PROVE  ProfileFollows'
<1> USE DEF ProfileFollows
<1>1. CASE BranchProfile(r) \/ OAuthProfile(r)
  BY <1>1 DEF BranchProfile, OAuthProfile, StoreProfile, TypeInv, TypeOK
<1>2. CASE VerifyProfile(r)
  BY <1>2 DEF VerifyProfile, Activated, TypeInv, TypeOK
<1>3. CASE UNCHANGED <<profile, verified, slipped>>
  BY <1>3
<1>4. UNCHANGED <<profile, verified, slipped>> \/ VerifyProfile(r) \/ BranchProfile(r) \/ OAuthProfile(r)
  BY DEF AccountStep, RegisterCount, RegisterSave, BranchCode, BranchMail, BranchKey,
         BranchForget, VerifyLoad, VerifyCompare, VerifyActivate, VerifyDelete, ResendDelete,
         ResendLoad, LoginLoad, ConfirmLoad, StoreSession, RefreshCheck, RefreshDelete, RefreshLoad,
         Logout, ForgetLoad, ResetCheck, ResetPassword, StatusLoad, StatusWrite, OAuthFind,
         OAuthLookup, OAuthCreate, OAuthSelect, OAuthUpdate, database, history
<1> QED
  BY <1>1, <1>2, <1>3, <1>4

(* Once the address is verified its profile is active: the one register    *)
(* stores in the background is not left inactive, unless it was stored     *)
(* after the verification, never, or cut off by a crash.                   *)
THEOREM ProfileIsFollowed == Spec => []ProfileFollows
<1>1. Init => ProfileFollows
  BY DEF Init, AccountInit, ProfileFollows
<1>2. TypeInv /\ ProfileFollows /\ [Next]_vars => ProfileFollows'
  <2> SUFFICES ASSUME TypeInv, ProfileFollows, [Next]_vars PROVE ProfileFollows'
    OBVIOUS
  <2>1. CASE AccountMoves
    BY <2>1, ProfileStep DEF AccountMoves
  <2>2. CASE \E r \in Requests : EnterpriseStep(r)
    BY <2>2, OwnStep DEF ProfileFollows
  <2>3. CASE (Expire /\ UNCHANGED enterpriseVars) \/ UNCHANGED vars
    BY <2>3 DEF Expire, ProfileFollows, vars, accountVars, database, history
  <2>4. CASE ProcessEnds
    BY <2>4 DEF ProcessEnds, Crash, ProfileFollows, database
  <2> QED
    BY <2>1, <2>2, <2>3, <2>4 DEF Next
<1> QED
  BY <1>1, <1>2, TypeInvAlways, PTL DEF Spec


-----------------------------------------------------------------------------
(* Refresh tokens and reset links                                          *)

TokenInv == ClaimsInv /\ LinksInv

(* A step that takes, stores or uses up no token.                          *)
Quiet ==
    /\ sessions' \subseteq sessions /\ resetKey' \in {resetKey, None}
    /\ UNCHANGED <<consumed, raced>>
    /\ \A t \in Tokens : Refresh(t) \in issued' <=> Refresh(t) \in issued
    /\ \A x \in Requests :
         /\ "key" \in open'[x] <=> "key" \in open[x]
         /\ "forget" \in open'[x] <=> "forget" \in open[x]
         /\ \/ pc'[x] = pc[x]
            \/ /\ pc[x] \notin Ended \cup {"checked", "resetting"}
               /\ pc'[x] \notin {"new", "checked", "resetting"}
         /\ \/ held'[x].tok = held[x].tok
            \/ pc'[x] \notin {"checked", "resetting"} /\ "forget" \notin open[x]

LEMMA QuietKeeps == TypeInv /\ TokenInv /\ Quiet => TokenInv'
<1> SUFFICES ASSUME TypeInv, TokenInv, Quiet PROVE TokenInv'
  OBVIOUS
<1> USE DEF TokenInv, ClaimsInv, LinksInv
<1>t. /\ sessions \subseteq Tokens /\ Requests \subseteq Tokens
      /\ \A x \in Requests : pc[x] = "checked" \/ pc[x] = "resetting" \/ "forget" \in open[x]
                               => held[x].tok \in Tokens
      /\ None \notin Tokens
  BY RowIsThere DEF TypeInv, TypeOK, ShapeInv, ShapeFact, Tokens
<1>c. /\ \A x \in Requests : \A t \in Tokens : Claims(x, t)' => Claims(x, t)
      /\ \A x \in Requests : \A t \in Tokens : InWindow(x, t) => InWindow(x, t)'
      /\ \A t \in Tokens : Available(t)' => Available(t)
  BY <1>t DEF Quiet, Claims, InWindow, Available, Ended
<1>1. OneClaim'
  BY <1>c, <1>t DEF OneClaim, Quiet
<1>2. ClaimsOverlap'
  BY <1>c, <1>t DEF ClaimsOverlap, Quiet
<1>3. MakersOfClaimed'
  BY <1>c, <1>t DEF MakersOfClaimed, Quiet
<1>4. ConsumedLater'
  BY DEF ConsumedLater, Quiet
<1>5. KeysLinked'
  BY <1>t DEF KeysLinked, Quiet
<1>6. HoldersLinked'
  BY <1>t DEF HoldersLinked, Quiet
<1>7. MakersLinked'
  BY <1>t DEF MakersLinked, Quiet
<1> QED
  BY <1>1, <1>2, <1>3, <1>4, <1>5, <1>6, <1>7

TokenStep(r) == \/ StoreSession(r) \/ RefreshCheck(r) \/ RefreshDelete(r) \/ ForgetLoad(r)
                \/ BranchKey(r) \/ ResetCheck(r) \/ BranchForget(r) \/ ResetPassword(r)

LEMMA QuietStep ==
  ASSUME TypeInv, TokenInv, NEW r \in Requests, AccountStep(r), ~TokenStep(r)
  PROVE  Quiet
<1>t. /\ pc \in [Requests -> Labels] /\ held \in [Requests -> HeldRecord]
      /\ open \in [Requests -> SUBSET Branches]
      /\ LocalTo(r)
  BY LocalStep DEF TypeInv, TypeOK, HeldRecord, Branches
<1>o. pc[r] \notin Ended \cup {"resetting"} => "key" \notin open[r] /\ "forget" \notin open[r]
  BY DEF TypeInv, ShapeInv, ShapeFact, TokenInv, LinksInv, MakersLinked
<1>s. \/ RegisterCount(r) \/ RegisterSave(r) \/ BranchProfile(r) \/ BranchCode(r) \/ BranchMail(r)
      \/ VerifyLoad(r) \/ VerifyCompare(r) \/ VerifyActivate(r) \/ VerifyProfile(r)
      \/ VerifyDelete(r) \/ ResendDelete(r) \/ ResendLoad(r) \/ LoginLoad(r) \/ ConfirmLoad(r)
      \/ RefreshLoad(r) \/ Logout(r) \/ StatusLoad(r) \/ StatusWrite(r) \/ OAuthFind(r)
      \/ OAuthLookup(r) \/ OAuthCreate(r) \/ OAuthProfile(r) \/ OAuthSelect(r) \/ OAuthUpdate(r)
  BY DEF AccountStep, TokenStep
<1> USE DEF RegisterCount, RegisterSave, BranchProfile, BranchCode, BranchMail,
         VerifyLoad, VerifyCompare, VerifyActivate, VerifyProfile, VerifyDelete, ResendDelete,
         ResendLoad, LoginLoad, ConfirmLoad, RefreshLoad, Logout, StatusLoad, StatusWrite,
         OAuthFind, OAuthLookup, OAuthCreate, OAuthProfile, OAuthSelect, OAuthUpdate,
         Goto, Starts, redis, clients, memory, history
<1>1. UNCHANGED <<sessions, resetKey, consumed, raced>>
  BY <1>s
<1>2. issued' \in {issued, issued \cup {Ticket(r)}}
  BY <1>s
<1>3. \/ pc'[r] = pc[r]
      \/ pc[r] \notin Ended \cup {"checked", "resetting"} /\ pc'[r] \notin {"new", "checked", "resetting"}
  BY <1>s, <1>t DEF Ended
<1>4. /\ "key" \in open'[r] <=> "key" \in open[r]
      /\ "forget" \in open'[r] <=> "forget" \in open[r]
  <2>1. CASE RegisterSave(r) \/ ResendLoad(r)
    BY <2>1, <1>t, <1>o DEF Ended
  <2>2. CASE BranchProfile(r) \/ BranchCode(r) \/ BranchMail(r)
    BY <2>2, <1>t
  <2>3. CASE open' = open
    BY <2>3
  <2> QED
    BY <1>s, <2>1, <2>2, <2>3
<1>5. \/ held'[r].tok = held[r].tok
      \/ pc'[r] \notin {"checked", "resetting"} /\ "forget" \notin open[r]
  <2>1. \/ held' = held
        \/ pc[r] \notin Ended \cup {"resetting"} /\ pc'[r] \notin {"checked", "resetting"}
    BY <1>s, <1>t DEF Ended
  <2> QED
    BY <2>1, <1>o
<1>6. \A x \in Requests \ {r} : pc'[x] = pc[x] /\ held'[x] = held[x] /\ open'[x] = open[x]
  BY <1>t DEF LocalTo
<1>7. \A t \in Tokens : Refresh(t) \in issued' <=> Refresh(t) \in issued
  BY <1>2, TokenNames
<1> QED
  BY <1>1, <1>3, <1>4, <1>5, <1>6, <1>7 DEF Quiet

LEMMA OwnQuiet ==
  ASSUME TypeInv, NEW r \in Requests, EnterpriseStep(r)
  PROVE  Quiet
<1>1. /\ pc[r] \in OwnLabels \cup {"new"} /\ pc'[r] \in OwnLabels \cup Ended
      /\ pc' = [pc EXCEPT ![r] = pc'[r]] /\ pc \in [Requests -> Labels]
      /\ UNCHANGED <<sessions, resetKey, consumed, raced, issued, held, open>>
  BY OwnStep DEF TypeInv, TypeOK, redis, clients
<1>2. \A x \in Requests : pc'[x] = pc[x] \/ x = r
  BY <1>1
<1> QED
  BY <1>1, <1>2 DEF Quiet, OwnLabels, Ended


(* What the steps on tokens have in common.                                *)
LEMMA TokenFacts ==
  ASSUME TypeInv, NEW r \in Requests, AccountStep(r)
  PROVE  /\ sessions \subseteq Tokens /\ Requests \subseteq Tokens /\ None \notin Tokens
         /\ pc \in [Requests -> Labels] /\ held \in [Requests -> HeldRecord]
         /\ open \in [Requests -> SUBSET Branches]
         /\ \A x \in Requests \ {r} : /\ pc'[x] = pc[x] /\ held'[x] = held[x] /\ open'[x] = open[x]
         /\ \A x \in Requests :
              /\ pc[x] = "checked" \/ pc[x] = "resetting" \/ "forget" \in open[x]
                   => held[x].tok \in Tokens
              /\ pc[x] = "new" => held[x].tok = None /\ open[x] = {}
              /\ "forget" \in open[x] => pc[x] \in Ended \cup {"resetting"}
<1>1. LocalTo(r)
  BY LocalStep
<1> QED
  BY <1>1, RowIsThere DEF LocalTo, TypeInv, TypeOK, ShapeInv, ShapeFact, Tokens, HeldRecord, Branches,
     Nothing

(* A stored token has just been made: nobody claims it yet.                *)
LEMMA StoreSessionTokens ==
  ASSUME TypeInv, TokenInv, NEW r \in Requests, StoreSession(r)
  PROVE  TokenInv'
<1> USE DEF TokenInv, ClaimsInv, LinksInv
<1>t. /\ sessions \subseteq Tokens /\ Requests \subseteq Tokens /\ None \notin Tokens
      /\ pc \in [Requests -> Labels]
      /\ \A x \in Requests : pc[x] = "checked" \/ pc[x] = "resetting" \/ "forget" \in open[x]
                               => held[x].tok \in Tokens
  BY TokenFacts DEF AccountStep
<1>s. /\ pc[r] = "storing" /\ pc' = [pc EXCEPT ![r] = "done"]
      /\ sessions' \subseteq sessions \cup {r} /\ issued' = issued \cup {Refresh(r)}
      /\ UNCHANGED <<resetKey, held, open, consumed, raced>>
  BY DEF StoreSession, StoreRefreshToken, DeleteRefreshToken, Goto, history
<1>i. \A t \in Tokens : Refresh(t) \in issued' <=> Refresh(t) \in issued \/ t = r
  BY <1>s, TokenNames
<1>n. \A x \in Requests : ~Claims(x, r)
  BY <1>s DEF MakersOfClaimed, Ended
<1>c. /\ \A x \in Requests : \A t \in Tokens : Claims(x, t)' <=> Claims(x, t)
      /\ \A x \in Requests : \A t \in Tokens : InWindow(x, t)' <=> InWindow(x, t)
      /\ \A t \in Tokens : Available(t)' => Available(t) \/ t = r
  BY <1>t, <1>s DEF Claims, InWindow, Available
<1>1. OneClaim'
  BY <1>c, <1>s DEF OneClaim
<1>2. ClaimsOverlap'
  BY <1>c, <1>s, <1>n DEF ClaimsOverlap
<1>3. MakersOfClaimed'
  BY <1>c, <1>t, <1>s, <1>n DEF MakersOfClaimed, Ended
<1>4. ConsumedLater'
  BY <1>t, <1>s DEF ConsumedLater
<1>5. KeysLinked'
  BY <1>t, <1>s, <1>i DEF KeysLinked, MakersLinked, Ended
<1>6. HoldersLinked'
  <2>1. \A x \in Requests : pc[x] = "resetting" \/ "forget" \in open[x] => held[x].tok # r
    BY <1>n DEF Claims
  <2> QED
    BY <1>t, <1>s, <1>i, <2>1 DEF HoldersLinked
<1>7. MakersLinked'
  BY <1>t, <1>s, <1>i DEF MakersLinked, Ended
<1> QED
  BY <1>1, <1>2, <1>3, <1>4, <1>5, <1>6, <1>7

(* Whoever reads a token that is still there overlaps with everyone who    *)
(* claims it.                                                              *)
LEMMA ReaderOverlaps ==
  ASSUME TypeInv, TokenInv, NEW r \in Requests, pc[r] = "new", held[r].tok = None,
         NEW t \in Tokens, Available(t)
  PROVE  t \in raced \/ Overlaps(r, t) \/ \A x \in Requests : ~Claims(x, t)
<1> SUFFICES ASSUME t \notin raced, NEW x \in Requests, Claims(x, t) PROVE Overlaps(r, t)
  OBVIOUS
<1>1. InWindow(x, t)
  BY DEF TokenInv, ClaimsInv, ClaimsOverlap
<1>2. x # r
  BY <1>1, RowIsThere DEF InWindow
<1> QED
  BY <1>1, <1>2 DEF Overlaps

LEMMA ReadingTokens ==
  ASSUME TypeInv, TokenInv, NEW r \in Requests, RefreshCheck(r) \/ ResetCheck(r)
  PROVE  TokenInv'
<1> USE DEF TokenInv, ClaimsInv, LinksInv
<1>a. AccountStep(r)
  BY DEF AccountStep
<1>t. /\ sessions \subseteq Tokens /\ Requests \subseteq Tokens /\ None \notin Tokens
      /\ pc \in [Requests -> Labels] /\ held \in [Requests -> HeldRecord]
      /\ open \in [Requests -> SUBSET Branches]
      /\ \A x \in Requests \ {r} : /\ pc'[x] = pc[x] /\ held'[x] = held[x] /\ open'[x] = open[x]
      /\ \A x \in Requests :
           /\ pc[x] = "checked" \/ pc[x] = "resetting" \/ "forget" \in open[x]
                => held[x].tok \in Tokens
           /\ pc[x] = "new" => held[x].tok = None /\ open[x] = {}
           /\ "forget" \in open[x] => pc[x] \in Ended \cup {"resetting"}
  BY <1>a, TokenFacts
<1>u. UNCHANGED <<sessions, resetKey, issued, consumed>> /\ pc[r] = "new"
  BY DEF RefreshCheck, ResetCheck, redis, clients, Starts
<1>1. CASE pc'[r] = "rejected"
  <2>1. UNCHANGED <<held, open, raced>>
    BY <1>1, <1>t DEF RefreshCheck, ResetCheck, Goto
  <2> QED
    BY <1>1, <1>t, <1>u, <2>1, QuietKeeps DEF Quiet, Ended
<1>2. CASE pc'[r] # "rejected"
  <2>1. PICK t \in Tokens :
          /\ Available(t) /\ held'[r].tok = t
          /\ \/ pc'[r] = "checked" /\ open'[r] = {} /\ t \in sessions
             \/ pc'[r] = "resetting" /\ open'[r] = {"forget"} /\ resetKey = t
          /\ raced' = IF Overlaps(r, t) THEN raced \cup {t} ELSE raced
    <3>1. CASE RefreshCheck(r)
      BY <1>2, <1>t, <1>u, <3>1 DEF RefreshCheck, Goto, Nothing, Honoured, Available
    <3>2. CASE ResetCheck(r)
      BY <1>2, <1>t, <1>u, <3>2 DEF ResetCheck, Goto, Nothing, GetForgetPasswordToken, Available
    <3> QED
      BY <3>1, <3>2
  <2>2. t \notin raced' => \A x \in Requests : ~Claims(x, t)
    BY <1>t, <1>u, <2>1, ReaderOverlaps
  <2>3. InWindow(r, t)' /\ \A u \in Tokens : Claims(r, u)' => u = t
    <3>1. \A u \in Tokens : <<r, u>> \notin consumed
      BY <1>u DEF ConsumedLater
    <3> QED
      BY <1>u, <2>1, <3>1 DEF Claims, InWindow
  <2>4. \A x \in Requests \ {r} : \A u \in Tokens :
          (Claims(x, u)' <=> Claims(x, u)) /\ (InWindow(x, u)' <=> InWindow(x, u))
    BY <1>t, <1>u DEF Claims, InWindow
  <2>5. (\A u \in Tokens : Available(u)' <=> Available(u)) /\ raced \subseteq raced'
    BY <1>u, <2>1 DEF Available
  <2>6. t \in Requests => t # r /\ pc[t] \in Ended /\ "key" \notin open[t]
    BY <1>u, <2>1 DEF KeysLinked, MakersLinked, Ended
  <2>7. OneClaim'
    BY <2>2, <2>3, <2>4, <2>5 DEF OneClaim
  <2>8. ClaimsOverlap'
    BY <2>2, <2>3, <2>4, <2>5 DEF ClaimsOverlap
  <2>9. MakersOfClaimed'
    <3> SUFFICES ASSUME NEW u \in Requests, NEW x \in Requests, Claims(x, u)'
                 PROVE  pc'[u] \in Ended /\ "key" \notin open'[u]
      BY DEF MakersOfClaimed
    <3>1. u # r /\ pc[u] \in Ended /\ "key" \notin open[u]
      <4>1. CASE x = r
        BY <4>1, <1>t, <2>3, <2>6
      <4>2. CASE x # r
        BY <4>2, <1>t, <1>u, <2>4 DEF MakersOfClaimed, Ended
      <4> QED
        BY <4>1, <4>2
    <3> QED
      BY <3>1, <1>t
  <2>10. ConsumedLater'
    BY <1>t, <1>u DEF ConsumedLater
  <2>11. KeysLinked'
    BY <1>u DEF KeysLinked
  <2>12. HoldersLinked'
    BY <1>t, <1>u, <2>1 DEF HoldersLinked, KeysLinked
  <2>13. MakersLinked'
    BY <1>t, <1>u, <2>1 DEF MakersLinked, Ended
  <2> QED
    BY <2>7, <2>8, <2>9, <2>10, <2>11, <2>12, <2>13
<1> QED
  BY <1>1, <1>2


(* A token that is used up is no longer there, or is still being deleted.  *)
LEMMA UsingTokens ==
  ASSUME TypeInv, TokenInv, NEW r \in Requests, RefreshDelete(r) \/ ResetPassword(r)
  PROVE  TokenInv'
<1> USE DEF TokenInv, ClaimsInv, LinksInv
<1>a. AccountStep(r)
  BY DEF AccountStep
<1>t. /\ sessions \subseteq Tokens /\ Requests \subseteq Tokens /\ None \notin Tokens
      /\ pc \in [Requests -> Labels]
      /\ \A x \in Requests \ {r} : pc'[x] = pc[x]
      /\ \A x \in Requests : pc[x] = "checked" \/ pc[x] = "resetting" \/ "forget" \in open[x]
                               => held[x].tok \in Tokens
  BY <1>a, TokenFacts
<1> DEFINE t == held[r].tok
<1>s. /\ pc[r] \in {"checked", "resetting"} /\ pc'[r] \in {"owned", "done"}
      /\ consumed' = consumed \cup {<<r, t>>}
      /\ sessions' \subseteq sessions
      /\ pc[r] = "checked" => t \notin sessions'
      /\ UNCHANGED <<resetKey, issued, held, open, raced>>
  BY <1>t DEF RefreshDelete, ResetPassword, DeleteRefreshToken, Goto, redis, clients
<1>c. t \in Tokens /\ Claims(r, t) /\ Claims(r, t)'
  BY <1>t, <1>s DEF Claims
<1>k. /\ \A x \in Requests : \A u \in Tokens : Claims(x, u)' => Claims(x, u)
      /\ \A x \in Requests \ {r} : \A u \in Tokens : InWindow(x, u)' <=> InWindow(x, u)
      /\ \A u \in Tokens : Available(u)' => Available(u)
  BY <1>t, <1>s DEF Claims, InWindow, Available
<1>1. OneClaim'
  BY <1>k, <1>s DEF OneClaim
<1>2. ClaimsOverlap'
  <2> SUFFICES ASSUME NEW u \in Tokens \ raced, Available(u)', NEW x \in Requests, Claims(x, u)'
               PROVE  InWindow(x, u)'
    BY <1>s DEF ClaimsOverlap
  <2>1. Available(u) /\ Claims(x, u) /\ InWindow(x, u)
    BY <1>k DEF ClaimsOverlap
  <2>2. CASE x # r
    BY <1>k, <2>1, <2>2
  <2>3. CASE x = r /\ pc[r] = "resetting"
    BY <1>s, <2>1, <2>3 DEF InWindow
  <2>4. CASE x = r /\ pc[r] = "checked"
    <3>1. u = t /\ u \notin sessions'
      BY <1>s, <2>1, <2>4 DEF InWindow
    <3>2. resetKey # u
      BY <1>c, <1>t, <2>4, <3>1 DEF HoldersLinked, KeysLinked
    <3> QED
      BY <1>s, <3>1, <3>2 DEF Available
  <2> QED
    BY <1>s, <2>2, <2>3, <2>4
<1>3. MakersOfClaimed'
  BY <1>k, <1>t, <1>s DEF MakersOfClaimed, Ended
<1>4. ConsumedLater'
  BY <1>t, <1>s DEF ConsumedLater
<1>5. KeysLinked'
  BY <1>s DEF KeysLinked
<1>6. HoldersLinked'
  BY <1>t, <1>s DEF HoldersLinked
<1>7. MakersLinked'
  BY <1>t, <1>s DEF MakersLinked, Ended
<1> QED
  BY <1>1, <1>2, <1>3, <1>4, <1>5, <1>6, <1>7

(* A reset link is made and stored before anyone claims it, and deleting   *)
(* the key only takes a token away.                                        *)
LEMMA ResetKeyTokens ==
  ASSUME TypeInv, TokenInv, NEW r \in Requests, ForgetLoad(r) \/ BranchKey(r) \/ BranchForget(r)
  PROVE  TokenInv'
<1> USE DEF TokenInv, ClaimsInv, LinksInv
<1>a. AccountStep(r)
  BY DEF AccountStep
<1>t. /\ sessions \subseteq Tokens /\ Requests \subseteq Tokens /\ None \notin Tokens
      /\ pc \in [Requests -> Labels] /\ open \in [Requests -> SUBSET Branches]
      /\ \A x \in Requests \ {r} : pc'[x] = pc[x] /\ open'[x] = open[x]
      /\ \A x \in Requests :
           /\ pc[x] = "checked" \/ pc[x] = "resetting" \/ "forget" \in open[x]
                => held[x].tok \in Tokens
           /\ pc[x] = "new" => held[x].tok = None /\ open[x] = {}
           /\ "forget" \in open[x] => pc[x] \in Ended \cup {"resetting"}
  BY <1>a, TokenFacts
<1>u. UNCHANGED <<sessions, issued, held, consumed, raced>>
  BY DEF ForgetLoad, BranchKey, BranchForget, redis, clients, history
<1>1. CASE ForgetLoad(r)
  <2>o. open'[r] \in {{}, {"key"}, {"key", "mailLink"}}
    BY <1>1, <1>t DEF ForgetLoad, Starts
  <2>s. /\ pc[r] = "new" /\ pc'[r] \in {"done", "rejected", "failed"}
        /\ open'[r] \in {{}, {"key"}, {"key", "mailLink"}} /\ resetKey' = resetKey
    BY <1>1, <1>t, <2>o DEF ForgetLoad, Starts, Goto, redis
  <2>1. /\ \A x \in Requests : Claims(x, r) => FALSE
        /\ Refresh(r) \notin issued /\ resetKey # r
    BY <2>s DEF MakersOfClaimed, MakersLinked, Ended
  <2>2. /\ \A x \in Requests : \A t \in Tokens : Claims(x, t)' <=> Claims(x, t)
        /\ \A x \in Requests : \A t \in Tokens : InWindow(x, t)' <=> InWindow(x, t)
        /\ \A t \in Tokens : Available(t)' <=> Available(t)
    BY <1>t, <1>u, <2>s DEF Claims, InWindow, Available
  <2>3. OneClaim' /\ ClaimsOverlap'
    BY <2>2, <1>u DEF OneClaim, ClaimsOverlap
  <2>4. MakersOfClaimed'
    BY <2>1, <2>2, <1>t DEF MakersOfClaimed
  <2>5. ConsumedLater' /\ KeysLinked' /\ HoldersLinked'
    BY <1>t, <1>u, <2>s DEF ConsumedLater, KeysLinked, HoldersLinked
  <2>6. MakersLinked'
    BY <1>t, <1>u, <2>s, <2>1 DEF MakersLinked, Ended
  <2> QED
    BY <2>3, <2>4, <2>5, <2>6
<1>2. CASE BranchKey(r)
  <2>s. /\ "key" \in open[r] /\ open'[r] = open[r] \ {"key"} /\ resetKey' = r /\ pc' = pc
    BY <1>2, <1>t DEF BranchKey
  <2>1. /\ \A x \in Requests : Claims(x, r) => FALSE
        /\ Refresh(r) \notin issued /\ pc[r] \in Ended
    BY <2>s DEF MakersOfClaimed, MakersLinked
  <2>2. /\ \A x \in Requests : \A t \in Tokens : Claims(x, t)' <=> Claims(x, t)
        /\ \A x \in Requests : \A t \in Tokens : InWindow(x, t)' <=> InWindow(x, t)
        /\ \A t \in Tokens : Available(t)' => Available(t) \/ t = r
    BY <1>t, <1>u, <2>s DEF Claims, InWindow, Available
  <2>3. OneClaim' /\ ClaimsOverlap'
    BY <2>1, <2>2, <1>u DEF OneClaim, ClaimsOverlap
  <2>4. MakersOfClaimed'
    BY <2>2, <1>t, <2>s DEF MakersOfClaimed
  <2>5. ConsumedLater' /\ KeysLinked' /\ HoldersLinked'
    BY <1>t, <1>u, <2>s, <2>1 DEF ConsumedLater, KeysLinked, HoldersLinked
  <2>6. MakersLinked'
    BY <1>t, <1>u, <2>s, <2>1 DEF MakersLinked
  <2> QED
    BY <2>3, <2>4, <2>5, <2>6
<1>3. CASE BranchForget(r)
  <2>s. /\ "forget" \in open[r] /\ open'[r] = open[r] \ {"forget"} /\ resetKey' = None /\ pc' = pc
    BY <1>3, <1>t DEF BranchForget, Forgotten
  <2>1. held[r].tok \notin sessions /\ pc[r] # "checked"
    BY <1>t, <2>s DEF KeysLinked, HoldersLinked, Ended
  <2>2. /\ \A x \in Requests : \A t \in Tokens : Claims(x, t)' => Claims(x, t)
        /\ \A x \in Requests \ {r} : \A t \in Tokens : InWindow(x, t)' <=> InWindow(x, t)
        /\ \A t \in Tokens : InWindow(r, t) => ~Available(t)'
        /\ \A t \in Tokens : Available(t)' => Available(t)
    BY <1>t, <1>u, <2>s, <2>1 DEF Claims, InWindow, Available
  <2>3. OneClaim' /\ ClaimsOverlap'
    BY <2>2, <1>u DEF OneClaim, ClaimsOverlap
  <2>4. MakersOfClaimed'
    BY <2>2, <1>t, <2>s DEF MakersOfClaimed
  <2>5. ConsumedLater' /\ KeysLinked' /\ HoldersLinked'
    BY <1>t, <1>u, <2>s DEF ConsumedLater, KeysLinked, HoldersLinked
  <2>6. MakersLinked'
    BY <1>t, <1>u, <2>s, RowIsThere DEF MakersLinked
  <2> QED
    BY <2>3, <2>4, <2>5, <2>6
<1> QED
  BY <1>1, <1>2, <1>3

(* A crash leaves the claims of those who used a token up, and marks the   *)
(* tokens whose deletion was lost.                                         *)
LEMMA CrashTokens == TypeInv /\ TokenInv /\ ProcessEnds => TokenInv'
<1> SUFFICES ASSUME TypeInv, TokenInv, ProcessEnds PROVE TokenInv'
  OBVIOUS
<1> USE DEF TokenInv, ClaimsInv, LinksInv
<1>t. Requests \subseteq Tokens
  BY DEF Tokens
<1>s. /\ \A r \in Requests : /\ pc'[r] \in Ended \cup {"new"}
                             /\ pc'[r] = "new" <=> pc[r] = "new"
                             /\ pc[r] \in Ended => pc'[r] = pc[r]
                             /\ open'[r] = {}
      /\ UNCHANGED <<resetKey, sessions, issued, held, consumed>>
  BY CrashStep
<1>r. raced \subseteq raced' /\ \A x \in Requests : "forget" \in open[x] => held[x].tok \in raced'
  BY DEF ProcessEnds, Crash
<1>c. \A x \in Requests : \A t \in Tokens : Claims(x, t)' => Claims(x, t) /\ <<x, t>> \in consumed
  BY <1>s DEF Claims, Ended
<1>1. OneClaim'
  BY <1>r, <1>c DEF OneClaim
<1>2. ClaimsOverlap'
  <2> SUFFICES ASSUME NEW t \in Tokens \ raced', Available(t)', NEW x \in Requests, Claims(x, t)'
               PROVE  FALSE
    BY DEF ClaimsOverlap
  <2>1. InWindow(x, t) /\ <<x, t>> \in consumed
    BY <1>r, <1>c, <1>s DEF ClaimsOverlap, Available
  <2> QED
    BY <1>r, <2>1 DEF InWindow, ConsumedLater
<1>3. MakersOfClaimed'
  BY <1>c, <1>s, <1>t DEF MakersOfClaimed
<1>4. ConsumedLater'
  BY <1>s DEF ConsumedLater, Ended
<1>5. KeysLinked' /\ HoldersLinked'
  BY <1>s DEF KeysLinked, HoldersLinked, Ended
<1>6. MakersLinked'
  BY <1>s DEF MakersLinked
<1> QED
  BY <1>1, <1>2, <1>3, <1>4, <1>5, <1>6

LEMMA TokenInvInit == Init => TokenInv
<1> SUFFICES ASSUME Init PROVE TokenInv
  OBVIOUS
<1>1. /\ \/ sessions = {} /\ issued = {}
         \/ sessions = {Old} /\ issued = {Refresh(Old)}
      /\ resetKey = None /\ consumed = {}
      /\ \A x \in Requests : pc[x] = "new" /\ open[x] = {}
  BY DEF Init, AccountInit, Absentee, Newcomer, Member
<1>2. \A t \in Requests : Refresh(t) \notin issued
  BY <1>1, TokenNames, NamesAssumption
<1>3. \A x \in Requests : \A t \in Tokens : ~Claims(x, t)
  BY <1>1 DEF Claims
<1>4. ClaimsInv
  BY <1>1, <1>3 DEF ClaimsInv, OneClaim, ClaimsOverlap, MakersOfClaimed, ConsumedLater, Tokens
<1>5. LinksInv
  BY <1>1, <1>2, NamesAssumption DEF LinksInv, KeysLinked, HoldersLinked, MakersLinked
<1> QED
  BY <1>4, <1>5 DEF TokenInv

LEMMA TokenInvStep == TypeInv /\ TokenInv /\ [Next]_vars => TokenInv'
<1> SUFFICES ASSUME TypeInv, TokenInv, [Next]_vars PROVE TokenInv'
  OBVIOUS
<1>1. CASE AccountMoves
  <2>1. PICK r \in Requests : AccountStep(r)
    BY <1>1 DEF AccountMoves
  <2> QED
    BY <2>1, QuietStep, QuietKeeps, StoreSessionTokens, ReadingTokens, UsingTokens,
       ResetKeyTokens DEF TokenStep
<1>2. CASE \E r \in Requests : EnterpriseStep(r)
  BY <1>2, OwnQuiet, QuietKeeps
<1>3. CASE (Expire /\ UNCHANGED enterpriseVars) \/ UNCHANGED vars
  <2>1. Quiet
    BY <1>3 DEF Quiet, Expire, vars, accountVars, redis, clients, memory, history
  <2> QED
    BY <2>1, QuietKeeps
<1>4. CASE ProcessEnds
  BY <1>4, CrashTokens
<1> QED
  BY <1>1, <1>2, <1>3, <1>4 DEF Next

(* A refresh token and a reset link are exchanged at most once, unless two *)
(* requests read it before either deleted it, or the process ended before  *)
(* a deletion nobody awaited: for any number of requests.                  *)
THEOREM ExchangedOnce == Spec => []OnceUnlessRaced
<1>1. TokenInv => OnceUnlessRaced
  <2> SUFFICES ASSUME TokenInv, NEW t \in Tokens \ raced
               PROVE  Cardinality({r \in Requests : <<r, t>> \in consumed}) <= 1
    BY DEF OnceUnlessRaced
  <2> DEFINE S == {r \in Requests : <<r, t>> \in consumed}
  <2>1. \A x, y \in S : x = y
    BY DEF TokenInv, ClaimsInv, OneClaim, Claims
  <2>2. CASE S = {}
    <3>1. Cardinality(S) = 0
      BY <2>2, FS_EmptySet
    <3> QED
      BY <3>1
  <2>3. CASE S # {}
    <3>1. PICK x : S = {x}
      BY <2>1, <2>3
    <3>2. Cardinality(S) = 1
      BY <3>1, FS_Singleton
    <3> QED
      BY <3>2
  <2> QED
    BY <2>2, <2>3
<1> QED
  BY <1>1, TokenInvInit, TokenInvStep, TypeInvAlways, PTL DEF Spec


-----------------------------------------------------------------------------
(* Handlers that go on from what they read of the account                  *)

Relying == {"storing", "linking", "diffed"}

AwareFact(r) ==
    /\ pc[r] = "storing" => HasStatus("ACTIVE")
    /\ pc[r] \in {"linking", "diffed"} =>
         held[r].row.status = account.status /\ held[r].row.password = account.password

LEMMA AwareFacts == AwareInv <=> \A r \in Requests \ unaware : AwareFact(r)
  BY DEF AwareInv, AwareFact

(* A write of the account makes every other relying handler unaware.       *)
LEMMA WriterAware ==
  ASSUME NEW r \in Requests, Writes(r), pc'[r] \notin Relying,
         \A x \in Requests \ {r} : pc'[x] = pc[x]
  PROVE  AwareInv'
<1> SUFFICES ASSUME NEW x \in Requests, x \notin unaware' PROVE AwareFact(x)'
  BY DEF AwareInv, AwareFact
<1>1. pc'[x] \notin Relying
  BY DEF Writes, Live, Relying, Ended
<1> QED
  BY <1>1 DEF AwareFact, Relying

LEMMA WriterStep ==
  ASSUME TypeInv, NEW r \in Requests, WritesAccount(r), account' # account
  PROVE  Writes(r) /\ pc'[r] \notin Relying
  BY DEF TypeInv, TypeOK, WritesAccount, RegisterSave, VerifyActivate, ResetPassword, StatusWrite,
         OAuthCreate, OAuthUpdate, Goto, Relying

LEMMA AwareStep ==
  ASSUME TypeInv, AwareInv, NEW r \in Requests, AccountStep(r)
  PROVE  AwareInv'
<1>t. /\ LocalTo(r) /\ TypeOK /\ ShapeFact(r)
      /\ pc \in [Requests -> Labels] /\ held \in [Requests -> HeldRecord]
      /\ open \in [Requests -> SUBSET Branches]
  BY LocalStep DEF TypeInv, TypeOK, ShapeInv, HeldRecord, Branches
<1>o. \A x \in Requests \ {r} : pc'[x] = pc[x] /\ held'[x] = held[x]
  BY <1>t DEF LocalTo
<1>1. CASE account' # account
  <2>1. WritesAccount(r)
    BY <1>1, AccountFrame
  <2> QED
    BY <1>1, <1>o, <2>1, WriterStep, WriterAware
<1>2. CASE account' = account
  <2>1. unaware \subseteq unaware' \cup {r}
    BY DEF AccountStep, RegisterCount, RegisterSave, BranchProfile, BranchCode, BranchMail,
       BranchKey, BranchForget, VerifyLoad, VerifyCompare, VerifyActivate, VerifyProfile,
       VerifyDelete, ResendDelete, ResendLoad, LoginLoad, ConfirmLoad, StoreSession, RefreshCheck,
       RefreshDelete, RefreshLoad, Logout, ForgetLoad, ResetCheck, ResetPassword, StatusLoad,
       StatusWrite, OAuthFind, OAuthLookup, OAuthCreate, OAuthProfile, OAuthSelect, OAuthUpdate,
       Writes, Reads, history
  <2>2. ASSUME NEW x \in Requests \ {r}, x \notin unaware' PROVE AwareFact(x)'
    <3>1. AwareFact(x)
      BY <2>1, <2>2, AwareFacts
    <3> QED
      BY <1>2, <1>o, <3>1 DEF AwareFact, HasStatus, Exists
  <2>3. ASSUME r \notin unaware' PROVE AwareFact(r)'
    <3>1. CASE LoginLoad(r) \/ ConfirmLoad(r) \/ RefreshLoad(r)
      BY <3>1, <1>2, <1>t
         DEF LoginLoad, ConfirmLoad, RefreshLoad, MayEnter, HasStatus, Exists, Goto, AwareFact
    <3>2. CASE OAuthLookup(r)
      <4>1. CASE Exists
        <5>1. /\ WithIdentity(account, held[r].cols).status = account.status
              /\ WithIdentity(account, held[r].cols).password = account.password
          BY <3>2, <4>1, <1>t, IdentityType, RowIsThere DEF OAuthLookup, ShapeFact
        <5>2. held'[r].row = WithIdentity(account, held[r].cols) /\ pc'[r] = "linking"
          BY <3>2, <4>1, <1>t DEF OAuthLookup, Goto, HeldRecord
        <5> QED
          BY <1>2, <5>1, <5>2 DEF AwareFact
      <4>2. CASE ~Exists
        BY <3>2, <4>2, <1>t DEF OAuthLookup, Goto, AwareFact
      <4> QED
        BY <4>1, <4>2
    <3>3. CASE OAuthSelect(r)
      <4>1. AwareFact(r)
        BY <2>3, <3>3, AwareFacts DEF OAuthSelect, history
      <4>2. pc[r] = "linking" /\ pc'[r] = "diffed" /\ held'[r].row = held[r].row
        BY <3>3, <1>t DEF OAuthSelect, Goto, HeldRecord
      <4> QED
        BY <1>2, <4>1, <4>2 DEF AwareFact
    <3>4. CASE BranchProfile(r) \/ BranchCode(r) \/ BranchMail(r) \/ BranchKey(r) \/ BranchForget(r)
      <4>1. AwareFact(r)
        BY <2>3, <3>4, AwareFacts
           DEF BranchProfile, BranchCode, BranchMail, BranchKey, BranchForget, history
      <4>2. pc' = pc /\ held' = held
        BY <3>4 DEF BranchProfile, BranchCode, BranchMail, BranchKey, BranchForget
      <4> QED
        BY <1>2, <4>1, <4>2 DEF AwareFact, HasStatus, Exists
    <3>5. CASE pc'[r] \notin Relying
      BY <3>5 DEF AwareFact, Relying
    <3>6. \/ pc'[r] \notin Relying \/ LoginLoad(r) \/ ConfirmLoad(r) \/ RefreshLoad(r)
          \/ OAuthLookup(r) \/ OAuthSelect(r) \/ BranchProfile(r) \/ BranchCode(r)
          \/ BranchMail(r) \/ BranchKey(r) \/ BranchForget(r)
      BY <1>t DEF AccountStep, RegisterCount, RegisterSave, VerifyLoad, VerifyCompare,
         VerifyActivate, VerifyProfile, VerifyDelete, ResendDelete, ResendLoad, StoreSession,
         RefreshCheck, RefreshDelete, Logout, ForgetLoad, ResetCheck, ResetPassword, StatusLoad,
         StatusWrite, OAuthFind, OAuthCreate, OAuthProfile, OAuthUpdate, Goto, Relying
    <3> QED
      BY <3>1, <3>2, <3>3, <3>4, <3>5, <3>6
  <2> QED
    BY <2>2, <2>3 DEF AwareInv, AwareFact
<1> QED
  BY <1>1, <1>2

LEMMA AwareInvStep == TypeInv /\ AwareInv /\ [Next]_vars => AwareInv'
<1> SUFFICES ASSUME TypeInv, AwareInv, [Next]_vars PROVE AwareInv'
  OBVIOUS
<1>1. CASE AccountMoves
  BY <1>1, AwareStep DEF AccountMoves
<1>2. CASE \E r \in Requests : EnterpriseStep(r)
  <2>1. PICK r \in Requests : EnterpriseStep(r)
    BY <1>2
  <2>2. /\ pc'[r] \notin Relying /\ held' = held
        /\ \A x \in Requests \ {r} : pc'[x] = pc[x]
        /\ RolesWrite(r) \/ UNCHANGED <<account, unaware>>
    BY <2>1, OwnStep DEF TypeInv, TypeOK, OwnLabels, Ended, Relying
  <2>3. CASE RolesWrite(r)
    BY <2>2, <2>3, WriterAware DEF RolesWrite
  <2>4. CASE UNCHANGED <<account, unaware>>
    BY <2>2, <2>4 DEF AwareInv, HasStatus, Exists, Relying
  <2> QED
    BY <2>2, <2>3, <2>4
<1>3. CASE (Expire /\ UNCHANGED enterpriseVars) \/ UNCHANGED vars
  BY <1>3 DEF AwareInv, HasStatus, Exists, Expire, vars, accountVars, database, memory, history
<1>4. CASE ProcessEnds
  BY <1>4, CrashStep DEF AwareInv, Ended
<1> QED
  BY <1>1, <1>2, <1>3, <1>4 DEF Next

LEMMA AwareInvAlways == Spec => []AwareInv
<1>1. Init => AwareInv
  BY DEF Init, AccountInit, AwareInv
<1> QED
  BY <1>1, AwareInvStep, TypeInvAlways, PTL DEF Spec

(* A session begins only while the account is ACTIVE, or by a handler that *)
(* read it so before the last write to it: no refresh and no sign-in       *)
(* carries a login past the ruling of an administrator.                    *)
THEOREM SessionsOfActive == Spec => SessionsNeedActive
<1>1. TypeInv /\ AwareInv /\ [Next]_vars =>
        [\A r \in Requests : r \in sessions' \ sessions
                              => HasStatus("ACTIVE") \/ r \in unaware]_accountVars
  <2> SUFFICES ASSUME TypeInv, AwareInv, [Next]_vars, NEW r \in Requests, r \in sessions' \ sessions
               PROVE  HasStatus("ACTIVE") \/ r \in unaware
    OBVIOUS
  <2>1. StoreSession(r)
    <3>1. PICK x \in Requests : AccountStep(x)
      <4>1. ~Expire /\ ~ProcessEnds /\ ~UNCHANGED vars
        BY DEF Expire, ProcessEnds, Crash, vars, accountVars, redis
      <4>2. ~\E x \in Requests : EnterpriseStep(x)
        BY OwnStep DEF redis
      <4> QED
        BY <4>1, <4>2 DEF Next, AccountMoves
    <3>2. StoreSession(x)
      BY <3>1 DEF AccountStep, RegisterCount, RegisterSave, BranchProfile, BranchCode, BranchMail,
         BranchKey, BranchForget, VerifyLoad, VerifyCompare, VerifyActivate, VerifyProfile,
         VerifyDelete, ResendDelete, ResendLoad, LoginLoad, ConfirmLoad, RefreshCheck,
         RefreshDelete, RefreshLoad, Logout, ForgetLoad, ResetCheck, ResetPassword, StatusLoad,
         StatusWrite, OAuthFind, OAuthLookup, OAuthCreate, OAuthProfile, OAuthSelect, OAuthUpdate,
         redis, DeleteRefreshToken
    <3> QED
      BY <3>2 DEF StoreSession, StoreRefreshToken, DeleteRefreshToken
  <2> QED
    BY <2>1 DEF StoreSession, AwareInv
<1> QED
  BY <1>1, TypeInvAlways, AwareInvAlways, PTL DEF Spec, SessionsNeedActive

(* A ruling of an administrator is lifted only by another one, by a        *)
(* verification or by linking an identity to an outdated copy; and only a  *)
(* reset or such a link changes the password.                              *)
LEMMA RulingStep ==
  ASSUME TypeInv, AwareInv, NEW r \in Requests, AccountStep(r), Exists, account' # account
  PROVE  /\ account'.status # account.status =>
              \/ pc[r] \in {"ruling", "matched"} /\ pc'[r] # pc[r]
              \/ pc[r] = "diffed" /\ pc'[r] = "done" /\ r \in unaware
         /\ account'.password # account.password =>
              \/ pc[r] = "resetting" /\ pc'[r] = "done"
              \/ pc[r] = "diffed" /\ pc'[r] = "done" /\ r \in unaware
<1>t. TypeOK /\ pc \in [Requests -> Labels] /\ account \in Row /\ ShapeFact(r)
  BY RowIsThere DEF TypeInv, TypeOK, ShapeInv
<1>1. VerifyActivate(r) \/ ResetPassword(r) \/ StatusWrite(r) \/ OAuthUpdate(r)
  BY AccountFrame DEF WritesAccount, RegisterSave, OAuthCreate
<1>2. CASE VerifyActivate(r) \/ ResetPassword(r) \/ StatusWrite(r)
  BY <1>2, <1>t DEF VerifyActivate, ResetPassword, StatusWrite, Goto, Row
<1>3. CASE OAuthUpdate(r)
  <2>1. pc[r] = "diffed" /\ pc'[r] = "done" /\ account' = Linked(r)
    BY <1>3, <1>t DEF OAuthUpdate, Goto
  <2>2. /\ Linked(r).status \in {account.status, held[r].row.status}
        /\ Linked(r).password \in {account.password, held[r].row.password}
    BY <1>t, <2>1, LinkedType DEF ShapeFact
  <2>3. r \notin unaware =>
          held[r].row.status = account.status /\ held[r].row.password = account.password
    BY <2>1 DEF AwareInv
  <2> QED
    BY <2>1, <2>2, <2>3
<1> QED
  BY <1>1, <1>2, <1>3


(* A ruling of an administrator, BLOCKED or INACTIVE, is lifted only by    *)
(* another one, by a verification (000000 verifies when no code is         *)
(* stored), or by linking an identity to an outdated copy; and only a      *)
(* reset or such a link changes the password, whoever else writes the      *)
(* account.                                                                *)
THEOREM RulingsHold == Spec => RulingHolds
<1>1. TypeInv /\ AwareInv /\ [Next]_vars =>
        [Exists /\ account' # account =>
          /\ account.status \in {"BLOCKED", "INACTIVE"} /\ account'.status # account.status
               => \E r \in Requests : \/ pc[r] \in {"ruling", "matched"} /\ pc'[r] # pc[r]
                                      \/ pc[r] = "diffed" /\ pc'[r] = "done" /\ r \in unaware
          /\ account'.password # account.password
               => \E r \in Requests : \/ pc[r] = "resetting" /\ pc'[r] = "done"
                                      \/ pc[r] = "diffed" /\ pc'[r] = "done" /\ r \in unaware]_accountVars
  <2> SUFFICES ASSUME TypeInv, AwareInv, [Next]_vars, Exists, account' # account
               PROVE  /\ account'.status # account.status
                         => \E r \in Requests :
                              \/ pc[r] \in {"ruling", "matched"} /\ pc'[r] # pc[r]
                              \/ pc[r] = "diffed" /\ pc'[r] = "done" /\ r \in unaware
                      /\ account'.password # account.password
                         => \E r \in Requests :
                              \/ pc[r] = "resetting" /\ pc'[r] = "done"
                              \/ pc[r] = "diffed" /\ pc'[r] = "done" /\ r \in unaware
    OBVIOUS
  <2>1. CASE \E r \in Requests : AccountStep(r)
    BY <2>1, RulingStep
  <2>2. CASE \E r \in Requests : EnterpriseStep(r)
    <3>1. PICK r \in Requests : EnterpriseStep(r)
      BY <2>2
    <3>2. RolesWrite(r)
      BY <3>1, OwnStep
    <3> QED
      BY <3>2, RolesStep
  <2>3. CASE ~\E r \in Requests : AccountStep(r) \/ EnterpriseStep(r)
    BY <2>3 DEF Next, AccountMoves, Expire, ProcessEnds, Crash, vars, accountVars, database
  <2> QED
    BY <2>1, <2>2, <2>3
<1> QED
  BY <1>1, TypeInvAlways, AwareInvAlways, PTL DEF Spec, RulingHolds

-----------------------------------------------------------------------------
(* Handlers that go on from what they read of the enterprise               *)

CopyFact(r) ==
    /\ pc[r] = "cancelling" => enterprise = dossier[r].row /\ enterprise.status = "PENDING"
    /\ pc[r] \in {"amending", "amendDiffed", "patching", "patchDiffed", "patchInserting"} =>
         /\ Registered(dossier[r].row.id) /\ pc[r] # "patchInserting"
         /\ r \notin naming => enterprise.status = dossier[r].row.status
         /\ r \notin naming /\ pc[r] \in {"amendDiffed", "patchDiffed"}
              => "status" \notin dossier[r].cols
    /\ pc[r] \in {"reviewing", "reviewDiffed", "reviewInserting"} =>
         /\ Registered(dossier[r].row.id) /\ pc[r] # "reviewInserting"
         /\ pc[r] = "reviewDiffed" /\ "status" \notin dossier[r].cols
              => enterprise.status = dossier[r].row.status
    /\ pc[r] \in {"reviewed", "granting"} => verdict = dossier[r].row.status

LEMMA CopyFacts == CopyInv <=> \A r \in Requests \ crossed : CopyFact(r)
  BY DEF CopyInv, CopyFact

(* The handlers of the account never enter a label of the enterprise's.    *)
LEMMA AccountLabels ==
  ASSUME TypeInv, NEW r \in Requests, AccountStep(r)
  PROVE  \A x \in Requests : pc'[x] \in OwnLabels \/ pc[x] \in OwnLabels => pc'[x] = pc[x]
<1>1. LocalTo(r) /\ pc \in [Requests -> Labels]
  BY LocalStep DEF TypeInv, TypeOK
<1>2. \/ pc' = pc
      \/ pc'[r] \notin OwnLabels /\ pc[r] \notin OwnLabels
  BY <1>1 DEF AccountStep, RegisterCount, RegisterSave, BranchProfile, BranchCode, BranchMail,
     BranchKey, BranchForget, VerifyLoad, VerifyCompare, VerifyActivate, VerifyProfile,
     VerifyDelete, ResendDelete, ResendLoad, LoginLoad, ConfirmLoad, StoreSession, RefreshCheck,
     RefreshDelete, RefreshLoad, Logout, ForgetLoad, ResetCheck, ResetPassword, StatusLoad,
     StatusWrite, OAuthFind, OAuthLookup, OAuthCreate, OAuthProfile, OAuthSelect, OAuthUpdate,
     Goto, Starts, OwnLabels
<1> QED
  BY <1>1, <1>2 DEF LocalTo

LEMMA LapsedGrows ==
  ASSUME TypeInv, [Next]_vars
  PROVE  lapsed => lapsed'
  BY DEF Next, AccountMoves, EnterpriseStep, EnrollCheck, EnrollSave, CancelLoad, RemoveLoad,
     DeleteRow, AmendLoad, PatchLoad, ReviewLoad, ReviewFind, SaveSelect, SaveWrite, EmbeddingFails,
     RolesLoad, RolesWrite, ProcessEnds, enterpriseVars, vars

(* A write of the enterprise crosses every other handler that read it.     *)
LEMMA OwnWriter ==
  ASSUME TypeInv, NEW r \in Requests, EnterpriseStep(r), ~UNCHANGED <<enterprise, verdict>>
  PROVE  /\ EnrollSave(r) \/ DeleteRow(r) \/ SaveWrite(r)
         /\ Touches(r)
         /\ pc'[r] \in {"done", "reviewed"}
<1>1. EnrollSave(r) \/ DeleteRow(r) \/ SaveWrite(r)
  BY DEF EnterpriseStep, EnrollCheck, CancelLoad, RemoveLoad, AmendLoad, PatchLoad, ReviewLoad, ReviewFind,
     SaveSelect, EmbeddingFails, RolesLoad, RolesWrite, enterpriseVars, decision
<1> QED
  BY <1>1 DEF EnrollSave, DeleteRow, SaveWrite, enterpriseVars, decision, Moves, Goto, TypeInv, TypeOK

(* Nothing else decides on the status, and a payload that names one is     *)
(* remembered.                                                             *)
LEMMA DecisionFrame ==
  ASSUME TypeInv, NEW r \in Requests, EnterpriseStep(r)
  PROVE  /\ verdict' = verdict \/ Touches(r)
         /\ \A x \in Requests \ {r} : x \in naming' <=> x \in naming
         /\ pc[r] # "new" /\ ~EnrollSave(r) => naming' = naming
<1>t. pc \in [Requests -> Labels]
  BY DEF TypeInv, TypeOK
<1>1. verdict' = verdict \/ Touches(r)
  BY DEF EnterpriseStep, EnrollCheck, EnrollSave, CancelLoad, RemoveLoad, DeleteRow, AmendLoad,
     PatchLoad, ReviewLoad, ReviewFind, SaveSelect, SaveWrite, EmbeddingFails, RolesLoad,
     RolesWrite, enterpriseVars, decision
<1>2. naming' = naming \/ EnrollSave(r) \/ AmendLoad(r) \/ PatchLoad(r)
  BY DEF EnterpriseStep, EnrollCheck, CancelLoad, RemoveLoad, DeleteRow, ReviewLoad, ReviewFind,
     SaveSelect, SaveWrite, EmbeddingFails, RolesLoad, RolesWrite, enterpriseVars, decision
<1>3. \A x \in Requests \ {r} : x \in naming' <=> x \in naming
  BY <1>2 DEF EnrollSave, AmendLoad, PatchLoad, NotesNaming, enterpriseVars, decision
<1>4. pc[r] # "new" /\ ~EnrollSave(r) => naming' = naming
  BY <1>2 DEF AmendLoad, PatchLoad, Moves
<1> QED
  BY <1>1, <1>3, <1>4

(* What a review that nobody crossed leaves.                               *)
LEMMA SavedStatus ==
  ASSUME TypeInv, NEW r \in Requests, SaveWrite(r), pc'[r] = "reviewed",
         r \in crossed \/ CopyFact(r)
  PROVE  /\ verdict' = dossier[r].row.status /\ dossier' = dossier
         /\ lapsed' \/ enterprise' = None \/ enterprise'.status = dossier[r].row.status
<1>t. pc \in [Requests -> Labels] /\ TypeOK
  BY DEF TypeInv, TypeOK
<1>1. /\ pc[r] \in {"reviewDiffed", "reviewInserting"} /\ enterprise' = Saved(r)
      /\ lapsed' = (lapsed \/ r \in crossed) /\ dossier' = dossier
      /\ verdict' = dossier[r].row.status
  BY <1>t DEF SaveWrite, Moves, Goto, Reviewing
<1> SUFFICES ASSUME r \notin crossed PROVE enterprise'.status = dossier[r].row.status
  BY <1>1
<1>2. /\ pc[r] = "reviewDiffed" /\ Registered(dossier[r].row.id)
      /\ "status" \notin dossier[r].cols => enterprise.status = dossier[r].row.status
  BY <1>1 DEF CopyFact
<1>3. enterprise \in EnterpriseRow
  BY <1>2, <1>t, RowIsThere DEF Registered
<1> QED
  BY <1>1, <1>2, <1>3 DEF Saved, Inserting, EnterpriseRow

(* What a handler of the company's data reads.                             *)
LEMMA LoadedCopy ==
  ASSUME TypeInv, NEW r \in Requests, AmendLoad(r) \/ PatchLoad(r)
  PROVE  /\ pc'[r] \in {"amending", "patching"} /\ enterprise' = enterprise
         /\ Registered(dossier'[r].row.id)
         /\ r \notin naming' => enterprise.status = dossier'[r].row.status
<1>t. /\ pc \in [Requests -> Labels] /\ TypeOK
      /\ dossier \in [Requests -> [row : EnterpriseRow \cup {None}, cols : SUBSET EnterpriseColumns]]
  BY DEF TypeInv, TypeOK
<1>1. PICK s \in PayloadStatuses \cup {"unset"} :
        dossier' = [dossier EXCEPT ![r].row = WithPayload(enterprise, s)] /\ NotesNaming(r, s)
  BY DEF AmendLoad, PatchLoad
<1>2. /\ enterprise \in EnterpriseRow /\ enterprise' = enterprise
      /\ pc'[r] \in {"amending", "patching"}
  BY <1>t, RowIsThere DEF AmendLoad, PatchLoad, Moves, Goto
<1>3. dossier'[r].row = WithPayload(enterprise, s)
  BY <1>1, <1>t
<1>4. s = "unset" \/ r \in naming'
  BY <1>1 DEF NotesNaming
<1> QED
  BY <1>2, <1>3, <1>4, <1>t, PayloadRow, RowIsThere DEF Registered

LEMMA CopyOwnStep ==
  ASSUME TypeInv, CopyInv, NEW r \in Requests, EnterpriseStep(r)
  PROVE  CopyInv'
<1>t. pc \in [Requests -> Labels] /\ TypeOK /\ ShapeFact(r)
      /\ dossier \in [Requests -> [row : EnterpriseRow \cup {None}, cols : SUBSET EnterpriseColumns]]
  BY DEF TypeInv, TypeOK, ShapeInv
<1>o. \A x \in Requests \ {r} :
        /\ pc'[x] = pc[x] /\ dossier'[x] = dossier[x]
        /\ x \in naming' <=> x \in naming
  BY <1>t, OwnStep, DossierStep, DecisionFrame
<1>1. CASE ~UNCHANGED <<enterprise, verdict>>
  <2>1. Touches(r) /\ pc'[r] \in {"done", "reviewed"}
    BY <1>1, OwnWriter
  <2>2. ASSUME NEW x \in Requests \ {r}, x \notin crossed' PROVE CopyFact(x)'
    <3>1. ~Live(x)
      BY <2>1, <2>2 DEF Touches
    <3>2. pc'[x] \in Ended \cup {"new"}
      BY <1>o, <3>1 DEF Live
    <3> QED
      BY <3>2 DEF Ended, CopyFact
  <2>3. CopyFact(r)'
    <3>1. CASE pc'[r] = "reviewed"
      <4>1. SaveWrite(r)
        BY <1>1, <1>t, <3>1, OwnWriter DEF EnrollSave, DeleteRow, Moves, Goto
      <4> QED
        BY <3>1, <4>1, SavedStatus, CopyFacts DEF CopyFact
    <3>2. CASE pc'[r] = "done"
      BY <3>2 DEF CopyFact
    <3> QED
      BY <2>1, <3>1, <3>2
  <2> QED
    BY <2>2, <2>3 DEF CopyInv, CopyFact
<1>2. CASE UNCHANGED <<enterprise, verdict>>
  <2>1. crossed \subseteq crossed' \cup {r}
    BY DEF EnterpriseStep, EnrollCheck, EnrollSave, CancelLoad, RemoveLoad, DeleteRow, AmendLoad,
       PatchLoad, ReviewLoad, ReviewFind, SaveSelect, SaveWrite, EmbeddingFails, RolesLoad,
       RolesWrite, enterpriseVars, Touches, Studies
  <2>2. ASSUME NEW x \in Requests \ {r}, x \notin crossed' PROVE CopyFact(x)'
    <3>1. CopyFact(x)
      BY <2>1, <2>2, CopyFacts
    <3>2. /\ pc'[x] = pc[x] /\ dossier'[x] = dossier[x]
          /\ x \notin naming' => x \notin naming
      BY <1>o
    <3>3. enterprise' = enterprise /\ verdict' = verdict
      BY <1>2
    <3> QED
      BY <3>1, <3>2, <3>3 DEF CopyFact, Registered
  <2>3. ASSUME r \notin crossed' PROVE CopyFact(r)'
    <3>1. CASE CancelLoad(r)
      BY <3>1, <1>2, <1>t DEF CancelLoad, Cancellable, Moves, Goto, CopyFact
    <3>7. CASE AmendLoad(r) \/ PatchLoad(r)
      BY <3>7, <1>2, LoadedCopy DEF CopyFact, Registered
    <3>2. CASE ReviewFind(r)
      BY <3>2, <1>2, <1>t DEF ReviewFind, Moves, Goto, CopyFact, Registered, enterpriseVars
    <3>3. CASE SaveSelect(r)
      <4>1. CopyFact(r) /\ pc[r] \in {"amending", "patching", "reviewing"}
        BY <2>3, <3>3, CopyFacts DEF SaveSelect, Moves, Saving
      <4>3. Registered(dossier[r].row.id)
        BY <4>1 DEF CopyFact
      <4>4. /\ dossier' = [dossier EXCEPT ![r].cols =
                             {c \in EnterpriseColumns : dossier[r].row[c] # enterprise[c]}]
            /\ \/ pc[r] = "amending" /\ pc'[r] = "amendDiffed"
               \/ pc[r] = "patching" /\ pc'[r] = "patchDiffed"
               \/ pc[r] = "reviewing" /\ pc'[r] = "reviewDiffed"
            /\ naming' = naming
        BY <3>3, <4>3, <1>t DEF SaveSelect, Saving, Moves, Goto, decision
      <4>5. /\ dossier'[r].row = dossier[r].row
            /\ dossier'[r].cols = {c \in EnterpriseColumns : dossier[r].row[c] # enterprise[c]}
        BY <4>4, <1>t
      <4>6. "status" \notin dossier'[r].cols <=> enterprise.status = dossier[r].row.status
        BY <4>5 DEF EnterpriseColumns
      <4>7. CASE pc[r] \in {"amending", "patching"}
        BY <1>2, <4>1, <4>3, <4>4, <4>5, <4>6, <4>7 DEF CopyFact, Registered
      <4>8. CASE pc[r] = "reviewing"
        BY <1>2, <4>3, <4>4, <4>5, <4>6, <4>8 DEF CopyFact, Registered
      <4> QED
        BY <4>1, <4>7, <4>8
    <3>4. CASE SaveWrite(r)
      <4>1. CASE pc'[r] = "reviewed"
        BY <3>4, <4>1, SavedStatus, CopyFacts DEF CopyFact
      <4>2. CASE pc'[r] # "reviewed"
        BY <3>4, <4>2, <1>t DEF SaveWrite, Moves, Goto, CopyFact
      <4> QED
        BY <4>1, <4>2
    <3>5. CASE RolesLoad(r)
      <4>1. CASE pc'[r] = "granting"
        <5>1. CopyFact(r) /\ UNCHANGED enterpriseVars /\ pc[r] = "reviewed"
          BY <2>3, <3>5, <4>1, <1>t, CopyFacts DEF RolesLoad, Moves, Goto, enterpriseVars
        <5> QED
          BY <1>2, <4>1, <5>1 DEF CopyFact, enterpriseVars
      <4>2. CASE pc'[r] # "granting"
        BY <3>5, <4>2, <1>t DEF RolesLoad, Moves, Goto, CopyFact
      <4> QED
        BY <4>1, <4>2
    <3>6. CASE \/ EnrollCheck(r) \/ EnrollSave(r) \/ RemoveLoad(r) \/ DeleteRow(r)
               \/ ReviewLoad(r) \/ EmbeddingFails(r) \/ RolesWrite(r)
      BY <3>6, <1>t DEF EnrollCheck, EnrollSave, RemoveLoad, DeleteRow, ReviewLoad,
         EmbeddingFails, RolesWrite, Moves, Goto, CopyFact
    <3> QED
      BY <3>1, <3>2, <3>3, <3>4, <3>5, <3>6, <3>7 DEF EnterpriseStep
  <2> QED
    BY <2>2, <2>3 DEF CopyInv, CopyFact
<1> QED
  BY <1>1, <1>2

LEMMA CopyInvStep == TypeInv /\ CopyInv /\ [Next]_vars => CopyInv'
<1> SUFFICES ASSUME TypeInv, CopyInv, [Next]_vars PROVE CopyInv'
  OBVIOUS
<1>1. CASE AccountMoves
  <2>1. PICK r \in Requests : AccountStep(r)
    BY <1>1 DEF AccountMoves
  <2>2. \A x \in Requests : pc'[x] \in OwnLabels => pc'[x] = pc[x]
    BY <2>1, AccountLabels
  <2>3. UNCHANGED <<enterprise, dossier, crossed, decision>>
    BY <1>1 DEF AccountMoves
  <2> QED
    BY <2>2, <2>3 DEF CopyInv, OwnLabels, Registered, decision
<1>2. CASE \E r \in Requests : EnterpriseStep(r)
  BY <1>2, CopyOwnStep
<1>3. CASE (Expire /\ UNCHANGED enterpriseVars) \/ UNCHANGED vars
  BY <1>3 DEF CopyInv, Registered, Expire, vars, accountVars, enterpriseVars, decision, memory
<1>4. CASE ProcessEnds
  BY <1>4, CrashStep DEF CopyInv, Ended
<1> QED
  BY <1>1, <1>2, <1>3, <1>4 DEF Next

LEMMA CopyInvAlways == Spec => []CopyInv
<1>1. Init => CopyInv
  BY DEF Init, AccountInit, CopyInv
<1> QED
  BY <1>1, CopyInvStep, TypeInvAlways, PTL DEF Spec

(* Cancelling takes a reviewed enterprise away only when the review came   *)
(* between the reading of the handler and its deletion.                    *)
THEOREM ReviewedSpared == Spec => CancelSparesReviewed
<1>1. CopyInv =>
        [enterprise # None /\ enterprise' = None =>
          \A r \in Requests : pc[r] = "cancelling" /\ pc'[r] = "done"
              => enterprise.status = "PENDING" \/ r \in crossed]_vars
  BY DEF CopyInv
<1> QED
  BY <1>1, CopyInvAlways, PTL DEF CancelSparesReviewed

-----------------------------------------------------------------------------
(* The roles of the account                                                *)

LEMMA RolesOwnStep ==
  ASSUME TypeInv, CopyInv, RolesInv, NEW r \in Requests, EnterpriseStep(r)
  PROVE  RolesInv'
<1>t. pc \in [Requests -> Labels] /\ TypeOK
  BY DEF TypeInv, TypeOK
<1>l. lapsed => lapsed'
  BY LapsedGrows DEF Next
<1> DEFINE Calm == \A x \in Requests : pc[x] \notin {"reviewed", "granting"}
<1> SUFFICES ASSUME enterprise' # None, ~lapsed'
             PROVE  /\ Calm' => (verdict' = "ACTIVE" <=> "ENTERPRISE" \in account'.roles)
                    /\ ~named' => enterprise'.status = verdict'
  BY DEF RolesInv
<1>o. Calm' => \A x \in Requests \ {r} : pc[x] \notin {"reviewed", "granting"}
  BY <1>t, OwnStep
<1>1. CASE EnrollSave(r) /\ ~UNCHANGED enterpriseVars
  <2>1. PICK s \in PayloadStatuses \cup {"unset"} :
          /\ enterprise' = WithPayload([id |-> r, status |-> "PENDING"], s)
          /\ named' = (s # "unset") /\ verdict' = "PENDING" /\ account' = account
          /\ lapsed' = (lapsed \/ "ENTERPRISE" \in account.roles)
    BY <1>1 DEF EnrollSave, Moves, database
  <2>2. "ENTERPRISE" \notin account.roles
    BY <2>1
  <2>3. s = "unset" => enterprise'.status = "PENDING"
    BY <2>1 DEF WithPayload
  <2> QED
    BY <2>1, <2>2, <2>3
<1>2. CASE RolesWrite(r)
  <2>1. /\ r \notin crossed /\ UNCHANGED <<enterprise, verdict, named>> /\ pc[r] = "granting"
        /\ ~lapsed
    BY <1>2, <1>l DEF RolesWrite, decision
  <2>2. verdict = dossier[r].row.status
    BY <2>1 DEF CopyInv
  <2>3. ~named => enterprise.status = verdict
    BY <2>1 DEF RolesInv
  <2> QED
    BY <1>2, <2>1, <2>2, <2>3, RolesStep DEF RolesFor
<1>3. CASE UNCHANGED <<enterprise, account, verdict, named>>
  <2>1. pc[r] \in {"reviewed", "granting"} => EmbeddingFails(r) \/ RolesLoad(r) \/ RolesWrite(r)
    BY DEF EnterpriseStep, EnrollCheck, EnrollSave, CancelLoad, RemoveLoad, DeleteRow, AmendLoad,
       PatchLoad, ReviewLoad, ReviewFind, SaveSelect, SaveWrite, Moves, Saving
  <2>2. ~EmbeddingFails(r) /\ (RolesLoad(r) => pc'[r] = "granting")
    BY <1>t DEF EmbeddingFails, RolesLoad, Moves, Goto
  <2>3. RolesWrite(r) \/ ~Calm' \/ pc[r] \notin {"reviewed", "granting"}
    BY <2>1, <2>2
  <2> QED
    BY <1>2, <1>3, <1>l, <1>o, <2>3 DEF RolesInv
<1>4. CASE SaveWrite(r) /\ Reviewing(r) /\ ~UNCHANGED enterpriseVars
  <2>1. r \notin crossed /\ pc'[r] = "reviewed"
    BY <1>4, <1>t DEF SaveWrite, Reviewing, Moves, Goto
  <2>2. /\ verdict' = dossier[r].row.status
        /\ enterprise'.status = dossier[r].row.status
    BY <1>4, <2>1, SavedStatus, CopyFacts
  <2> QED
    BY <2>1, <2>2
<1>5. CASE SaveWrite(r) /\ ~Reviewing(r) /\ ~UNCHANGED enterpriseVars
  <2>1. /\ pc[r] \in {"amendDiffed", "patchDiffed", "patchInserting"} /\ r \notin crossed
        /\ pc'[r] = "done"
        /\ enterprise' = Saved(r) /\ verdict' = verdict /\ account' = account
        /\ named' = (named \/ r \in naming) /\ ~lapsed
    BY <1>5, <1>l, <1>t DEF SaveWrite, Reviewing, Moves, Goto, database
  <2>2. /\ pc[r] \in {"amendDiffed", "patchDiffed"} /\ Registered(dossier[r].row.id)
        /\ r \notin naming => "status" \notin dossier[r].cols
    BY <2>1 DEF CopyInv
  <2>3. ~named' => enterprise' = enterprise
    BY <2>1, <2>2 DEF Saved, Inserting
  <2>4. enterprise # None
    BY <2>2 DEF Registered
  <2>5. Calm' => Calm
    BY <1>o, <2>2
  <2> QED
    BY <2>1, <2>3, <2>4, <2>5 DEF RolesInv
<1>6. CASE DeleteRow(r)
  BY <1>6, <1>3 DEF DeleteRow, Moves, database, decision
<1>7. UNCHANGED account \/ RolesWrite(r)
  BY OwnStep
<1>8. \/ UNCHANGED <<enterprise, verdict, named>> \/ DeleteRow(r)
      \/ (EnrollSave(r) \/ SaveWrite(r)) /\ ~UNCHANGED enterpriseVars
  BY DEF EnterpriseStep, EnrollCheck, CancelLoad, RemoveLoad, AmendLoad, PatchLoad, ReviewLoad,
     ReviewFind, SaveSelect, EmbeddingFails, RolesLoad, RolesWrite, EnrollSave, SaveWrite,
     enterpriseVars, decision
<1> QED
  BY <1>1, <1>2, <1>3, <1>4, <1>5, <1>6, <1>7, <1>8

LEMMA RolesInvStep == TypeInv /\ CopyInv /\ RolesInv /\ [Next]_vars => RolesInv'
<1> SUFFICES ASSUME TypeInv, CopyInv, RolesInv, [Next]_vars PROVE RolesInv'
  OBVIOUS
<1>l. lapsed => lapsed'
  BY LapsedGrows
<1>1. CASE AccountMoves
  <2>1. PICK r \in Requests : AccountStep(r)
    BY <1>1 DEF AccountMoves
  <2>2. \A x \in Requests : pc[x] \in OwnLabels => pc'[x] = pc[x]
    BY <2>1, AccountLabels
  <2>3. /\ UNCHANGED <<enterprise, verdict, named>>
        /\ enterprise # None => account # None
    BY <1>1 DEF AccountMoves, TypeInv, AbsentInv, Exists, decision
  <2>4. lapsed' \/ account = None \/ account'.roles = account.roles
    BY <1>1 DEF AccountMoves
  <2> QED
    BY <1>l, <2>2, <2>3, <2>4 DEF RolesInv, OwnLabels
<1>2. CASE \E r \in Requests : EnterpriseStep(r)
  BY <1>2, RolesOwnStep
<1>3. CASE (Expire /\ UNCHANGED enterpriseVars) \/ UNCHANGED vars
  BY <1>3 DEF RolesInv, Expire, vars, accountVars, enterpriseVars, decision, memory, database
<1>4. CASE ProcessEnds
  BY <1>4, CrashStep DEF RolesInv, ProcessEnds, decision
<1> QED
  BY <1>1, <1>2, <1>3, <1>4 DEF Next

(* When no review is between its two writes, the account of an enterprise  *)
(* has the role ENTERPRISE exactly when its last review approved it,       *)
(* whatever statuses payloads name, and the status is that review's until  *)
(* a payload names one, unless one of the reasons that lapsed records came *)
(* up.                                                                     *)
THEOREM RolesFollow == Spec => []RolesFollowReview
<1>1. Init => RolesInv
  BY DEF Init, AccountInit, RolesInv, HasStatus, Exists, Absentee, Newcomer, Member, NewRow
<1>2. RolesInv => RolesFollowReview
  BY DEF RolesInv, RolesFollowReview, ReviewUnfinished
<1> QED
  BY <1>1, <1>2, RolesInvStep, TypeInvAlways, CopyInvAlways, PTL DEF Spec
=============================================================================
