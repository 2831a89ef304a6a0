------------------------------ MODULE Accounts ------------------------------
(***************************************************************************)
(* One e-mail address: its row of "accounts", its profile, and the keys    *)
(* that AuthService and OAuth2Service keep in Redis for it: the            *)
(* verification code, the reset token and one key per refresh token.       *)
(*                                                                         *)
(* A request chooses a handler when it arrives and is then a sequence of   *)
(* actions, one per round trip to the database or to Redis.  A code, a     *)
(* token or a password is named by the request that made it, Old for the   *)
(* one there was at the start.                                             *)
(***************************************************************************)
EXTENDS Naturals, FiniteSets

CONSTANTS
    Requests,
    Old, None,
    Kinds,        \* the handlers requests may choose
    Verdicts,     \* statuses an administrator may ask for
    MaxCrashes    \* bound on process crashes

ASSUME NamesAssumption == Old \notin Requests /\ None \notin Requests /\ Old # None
ASSUME CrashAssumption == MaxCrashes \in Nat

VARIABLES
    \* ---- database
    account,     \* the row, or None
    profile,     \* "none", "inactive" or "active"
    \* ---- Redis
    code,        \* verify:<email>
    resetKey,    \* forget-password:<email>
    sessions,    \* the refresh tokens that have a key
    \* ---- what clients hold
    mailed,      \* verification codes and reset links that were mailed
    issued,      \* refresh tokens and OAuth tickets
    \* ---- handlers in memory
    pc,          \* [Requests -> label of the next step]
    held,        \* [Requests -> the token and the row a handler holds]
    open,        \* [Requests -> branches it started and has not seen end]
    crashes,
    \* ---- history variables, read by the properties only
    consumed,    \* <<request, token>>: a refresh or a reset used up the token
    raced,       \* tokens two requests read before either deleted
    unaware,     \* requests whose reading of the account precedes its last write
    verified,    \* the e-mail of this account was verified
    slipped      \* the profile was stored after its activation, or never

database == <<account, profile>>
redis == <<code, resetKey, sessions>>
clients == <<mailed, issued>>
memory == <<pc, held, open>>
history == <<consumed, raced, unaware, verified, slipped>>
accountVars == <<database, redis, clients, memory, crashes, history>>

-----------------------------------------------------------------------------
Statuses == {"ACTIVE", "PENDING", "INACTIVE", "BLOCKED"}
Providers == {"google", "facebook"}
Roles == {"USER", "ENTERPRISE"}
Tokens == Requests \cup {Old}
Columns == {"status", "roles", "password", "google", "facebook"}

Row == [status : Statuses, roles : SUBSET Roles, password : Tokens,
        google : BOOLEAN, facebook : BOOLEAN]

ASSUME VerdictsAssumption == Verdicts \subseteq Statuses
ASSUME NoneAssumption == None \notin Row

NewRow(status, password) ==
    [status |-> status, roles |-> {"USER"}, password |-> password,
     google |-> FALSE, facebook |-> FALSE]

Code(t) == <<"code", t>>
Link(t) == <<"link", t>>
Refresh(t) == <<"refresh", t>>
Ticket(t) == <<"ticket", t>>

Ended == {"done", "rejected", "failed", "dead", "loggedOut"}
Live(r) == pc[r] \notin Ended \cup {"new"}
Goto(r, label) == pc' = [pc EXCEPT ![r] = label]
Starts(r, kind) == kind \in Kinds /\ pc[r] = "new"

Nothing == [tok |-> None, row |-> None, cols |-> {}]

Exists == account # None
HasStatus(status) == Exists /\ account.status = status

(* Everyone else who has read the account and goes on is now unaware.      *)
Writes(r) == unaware' = (unaware \ {r}) \cup {x \in Requests \ {r} : Live(x)}
Reads(r) == unaware' = unaware \ {r}

Absentee == account = None /\ profile = "none" /\ code = None /\ sessions = {}
            /\ mailed = {} /\ issued = {}
Newcomer == account = NewRow("PENDING", Old) /\ profile = "inactive" /\ code = Old
            /\ sessions = {} /\ mailed = {Code(Old)} /\ issued = {}
Member == account = NewRow("ACTIVE", Old) /\ profile = "active" /\ code = None
          /\ sessions = {Old} /\ mailed = {} /\ issued = {Refresh(Old)}

AccountInit ==
    /\ Absentee \/ Newcomer \/ Member
    /\ resetKey = None
    /\ pc = [r \in Requests |-> "new"]
    /\ held = [r \in Requests |-> Nothing]
    /\ open = [r \in Requests |-> {}]
    /\ crashes = 0
    /\ consumed = {} /\ raced = {} /\ unaware = {}
    /\ verified = FALSE /\ slipped = FALSE

-----------------------------------------------------------------------------
(* AuthService.register                                                    *)

RegisterCount(r) ==
    /\ Starts(r, "register")
    /\ Goto(r, IF Exists THEN "rejected" ELSE "counted")
    /\ UNCHANGED <<database, redis, clients, held, open, crashes, history>>

(* The row, then the answer; the branches of Promise.allSettled go on.     *)
RegisterSave(r) ==
    /\ pc[r] = "counted"
    /\ \/ /\ ~Exists
          /\ account' = NewRow("PENDING", r)
          /\ open' = [open EXCEPT ![r] = {"profile", "code", "mailCode"}]
          /\ Goto(r, "done")
          /\ Writes(r)
       \/ Exists /\ Goto(r, "failed") /\ UNCHANGED <<account, open, unaware>>
    /\ UNCHANGED <<profile, redis, clients, held, crashes, consumed, raced, verified, slipped>>

(* UserService.createUser, which turns an error into an answer nobody      *)
(* reads.                                                                  *)
StoreProfile(r) ==
    \/ /\ profile = "none"
       /\ profile' = "inactive"
       /\ slipped' = (slipped \/ verified)
    \/ profile' = profile /\ slipped' = TRUE

BranchProfile(r) ==
    /\ "profile" \in open[r]
    /\ open' = [open EXCEPT ![r] = @ \ {"profile"}]
    /\ StoreProfile(r)
    /\ UNCHANGED <<account, redis, clients, pc, held, crashes, consumed, raced, unaware, verified>>

BranchCode(r) ==
    /\ "code" \in open[r]
    /\ open' = [open EXCEPT ![r] = @ \ {"code"}]
    /\ code' = r
    /\ UNCHANGED <<database, resetKey, sessions, clients, pc, held, crashes, history>>

(* A mail is sent or lost.                                                 *)
BranchMail(r) ==
    \E b \in open[r] \cap {"mailCode", "mailLink"} :
       /\ open' = [open EXCEPT ![r] = @ \ {b}]
       /\ mailed' \in {mailed, mailed \cup {IF b = "mailCode" THEN Code(r) ELSE Link(r)}}
       /\ UNCHANGED <<database, redis, issued, pc, held, crashes, history>>

-----------------------------------------------------------------------------
(* AuthService.verifyEmailCode                                             *)

(* The account is asked for with status PENDING; without one the handler   *)
(* still goes on to compare the code.  None stands for the code 000000,    *)
(* which register and resend never make.                                   *)
VerifyLoad(r) ==
    /\ Starts(r, "verify")
    /\ \E c \in Tokens \cup {None} :
          /\ c = None \/ Code(c) \in mailed
          /\ held' = [held EXCEPT ![r] =
                [Nothing EXCEPT !.tok = c, !.row = IF HasStatus("PENDING") THEN account ELSE None]]
    /\ Goto(r, "asked")
    /\ Reads(r)
    /\ UNCHANGED <<database, redis, clients, open, crashes, consumed, raced, verified, slipped>>

(* Both are compared as numbers, and a code that is not there becomes 0:   *)
(* without a stored code 000000 matches.                                   *)
VerifyCompare(r) ==
    /\ pc[r] = "asked"
    /\ Goto(r, IF code = held[r].tok THEN "matched" ELSE "rejected")
    /\ UNCHANGED <<database, redis, clients, held, open, crashes, history>>

(* isActive, which no handler reads, and status, by e-mail and whatever    *)
(* the status is; of no row when the address has none.                     *)
VerifyActivate(r) ==
    /\ pc[r] = "matched"
    /\ account' = IF Exists THEN [account EXCEPT !.status = "ACTIVE"] ELSE None
    /\ Goto(r, "activated")
    /\ Writes(r)
    /\ UNCHANGED <<profile, redis, clients, held, open, crashes, consumed, raced, verified, slipped>>

(* Mutant: the profile that was found is saved as it is.                   *)
MutStaysInactive == profile
Activated == IF profile = "none" THEN "none" ELSE "active"

(* account.accountId throws when no account was found; activeProfile       *)
(* answers null when there is no profile yet, and nobody looks.            *)
VerifyProfile(r) ==
    /\ pc[r] = "activated"
    /\ \/ /\ held[r].row = None
          /\ Goto(r, "failed")
          /\ UNCHANGED <<profile, verified>>
       \/ /\ held[r].row # None
          /\ profile' = Activated
          /\ verified' = TRUE
          /\ Goto(r, "welcomed")
    /\ slipped' = (slipped \/ profile = "none")
    /\ UNCHANGED <<account, redis, clients, held, open, crashes, consumed, raced, unaware>>

VerifyDelete(r) ==
    /\ pc[r] = "welcomed"
    /\ code' = None
    /\ Goto(r, "done")
    /\ UNCHANGED <<database, resetKey, sessions, clients, held, open, crashes, history>>

-----------------------------------------------------------------------------
(* AuthService.resendEmailCode                                             *)

ResendDelete(r) ==
    /\ Starts(r, "resend")
    /\ code' = None
    /\ Goto(r, "cleared")
    /\ UNCHANGED <<database, resetKey, sessions, clients, held, open, crashes, history>>

ResendLoad(r) ==
    /\ pc[r] = "cleared"
    /\ \/ /\ HasStatus("PENDING") \/ HasStatus("INACTIVE")
          /\ profile # "none"
          /\ open' = [open EXCEPT ![r] = {"code", "mailCode"}]
          /\ Goto(r, "done")
       \/ /\ ~Exists \/ HasStatus("ACTIVE") \/ HasStatus("BLOCKED") \/ profile = "none"
          /\ Goto(r, "rejected")
          /\ UNCHANGED open
    /\ UNCHANGED <<database, redis, clients, held, crashes, history>>

-----------------------------------------------------------------------------
(* Sessions: AuthService.login, OAuth2Service.confirmOAuth2Account, the    *)
(* refresh of a token and logout                                           *)

(* Mutant: only a blocked account is turned away.                          *)
MutMayEnter == Exists /\ account.status # "BLOCKED"
MayEnter == HasStatus("ACTIVE")

(* A wrong password is one more way to be rejected; userPayload.profile    *)
(* throws when there is no profile.                                        *)
LoginLoad(r) ==
    /\ Starts(r, "login")
    /\ \/ MayEnter /\ profile # "none" /\ Goto(r, "storing") /\ Reads(r)
       \/ Goto(r, "rejected") /\ UNCHANGED unaware
    /\ UNCHANGED <<database, redis, clients, held, open, crashes, consumed, raced, verified, slipped>>

(* A ticket is good for a minute; it is not looked up anywhere.            *)
ConfirmLoad(r) ==
    /\ Starts(r, "confirm")
    /\ \E t \in Requests : Ticket(t) \in issued
    /\ \/ MayEnter /\ Goto(r, "storing") /\ Reads(r)
       \/ Goto(r, "rejected") /\ UNCHANGED unaware
    /\ UNCHANGED <<database, redis, clients, held, open, crashes, consumed, raced, verified, slipped>>

(* The commands on the keys of refresh tokens.                             *)
StoreRefreshToken(S, t) == S \cup {t}
DeleteRefreshToken(S, t) == S \ {t}

(* The new key; a refresh also deletes the old one, once more.             *)
StoreSession(r) ==
    /\ pc[r] = "storing"
    /\ sessions' = StoreRefreshToken(DeleteRefreshToken(sessions, held[r].tok), r)
    /\ issued' = issued \cup {Refresh(r)}
    /\ Goto(r, "done")
    /\ UNCHANGED <<database, code, resetKey, mailed, held, open, crashes, history>>

(* The requests between their reading of a token and its deletion.         *)
InWindow(x, t) == held[x].tok = t /\ (pc[x] = "checked" \/ "forget" \in open[x])
Overlaps(r, t) == \E x \in Requests \ {r} : InWindow(x, t)

(* JwtRefreshStrategy.validate, through validateAndDelRefreshToken: the    *)
(* key is read and then deleted in separate commands.                      *)
Honoured(t) == t \in sessions

RefreshCheck(r) ==
    /\ Starts(r, "refresh")
    /\ \E t \in Tokens :
          /\ Refresh(t) \in issued
          /\ \/ /\ Honoured(t)
                /\ held' = [held EXCEPT ![r] = [Nothing EXCEPT !.tok = t]]
                /\ Goto(r, "checked")
                /\ raced' = IF Overlaps(r, t) THEN raced \cup {t} ELSE raced
             \/ ~Honoured(t) /\ Goto(r, "rejected") /\ UNCHANGED <<held, raced>>
    /\ UNCHANGED <<database, redis, clients, open, crashes, consumed, unaware, verified, slipped>>

RefreshDelete(r) ==
    /\ pc[r] = "checked"
    /\ sessions' = DeleteRefreshToken(sessions, held[r].tok)
    /\ consumed' = consumed \cup {<<r, held[r].tok>>}
    /\ Goto(r, "owned")
    /\ UNCHANGED <<database, code, resetKey, clients, held, open, crashes,
                   raced, unaware, verified, slipped>>

(* AuthService.refreshToken: the account by id and status; destructuring   *)
(* what is not there throws, and the old token is gone by then.            *)
RefreshLoad(r) ==
    /\ pc[r] = "owned"
    /\ \/ MayEnter /\ profile # "none" /\ Goto(r, "storing") /\ Reads(r)
       \/ ~(MayEnter /\ profile # "none") /\ Goto(r, "failed") /\ UNCHANGED unaware
    /\ UNCHANGED <<database, redis, clients, held, open, crashes, consumed, raced, verified, slipped>>

(* The controller passes the id of the account where the service expects   *)
(* the token.  Decoding it gives null, reading its jit throws, and the     *)
(* handler of the error answers success.                                   *)
Logout(r) ==
    /\ Starts(r, "logout")
    /\ \E t \in Tokens :
          /\ Refresh(t) \in issued
          /\ held' = [held EXCEPT ![r] = [Nothing EXCEPT !.tok = t]]
    /\ Goto(r, "loggedOut")
    /\ UNCHANGED <<database, redis, clients, open, crashes, history>>

-----------------------------------------------------------------------------
(* AuthService.forgetPassword and resetPassword                            *)

(* The key is on its way when the name of a missing profile throws.        *)
ForgetLoad(r) ==
    /\ Starts(r, "forget")
    /\ \/ /\ HasStatus("ACTIVE") /\ profile # "none"
          /\ open' = [open EXCEPT ![r] = {"key", "mailLink"}]
          /\ Goto(r, "done")
       \/ /\ HasStatus("ACTIVE") /\ profile = "none"
          /\ open' = [open EXCEPT ![r] = {"key"}]
          /\ Goto(r, "failed")
       \/ /\ ~HasStatus("ACTIVE")
          /\ Goto(r, "rejected")
          /\ UNCHANGED open
    /\ UNCHANGED <<database, redis, clients, held, crashes, history>>

BranchKey(r) ==
    /\ "key" \in open[r]
    /\ open' = [open EXCEPT ![r] = @ \ {"key"}]
    /\ resetKey' = r
    /\ UNCHANGED <<database, code, sessions, clients, pc, held, crashes, history>>

GetForgetPasswordToken == resetKey

ResetCheck(r) ==
    /\ Starts(r, "reset")
    /\ \E t \in Tokens :
          /\ Link(t) \in mailed
          /\ \/ /\ GetForgetPasswordToken = t
                /\ held' = [held EXCEPT ![r] = [Nothing EXCEPT !.tok = t]]
                /\ open' = [open EXCEPT ![r] = {"forget"}]
                /\ Goto(r, "resetting")
                /\ raced' = IF Overlaps(r, t) THEN raced \cup {t} ELSE raced
             \/ GetForgetPasswordToken # t /\ Goto(r, "rejected") /\ UNCHANGED <<held, open, raced>>
    /\ UNCHANGED <<database, redis, clients, crashes, consumed, unaware, verified, slipped>>

(* The deletion is not awaited, and deletes whatever key there is by then. *)
(* Mutant: it is left to the expiry of the key.                            *)
MutForgotten == resetKey
Forgotten == None

BranchForget(r) ==
    /\ "forget" \in open[r]
    /\ open' = [open EXCEPT ![r] = @ \ {"forget"}]
    /\ resetKey' = Forgotten
    /\ UNCHANGED <<database, code, sessions, clients, pc, held, crashes, history>>

ResetPassword(r) ==
    /\ pc[r] = "resetting"
    /\ account' = [account EXCEPT !.password = r]
    /\ consumed' = consumed \cup {<<r, held[r].tok>>}
    /\ Goto(r, "done")
    /\ Writes(r)
    /\ UNCHANGED <<profile, redis, clients, held, open, crashes, raced, verified, slipped>>

-----------------------------------------------------------------------------
(* UserService.updateUserStatus and AuthService.updateStatus               *)

StatusLoad(r) ==
    /\ Starts(r, "status")
    /\ profile # "none"
    /\ \E s \in Verdicts :
          \/ /\ account.status # s
             /\ held' = [held EXCEPT ![r] = [Nothing EXCEPT !.row = [account EXCEPT !.status = s]]]
             /\ Goto(r, "ruling")
          \/ account.status = s /\ Goto(r, "rejected") /\ UNCHANGED held
    /\ UNCHANGED <<database, redis, clients, open, crashes, history>>

StatusWrite(r) ==
    /\ pc[r] = "ruling"
    /\ account' = [account EXCEPT !.status = held[r].row.status]
    /\ Goto(r, "done")
    /\ Writes(r)
    /\ UNCHANGED <<profile, redis, clients, held, open, crashes, consumed, raced, verified, slipped>>

-----------------------------------------------------------------------------
(* OAuth2Service.oauth2Login and createOAuth2Account                       *)

(* An address has one identity at each provider.                           *)
HasIdentity(p) == Exists /\ account[p]

OAuthFind(r) ==
    /\ Starts(r, "oauth")
    /\ \E p \in Providers :
          \/ /\ HasIdentity(p)
             /\ IF HasStatus("ACTIVE") THEN Goto(r, "done") /\ issued' = issued \cup {Ticket(r)}
                                       ELSE Goto(r, "rejected") /\ UNCHANGED issued
             /\ UNCHANGED held
          \/ /\ ~HasIdentity(p)
             /\ held' = [held EXCEPT ![r] = [Nothing EXCEPT !.cols = {p}]]
             /\ Goto(r, "unlinked")
             /\ UNCHANGED issued
    /\ UNCHANGED <<database, redis, mailed, open, crashes, history>>

(* The row is looked up again, by e-mail alone, and copied with the        *)
(* identity set.                                                           *)
(* Mutant: the copy holds the identity only.                               *)
MutWithIdentity(row, P) == [c \in P |-> TRUE]
WithIdentity(row, P) == [c \in Columns |-> IF c \in P THEN TRUE ELSE row[c]]

OAuthLookup(r) ==
    /\ pc[r] = "unlinked"
    /\ IF Exists
         THEN /\ held' = [held EXCEPT ![r].row = WithIdentity(account, held[r].cols)]
              /\ Goto(r, "linking")
         ELSE Goto(r, "creating") /\ UNCHANGED held
    /\ Reads(r)
    /\ UNCHANGED <<database, redis, clients, open, crashes, consumed, raced, verified, slipped>>

OAuthCreate(r) ==
    /\ pc[r] = "creating"
    /\ \/ /\ ~Exists
          /\ account' = WithIdentity(NewRow("ACTIVE", r), held[r].cols)
          /\ Goto(r, "created")
          /\ Writes(r)
       \/ Exists /\ Goto(r, "failed") /\ UNCHANGED <<account, unaware>>
    /\ UNCHANGED <<profile, redis, clients, held, open, crashes, consumed, raced, verified, slipped>>

OAuthProfile(r) ==
    /\ pc[r] = "created"
    /\ StoreProfile(r)
    /\ issued' = issued \cup {Ticket(r)}
    /\ Goto(r, "done")
    /\ UNCHANGED <<account, redis, mailed, held, open, crashes, consumed, raced, unaware, verified>>

(* save of the copy: SELECT and diff, then an UPDATE of what differs.      *)
OAuthSelect(r) ==
    /\ pc[r] = "linking"
    /\ held' = [held EXCEPT ![r].cols = {c \in Columns : held[r].row[c] # account[c]}]
    /\ Goto(r, "diffed")
    /\ UNCHANGED <<database, redis, clients, open, crashes, history>>

(* Mutant: linking an identity activates the account.                      *)
MutLinked(r) == [WithIdentity(account, held[r].cols) EXCEPT !.status = "ACTIVE"]
Linked(r) == [c \in Columns |-> IF c \in held[r].cols THEN held[r].row[c] ELSE account[c]]

OAuthUpdate(r) ==
    /\ pc[r] = "diffed"
    /\ account' = Linked(r)
    /\ issued' = issued \cup {Ticket(r)}
    /\ Goto(r, "done")
    /\ Writes(r)
    /\ UNCHANGED <<profile, redis, mailed, held, open, crashes, consumed, raced, verified, slipped>>

-----------------------------------------------------------------------------
(* The TTL of a key is over.                                               *)
Expire ==
    /\ \/ code # None /\ code' = None /\ UNCHANGED <<resetKey, sessions>>
       \/ resetKey # None /\ resetKey' = None /\ UNCHANGED <<code, sessions>>
       \/ \E t \in sessions : sessions' = sessions \ {t} /\ UNCHANGED <<code, resetKey>>
    /\ UNCHANGED <<database, clients, memory, crashes, history>>

(* The process ends; handlers and unfinished branches are lost.            *)
Crash ==
    /\ crashes < MaxCrashes
    /\ crashes' = crashes + 1
    /\ pc' = [r \in Requests |-> IF Live(r) THEN "dead" ELSE pc[r]]
    /\ open' = [r \in Requests |-> {}]
    /\ raced' = raced \cup {held[r].tok : r \in {x \in Requests : "forget" \in open[x]}}
    /\ slipped' = (slipped \/ \E r \in Requests :
                      pc[r] \in {"activated", "created"} \/ "profile" \in open[r])
    /\ unaware' = {}
    /\ UNCHANGED <<database, redis, clients, held, consumed, verified>>

AccountStep(r) ==
    \/ RegisterCount(r) \/ RegisterSave(r)
    \/ BranchProfile(r) \/ BranchCode(r) \/ BranchMail(r) \/ BranchKey(r) \/ BranchForget(r)
    \/ VerifyLoad(r) \/ VerifyCompare(r) \/ VerifyActivate(r) \/ VerifyProfile(r) \/ VerifyDelete(r)
    \/ ResendDelete(r) \/ ResendLoad(r)
    \/ LoginLoad(r) \/ ConfirmLoad(r) \/ StoreSession(r)
    \/ RefreshCheck(r) \/ RefreshDelete(r) \/ RefreshLoad(r) \/ Logout(r)
    \/ ForgetLoad(r) \/ ResetCheck(r) \/ ResetPassword(r)
    \/ StatusLoad(r) \/ StatusWrite(r)
    \/ OAuthFind(r) \/ OAuthLookup(r) \/ OAuthCreate(r) \/ OAuthProfile(r)
    \/ OAuthSelect(r) \/ OAuthUpdate(r)

-----------------------------------------------------------------------------
(* Properties *)

(* A refresh token and a reset link are exchanged at most once, although   *)
(* each is read in one command and deleted in another: two requests that   *)
(* exchange the same one must have read it before either deleted it, or    *)
(* the process ended before a deletion that nobody awaited.                *)
OnceUnlessRaced ==
    \A t \in Tokens \ raced : Cardinality({r \in Requests : <<r, t>> \in consumed}) <= 1

(* A session begins only while the account is ACTIVE, or by a handler that *)
(* read it so before the last write to it: refreshing does not carry a     *)
(* login past the ruling of an administrator.                              *)
SessionsNeedActive ==
    [][\A r \in Requests : r \in sessions' \ sessions => HasStatus("ACTIVE") \/ r \in unaware]_accountVars

(* A ruling of an administrator, BLOCKED or INACTIVE, is lifted only by    *)
(* another one, by a verification (of the code that is stored or, when     *)
(* none is, of 000000), or by linking an identity to a copy of the row     *)
(* read before the ruling; and only a reset or such a link changes the     *)
(* password.  No other handler brings an old value back.                   *)
RulingHolds ==
    [][Exists /\ account' # account =>
          /\ account.status \in {"BLOCKED", "INACTIVE"} /\ account'.status # account.status
               => \E r \in Requests : \/ pc[r] \in {"ruling", "matched"} /\ pc'[r] # pc[r]
                                      \/ pc[r] = "diffed" /\ pc'[r] = "done" /\ r \in unaware
          /\ account'.password # account.password
               => \E r \in Requests : \/ pc[r] = "resetting" /\ pc'[r] = "done"
                                      \/ pc[r] = "diffed" /\ pc'[r] = "done" /\ r \in unaware]_accountVars

(* Once the address is verified the profile is active: the profile stored  *)
(* in the background by register is not left behind, unless it came after  *)
(* the verification, was never stored, or the process ended.               *)
ProfileFollows == verified /\ ~slipped => profile = "active"

(* What logout answers: true when the token was deleted, bad request when  *)
(* there was none to delete.  A token whose logout answered true would not *)
(* be live.                                                                *)
LogoutEndsSession ==
    [][\A r \in Requests : pc'[r] = "loggedOut" /\ pc[r] # "loggedOut" => held'[r].tok \notin sessions']_accountVars
=============================================================================
