# API Compass: a TLA+ model of its job-board back end

API Compass is a NestJS server over PostgreSQL (TypeORM), Redis (cache, tokens, BullMQ
queues), an embedding service, PayPal, a mail server and Firebase messaging. It serves
candidates, who apply for jobs, and enterprises, who post jobs and buy points to boost them.
This directory models the parts of it whose correctness depends on the order in which things
happen. Paths below are relative to the repository root of the server (`src/...`).

## 1. Inventory

### 1.1 How the program runs

One Node process runs one callback at a time. A handler runs undisturbed between two
`await`s, and every `await` (a database statement, a Redis command, an HTTP call) lets any
other handler, cron or queue worker run. Nothing in the handlers takes a row lock, and almost
nothing opens a transaction: the exceptions are `Repository.save` (one transaction around its
own statements, *after* its SELECT) and `removeJobRelates` in the job service. Several server
processes may run against the same database; crons and workers then run once per process.
Promises nobody awaits (`updateBoostLimit`, `completeOrder` in its controller) go on after
the response was sent, and a rejection in one of them ends the process.

Two facts about TypeORM matter everywhere. `save(entity)` re-SELECTs the row, computes the
columns in which the entity differs from that fresh copy, and UPDATEs those columns with
*absolute* values. And `@BeforeUpdate` hooks run only for class instances, not for spread
objects, and only if something differs.

### 1.2 Components

| component | state | operations | talks to | hard behaviour | what makes it correct |
|---|---|---|---|---|---|
| Boosting (`modules/boost-job`) | `boosted_jobs`, `jobs.is_boost` | `create`, bulk removal, listing | enterprise row, embeddings | check, store and charge are separate steps; the charge is not awaited | charged only if stored; flag agrees with row; no overdraft |
| Boost cron (`modules/boost-job-cron`) | `boosted_jobs`, `is_boost`, queue `boostJob-expired` | fetch a page, remove, clear flags, re-embed, enqueue | boosting, BullMQ | offset over rows it deletes; a page half done; two processes | rows go only after 24 h; each due row goes in the end; message only after removal |
| Transactions (`modules/transaction`, `history-transaction`) | `transactions`, `history_transactions`, enterprise points | `createOrder`, `completeOrder`, listing | PayPal, enterprise row | credit, record and history are three writes; balance read early | credit not lost; a record implies a credit |
| Enterprise (`modules/enterprise`) | row of `enterprises`, account roles, cache | register, review, update, cancel, remove, points | cache, mail, account | whole-row saves of stale copies; status and roles in two writes | last review stands; points neither lost nor made |
| Jobs (`modules/job`) | row of `jobs`, junction tables, `jobs_favorite`, `jobs_recently` | create, update, close, open, change status, delete, view, keep, list, estimate of a rank | cache, embeddings | save of a stale whole row; delete in two parts; check then insert without a key; a rank summed over a join | relations not lost; deleted stays deleted; expired means past its deadline; one view per candidate; an estimate never flatters |
| Job cron and queues (`modules/job-cron`, processors) | `jobs.status`, queue `job-expired`, notifications | fetch, expire, notify, enqueue in batches; process a message | jobs, mail, notifications | acts on jobs read earlier; two processors on one queue name; a failed mail is not an error | jobs past their deadline expire; each owner is told once |
| Applications (`modules/apply-job`) | `applied_jobs` | apply, decide, list | jobs, CVs, notifications | check then insert; concurrent decisions; notices stored after the answer | one application per profile and job; the last notice tells the status |
| CVs (`modules/cv`) | `cvs` | upload, publish, delete | applications | deletion while an application is about to name it | an application names a CV that exists |
| Authentication (`modules/auth`) | Redis keys for tokens, codes and resets; `accounts.status` | register, verify, resend, login, refresh, logout, forget, reset, status | mail, Redis | read, delete and set in separate Redis commands; branches nobody awaits; expiry of keys | a token is exchanged once; no session unless ACTIVE; a ruling holds |
| OAuth (`modules/auth/oauth2`) | accounts, profiles | sign in, register or link | authentication | saves a copy of the account read before | linking brings nothing back |
| Users and profiles (`modules/user`) | accounts, profiles | profile update, categories, roles, status | cache, categories | cached copy against the row; a check of two categories stored later | the majority belongs to the industry; the cache as below |
| Cache (`cache/`) | Redis keys with TTL | get, set, delete by key and by prefix (SCAN, then DEL) | every service | a reader fills the cache with what it read before a write; a deletion before the write; tables no deletion is for | an entry is stale only for a known reason |
| Notifications, FCM (`modules/notification`, `fcm-token`) | `notifications`, `fcm_tokens`, cached devices | create, mark read, register devices | Firebase | rows stored in promises nobody awaits | a stored notification belongs to a real event |
| Categories (`modules/category`) | parent pointers | create, change parent, rename, delete with the family | profiles, cache | legal steps that together close a cycle; moves between a check and its use | what a profile names exists and fits |
| Tags, websites, addresses | one table each | create, update, delete, replace | enterprise, profile, jobs, cache | websites: delete and save side by side; tags: check then insert | the stored set is what one request asked for |
| Dashboard | none | counts | database | read only | - |
| Embeddings (`modules/embedding`) | what the recommendation system holds of a job or an enterprise | create, delete | external HTTP | a row read, sent and outdated | as for the cache |
| Mail, images | none here | HTTP calls | external | may fail | callers survive it |
| Lists (`common/dtos`, every service) | none | a page, its metadata | every table | pages by offset over a table that changes | a client that follows `hasNextPage` sees every row that keeps its place |
| Guards, DTOs, builders, configuration | none | - | - | validation that differs from its documentation | - |

`PROJECT.json` lists the same components with what is modelled of each, and under `hazards`
each place where the code can go wrong in a way a unit test would hardly reach.

## 2. Plan

The modules, in the order they were written, the most important behaviour first:

| module | extends | models |
|---|---|---|
| `EnterpriseRow` | | three columns of `enterprises` and TypeORM's `save` |
| `BoostPoints` | `EnterpriseRow` | everything that touches the points of an enterprise; implements `PointLedger` |
| `PointLedger` | | the abstract account |
| `JobLifecycle` | | one enterprise's jobs, their junction rows and the expiry cron |
| `Accounts` | | one address: account, profile, Redis keys, sessions |
| `Enterprises` | `Accounts` | the enterprise the account registers, its review and the roles |
| `Applications` | | applications, CVs, decisions, notifications |
| `ExpiryQueue` | `Applications` | the round after an expiry, the queue and its processors |
| `Handlers` | | requests, each run by one handler |
| `Caches`, `Catalog`, `Listings`, `Ranking` | `Handlers` | cache entries; rows others refer to; paged lists; the rank estimate |
| `Portal` | the four | the four in one process |

The theorems are in modules of their own:

| module | extends | proves about |
|---|---|---|
| `BoostPointsProofs` | `BoostPoints` | types and the balance |
| `BoostRowsProofs` | `BoostPointsProofs` | boosted rows, flags, records; the refinement of `PointLedger`; overdraft and premium |
| `JobLifecycleProofs` | `JobLifecycle` | jobs |
| `EnterprisesProofs` | `Enterprises` | accounts, tokens, enterprises and roles |
| `ExpiryQueueProofs` | `ExpiryQueue` | applications, decisions, the expiry round and its queue |
| `PortalProofs` | `Portal` | what `Catalog` models |
| `PortalReadsProofs` | `PortalProofs` | what `Listings` and `Ranking` model |
| `CachesProofs` | `PortalReadsProofs` | what `Caches` models; the types of `Portal` |

No module uses a RECURSIVE operator, so that all of them can be proved about; `Family` in Catalog is a
smallest closed set for that reason. What may still come: `LedgerUnlessTorn` is a refinement
until windows overlap, and an abstract account that loses updates would cover the rest as well; the
cache could be given an abstract specification of its own (an entry is what it shows, or about to go), of which
`StaleInv` is the mapping.

## 3. Modules

### 3.1 EnterpriseRow

The columns `totalPoints`, `isPremium`, `status` of one row of `enterprises`, and the three
things `save` does with an entity: the difference to the freshly selected row (`Changed`), the
hook (`CheckPremiumStatus`, from `enterprise.entity.ts`), the UPDATE (`UpdateOf`, `Updated`).
An entity is a set of columns with their values, because `findOneById` selects
`totalPoints` only while the other handlers load every column.

### 3.2 BoostPoints

| code | actions |
|---|---|
| `BoostJobService.create` | `BoostRefused`, `BoostReadPoints`, `BoostCheck`, the branches `BoostFlag` and `BoostInsert` of `Promise.all`, `BoostEmbed` |
| `EnterpriseService.updateBoostLimit` (not awaited) | `ChargeRead`, `SaveSelect`, `SaveUpdate` |
| `TransactionService.completeOrder` with `updateEnterprisePayment` | `OrderReadPoints`, `OrderLoad`, `SaveSelect`, `SaveUpdate`, `OrderRecord`, `OrderHistory` |
| handlers that read the whole row and save it (company data, partial update, address, registration, wishlist) | `SaverRefused`, `SaverLoad`, `SaverFails`, `SaveSelect`, `SaveUpdate` |
| `updateEnterpriseStatus` | `ReviewJudge`, `ReviewLoad`, `SaveSelect`, `SaveUpdate` |
| `BoostJobCronService.handleCronBoostJob` | `CronStart`, `CronFetch`, `CronRemove`, `CronClear`, `CronQueue`, `CronFails` |
| end of the process | `Crash` |
| passing of 24 hours | `RowAges` |

An action is a database round trip, or several between which nothing shared is touched.
`pc[r]` is where the handler is; `seen` and `entity` are what it holds in memory; `open` and
`ok` are the branches of its `Promise.all`. The history variables (`written`, `inserted`,
`granted`, `spent`, `decided`, `torn`, `overlapped`, `contended`, `due`) are never read by a
guard; they say what a property needs to know of the past.

What is abstracted: amounts of payment providers (a plan gives 50 or 100 points as in the
code), embeddings (calls that may throw), the other columns of the company data, `is_trial`
(only ever written `FALSE`). The status is one of the columns an `UpdateEnterpriseDto` may name
(it inherits it from `CreateEnterpriseDto`), so `update(id)` and `updateRegisterEnterprise`
may set it without a review: a saver's input is its kind and the status of its payload or
`unset` (`Saves`), and `SetsStatus` says who sets one. The other savers take payloads without it, from which
the validation pipe (`whitelist`, main.ts) strips it. The statements themselves succeed,
except where a constraint rejects them; an HTTP call may throw. `boosted_jobs.job_id` is
UNIQUE because its relation is one-to-one and the schema is generated from the entities.
A row ages only after the request that inserted it has ended: no handler lives for a day.
`Crash` ends all processes at once.

`torn` becomes true when two read-modify-write windows on the row overlap, from the read an
UPDATE is computed from to that UPDATE. The code takes no lock, so this can happen and an
update is then lost. The properties about exact values therefore state where the line is: the
code is exact as long as windows do not overlap, *whatever* else interleaves, fails or
crashes. `PointsBounded` and the properties about boosted rows hold without that condition.

### 3.3 PointLedger

The abstract account: each purchase and each boost is posted at most once, for its amount; a
boost after it is stored; the transaction after the posting, the history after the
transaction. `Ledger` in BoostPoints is the refinement mapping: `posted` is the set of
requests whose UPDATE has run, `backed` the set of boosts that ever had a row. The property is
`LedgerUnlessTorn`: every step implements a step of the account or a stutter as long as no two
read-modify-write windows have overlapped.

### 3.4 JobLifecycle

| code | actions |
|---|---|
| `JobService.updateJob` | `UpdateCheck`, `UpdateLoad`, `UpdateStrip` (`removeJobRelates`), `SaveSelect`, then `SaveWrite` or `SaveFails` |
| `deleteJob` | `DeleteCheck`, `DeleteStrip`, `DeleteRow` |
| `closeJob`, `openJob`, `changeStatus` | `StatusLoad`, `StatusWrite` |
| `applyJob`, boosting, `createRecentJob`, as far as they touch the rows that refer to a job | `ApplyLoad`, `ApplyInsert`, `Boost`, `BoostEnds`, `View` |
| `JobCronService.handleCronJob` | `CronStart`, `CronFetch` (one page), `CronExpire` |
| midnight, end of the process | `Tick`, `Crash` |

`job[j]` is the row or `Absent`; `rels[j]` stands for the junction rows of the four tables.
`save` fixes in its SELECT what its transaction will write (`held`): columns that differ,
junction rows to add and to remove, or the INSERT of a row that has gone. The transaction is
rejected by the keys of the tables (`SaveCommits`): a duplicate junction row, a junction row
whose job is gone. Foreign keys of applications, boosts and views block `DeleteRow`.

The jobs have the status `FirstStatus` at the start, OPEN or, where the question is about an
expired job, EXPIRED. Time is counted in days, because `jobs.deadline` is a `date`. An update compares the deadline
of its payload with the time of day, so a deadline of today may count as past or to come.
`changeStatus` selects no column of the job itself; whether its read succeeds and whether the
comparison with the payload sees the status is left open in the model. A boost is one step
here; `BoostPoints` has its steps. Jobs exist at the start; `create` is one insertion and is a
handler of `Caches` and `Catalog`.

`stale` holds the actors whose reading of a job has been outdated by another's write, `torn`
the jobs an actor then wrote all the same, `forced` the jobs whose status an administrator set
last, `clashed` the jobs on which two updates overlapped between strip and save. The code has
no lock, so jobs do become torn and clashed; the properties say what holds short of that, and
`ApplicationsKeepJob`, `JobsExpire` hold without such a condition.

### 3.5 Accounts

One e-mail address: the row of `accounts`, its profile, the Redis keys `verify:<email>`
(`code`), `forget-password:<email>` (`resetKey`) and one per refresh token (`sessions`), and
what was mailed or issued to clients.

| code | actions |
|---|---|
| `AuthService.register` | `RegisterCount`, `RegisterSave`, then the branches `BranchProfile`, `BranchCode`, `BranchMail` |
| `verifyEmailCode` | `VerifyLoad`, `VerifyCompare`, `VerifyActivate`, `VerifyProfile`, `VerifyDelete` |
| `resendEmailCode` | `ResendDelete`, `ResendLoad`, `BranchCode`, `BranchMail` |
| `login`, `confirmOAuth2Account` | `LoginLoad` or `ConfirmLoad`, `StoreSession` |
| `refreshToken` with its strategy | `RefreshCheck`, `RefreshDelete`, `RefreshLoad`, `StoreSession` |
| `logout` | `Logout` |
| `forgetPassword`, `resetPassword` | `ForgetLoad`, `BranchKey`, `BranchMail`; `ResetCheck`, `BranchForget`, `ResetPassword` |
| `updateUserStatus`, `updateStatus` | `StatusLoad`, `StatusWrite` |
| `OAuth2Service.oauth2Login` | `OAuthFind`, `OAuthLookup`, `OAuthCreate`, `OAuthProfile`, `OAuthSelect`, `OAuthUpdate` |
| end of a TTL, end of the process | `Expire`, `Crash` |

A token, a code or a password is named by the request that made it; signatures and hashes are
therefore never forged, and a check is whether the name is still there. The one comparison that
is not is kept as it is: `verifyEmailCode` compares codes as numbers, and a key that is not there
(`null`) becomes 0. So `000000`, which `register` and `resend` never make, is a code a client may send
(`None` in `VerifyLoad`) and matches when none is stored. `forgetPassword` stores its key before it notices that the account
has no profile and throws (`ForgetLoad`).
Branches are promises the handler does not await: they end in any order, after the answer, or
not at all. `consumed` holds who exchanged which token, `raced` the tokens two requests read
before either deleted them, `unaware` the requests whose reading of the account is older than
its last write. `verified` and `slipped` are about the profile that `register` stores in the
background.

### 3.6 Enterprises

EXTENDS Accounts, because the review of an enterprise writes the account as well.

| code | actions |
|---|---|
| `EnterpriseService.create`, with or without a status in the payload | `EnrollCheck`, `EnrollSave` |
| `cancelEnterprise`, `remove` | `CancelLoad` or `RemoveLoad`, `DeleteRow` |
| `updateRegisterEnterprise` | `AmendLoad`, `SaveSelect`, `SaveWrite` |
| `update(id)`, and `updatePartialInfoActive`, whose payload has no status | `PatchLoad`, `SaveSelect`, `SaveWrite` |
| `updateEnterpriseStatus` | `ReviewLoad`, `ReviewFind`, `SaveSelect`, `SaveWrite`, `EmbeddingFails`, then `RolesLoad`, `RolesWrite` |

`SaveSelect` and `SaveWrite` are TypeORM's `save`, which inserts a row that has gone, except for
`updateRegisterEnterprise`, which did not load the account the row needs and fails. Registration,
amendment and update save the payload over the row, so a payload that names a status sets it
(`WithPayload`), without the role that a review grants or withdraws. The history variables tell the two apart: `naming`
holds the requests whose payload names a status, `verdict` is the status of the last review,
`named` whether a payload has named one since. `crossed` holds the handlers whose copy of the row is
older than its last write. `lapsed` becomes true when a review ends between its two writes, or a
write from an outdated copy went through.

### 3.7 Applications

| code | actions |
|---|---|
| `ApplyJobService.applyJob` | `ApplyStart`, `ApplyReadCv`, `ApplyReadExisting`, `ApplySave` |
| `updateApplicationStatus` | `DecideCheck`, then `DecideUpdate`, `DecideFails`, `DecideAnswer` per item, `DecideTell` in the background |
| `CvService.uploadCV`, `updateCV`, `deleteCV` | `UploadCV`; `CvCheck`, `UpdateCV`; `CvCheck`, `DeleteUseCheck`, `DeleteCV` |
| `NotificationService.markAsRead`, `markAsReadAll` | `MarkLoad`, `MarkAsRead`, `MarkAsReadAll` |
| end of the process | `ProcessEnds` |

A decision is a list of items, handled side by side. Its notices are promises nobody awaits;
a rejection in one of them ends the process. `missed` holds the applications stored since
a request looked for one, `last` the type of the last notice about an application, `untold` the
applications whose last decision met another one or was cut short.

### 3.8 ExpiryQueue

EXTENDS Applications, because a round of the cron writes notifications too. Each server process
has a cron of its own, so up to `Rounds` rounds overlap.

| code | actions |
|---|---|
| `JobCronService.handleCronJob` with its batches | `RoundLoad`, `RoundMark`, `RoundTell`, `RoundAddBulk`, `RoundNext`, `RoundFails` |
| the worker of a processor | `Take`, `Complete` |
| end of the process | `Crash` |

The queue `job-expired` is the external part: BullMQ gives a waiting message to any worker of
the queue, and both processors are registered on this one. A message whose worker died with
the process is stalled and put back. `mailed`, `twice`, `served`, `stalled` follow the messages.

### 3.9 Handlers, Caches, Catalog, Listings, Ranking, Portal

`Handlers` holds what the four modules below share: a request takes one of the handlers `mix` lets
it run, moves through its labels and ends; a statement may fail (`Breaks`), the process
may end (`Crashes`).

`Caches` models every entry of `CacheService` and the embeddings in the recommendation system.
Here the handlers are data: `Program[k]` is the sequence of the steps of handler `k`, and one
interpreter runs them (`at[r]` is the position). A step is a GET that may answer (`Hit`), a
SELECT (`Read`, or `Find` when it may end the handler), an INSERT, UPDATE or DELETE (`Write`), a
SET (`Fill`), a SET that puts the roles of the caller's token in the place of those read
(`Claim`), a DEL (`Drop`), a deletion by prefix, which runs in the background (`Sweep`), and the
wait for it (`Await`). So `UpdateJob == Find({"jobs"}) \o Write({"jobs"}) \o CreateJobEmbedding
\o SweepJobs` reads like the handler it stands for. The contents of an entry are abstracted to
the tables it *lacks*: those with a write its content does not show. `Shows` lists the tables
each entry is built from. `Overlooked` lists the writes no handler follows by a deletion of the
entry, `Skipped` the handlers that delete it too early or not at all: both are readings of the
code, and `StaleOnlyIfRaced` says that they, outdated readers and failures are all there is. A write
counts with what the schema adds to it: the removal of an enterprise takes its jobs along
(`RemovedTables`, ON DELETE CASCADE in job.entity.ts), and the lists, the total and the embeddings
of those jobs are in `Skipped`. Handlers whose embedding follows the status of the row are two programs, one for
either outcome.

`Catalog` models rows others refer to: the tree of categories with the profile that names two
of them (`createCategory`, `createChildren`, `changeParent`, `remove`, `removeMany` with the cascade of
the foreign key, `updateCandidateProfile`, and `activeProfile`, `updateUser` and
`updatePersonalProfile`, which save the whole profile they read (`Whole...`)); the websites of a profile, which a request replaces by
a DELETE and INSERTs side by side; the relations that `save` writes as a whole (wish list of
candidates, jobs of an enterprise); and the rows that are inserted after a look whether they
are there (jobs kept, views of a job, tags). `outrun`, `crowded`, `mingled`, `torn` and `loose` record
that a request relied on a reading another one had outdated; `moved[r]` holds the categories
that were moved since request `r` read what it will save of the profile.

`Listings` models `PaginationDto.skip`, `PageMetaDto` and every handler that answers with a list: its
order, whether and when it counts, whether it pages at all. A walk is a client that follows
`hasNextPage`. A row has a *place*, what the ORDER BY sees of its columns. Rows of one place tie: the
database may return them in another order for each page, and in a list without ORDER BY all
rows tie (`PagesOf`). The writers insert and delete rows and, where the list is ordered by a
column that is written again (the last update, a name, a deadline, points), move them. Three lists
answer a page and its total from the cache: `WalkCached` takes them from `shelf`, where `WalkFill` put them for up to a day, and
`ClearList` is a deletion or the end of the TTL. The history variables follow what a client may rely on:
`steady[r]` are the rows with a place of their own that no write has brought forward since walk `r` began,
`still[r]` those that none has put back, `fresh` the walks since whose last page nothing was written, so that what they put into
the cache is current.

`Ranking` models `estimateRankIfBoost`: the sum of points over the join with the categories, as read in
three steps, against the place the job would take in the list.

`Portal` is the four in one process. A request runs a handler of any of them; they are composed
by Next, each module leaving the variables of the others alone, and a crash hits all.

## 4. Runs

| run | instance | shows |
|---|---|---|
| `points` | 2 jobs, 2 boosts at 50 or 70 points, 1 order, 1 cron, batch 1, 1 crash, 100 points; 2.1 million states | the balance stays between its bounds; no overdraft unless boosts overlap; charged only if stored; records follow credits; flag agrees with row away from contention; no early expiry; no early message; every step is one of `PointLedger` or a stutter until two windows overlap |
| `savers` | 1 boost at 50 or 100, 1 order, 1 saver of any kind, with the status BLOCKED in its payload or without, 1 review, 1 crash, 50 points; 2.5 million states | without overlapping windows points and premium are exact, and the status is that of the last review or of the last payload that named one |
| `liveness` | 2 boosts, 1 cron, batch 1, 1 crash, fair; 73 thousand states | each due boost is removed; each started request ends |
| `none_found` | 2 boosts, 1 cron, batch 1 | *violated*: the cron logs that there is no expired boost while one that was due at its start is left |
| `updates` | 1 job, 2 updates, 1 deletion, 1 application, boosts and views, 1 crash; 2 million states | a job's relations are whole or none unless two updates overlap; its flag agrees with its boosted row; no application loses its job; nothing is changed under an application except after an outdated check |
| `expiry` | 2 jobs, 1 update, 1 closing, 1 opening, 1 administrator's change, 1 cron, pages of one, 2 days, 1 crash; 0.6 million states, cron fair | EXPIRED means past the deadline; no single step but opening and `changeStatus` takes a job from CLOSED to OPEN; every open job past its deadline is expired |
| `reopen` | 1 expired job, 1 administrator's change, 1 cron, fair | *violated*: `changeStatus` announces a new deadline and keeps the old one; the cron expires the job again the same day |
| `accounts` | 3 requests, each any of 17 handlers, payloads that name ACTIVE or no status, keys that expire, 1 crash; 1.2 million states | a token is exchanged once; no session unless ACTIVE; a ruling holds, but for the ways around it that section 7 names; the profile follows the verification; roles follow the review, whatever payloads say; cancelling spares what was reviewed |
| `logout` | 1 request, an account that is logged in | *violated*: logout answers true and the refresh token lives |
| `applications` | 3 requests of one of 3 mixes, 2 jobs, 2 profiles, 2 CVs, decisions of up to 2 items, batch 1, rounds of 2 processes, 2 processors, 1 failure; 0.6 million states | one application per profile and job; the last notice tells the status; each expired job is told about once |
| `accepted` | 1 decision | *violated*: ACCEPTED, which the payload documents, is stored as nothing and told as a rejection |
| `portal` | 3 requests of one of 21 sets of handlers that meet, a walk among two writers or two walks with one, or 2 requests of any handlers of Caches, 1 failure; 3 categories (one to come), 2 candidates, 2 names, 2 links, lists of 2 rows that may become 3, on 3 places in pages of 2, 3 boosted jobs (one that the list leaves out) in 2 categories; 0.85 million states | entries are stale for known reasons only; the majority fits the industry; websites are those of one request; relations are kept; a walk over pages misses no row but those that tie or come forward, or what an outdated cached page hides; an estimate of a rank is never too good |

Why the bounds are enough for what they show. Every hazard here is between two handlers and
at most one cron: a lost update takes two windows, a double boost two calls on one job, a
skipped row two due rows with a batch of one (the offset passes a row as soon as a full batch
was deleted). The two amounts are on both sides of what the balance allows twice: two boosts
at 50 use it up exactly, 50 and 70 overdraw it. In `savers` the balance can reach 0, so that
the premium hook acts. One crash is enough for every "stopped between two steps" state, since
requests do not survive it. Whatever these bounds leave out, the invariants and action
properties are proved for all values of the constants (section 6); the bounds matter for liveness, and for
showing that what the properties speak of happens. In `updates` two updates are what it takes to clash, and one
of each of the others what it takes to come between their steps; the relation sets `{t1}`,
`{t2}`, `{t1, t2}` tell a mixture from a choice. In `expiry` the deadlines are one that is over on
the second day and one beyond the horizon, and two jobs with pages of one make the cron take
three pages. In `savers` the payload names BLOCKED and in `accounts` ACTIVE, each where a review may decide otherwise. In `accounts` three requests suffice for a token that two of them exchange while a
third one rules, and for a review, an amendment and a link of an identity; the account starts
absent, new or active. In `applications` three requests choose among the handlers of one mix, and a mix holds what meets
in a row or in the queue. In `portal` two requests run any two handlers of `Caches` (a stale entry
takes a reader that fills it and a writer), and three requests run any handlers of one of the
sets in `Meeting`: what three readers and writers of an entry can add, and all handlers of one
part of Catalog, of Listings or of Ranking, which share no row with the other parts. Three requests of
arbitrary handlers are beyond the time of a run. A list of two rows that may become three has a
second page when a row comes in, before the others or after them, and loses it when one goes; three places let rows tie,
stay apart and pass each other, and two walks that share a page of the cache with one writer are
what a stale page takes. Three categories give a
chain of two with one beside it, or a cycle. `EstimateNeverFlatters` needs a rival in both
categories of a job and one that the list leaves out, being past its deadline or not OPEN.

Deadlock is checked in the runs with a cron (`points`, `liveness`, `none_found`, `expiry`),
which can always start; in the others every request may have ended.

`NoOverdraft` also needs that boosts do not overlap between check and charge: two boosts that
do are both checked against the same points, and the balance goes negative.

## 5. Fairness

`WF(Continue(r))`: a handler that was started takes its next step, since database and HTTP
calls answer or throw. `WF(CronStep(c))`: `@nestjs/schedule` fires the cron every five hours
while the process is up, and its steps are calls that answer or throw. `CronFails` is one of
the outcomes of a step: fairness never forces a run to succeed at the embeddings or at
the queue, and a run has removed its rows before either. There is no fairness on the arrival
of requests, on ageing or on crashes; crashes are bounded, so the last process stays up.
In JobLifecycle only the cron is fair (`WF(CronStep(c))`): `JobsExpire` needs no handler to
go on, and in the counterexample of `reopen` the cron does run.
`BoostsExpire` holds although a run may skip rows, because a later run starts again at
offset 0. Accounts, Enterprises, Applications, ExpiryQueue and Portal state safety only and assume no
fairness: what they promise of the end of a handler is said of the handlers that did end.

## 6. Proofs

Every invariant and every action property that a passing run checks is also a theorem
`Spec => ...`, for every value of the constants that meets the assumptions of the modules. Three
things stay with TLC (section 6.8).

Each proof has the same frame. The property alone is seldom inductive, because it is silent about
what the handlers hold in memory between two `await`s. So there is an inductive invariant that says
what is in flight; a lemma says that `Init` implies it, one that a step keeps it (with one step of
the proof per action, or per group of actions that leave the same variables alone), and
the last step of the theorem combines them. Lemmas about the operators of the model (`UpdateOf`,
`Updated`, `Rank`, sums of points, programs in a row) are stated once and cited by name.

### 6.1 BoostPoints: `BoostPointsProofs`, `BoostRowsProofs`

| theorem | property | inductive invariant |
|---|---|---|
| `TypeCorrect` | `TypeOK` | itself |
| `PointsStayBounded` | `PointsBounded` | `BoundsInv` |
| `PointsStayExact`, `StatusStaysExact` | `PointsExact`, `StatusExact` | `ExactInv`, `QuotedIsOrder` |
| `TrailKept`, `ChargesHaveRows` | `PaperTrail`, `ChargedHasRow` | `TrailInv`, `RowsInv` |
| `QueuedStaysExpired` | `QueuedIsExpired` | `QueueInv` |
| `BoostsLastADay` | `FullDayOfBoost` | `QueueInv` |
| `FlagsMatchRows` | `FlagMatchesRow` | `FlagInv` |
| `LedgerImplemented` | `LedgerUnlessTorn` | `HandlersInv`: types, `PointsInv` (the two above), `TrailInv`, `RowsInv` |
| `NeverOverdrawn` | `NoOverdraft` | `OverdraftInv` |
| `PremiumNeedsPoints` | `PremiumHasPoints` | `PremiumInv` |

An UPDATE writes a value computed earlier. `BoundsInv` therefore adds that every value held in
memory (in `seen`, in an entity, in a computed UPDATE) was within the bounds when it was read;
`granted` and `spent` only grow, so it still is when it is written. `ExactInv` says that, until two
windows overlap, at most one request is in its window and what it holds agrees with the row as it
is now; for `StatusExact` that the status is the one decided last, by a review or by a payload that names one
(`decided`), and that a handler which sets none holds that one. `TrailInv` and `RowsInv` say where the credited purchases and the inserted boosts
are, and that a request updates the row once; `QueueInv` what a cron holds of rows it fetched: a
row that has gone cannot come back, as its boost has inserted already. `FlagInv` follows the two branches of
`Promise.all` and the two statements of the cron on a job where nothing contends. `OverdraftInv`: until boosts overlap
one boost is between its check and its charge, and the balance still covers it. `PremiumInv`: a handler
that bypasses the hook saves points and premium as they are in the row.

`LedgerImplemented` is the step simulation: `LedgerInit` maps the initial states, and every action of
BoostPoints is a step of `PointLedger` under the mapping `Ledger`, or a stutter, as long as no two
windows have overlapped.

### 6.2 JobLifecycle: `JobLifecycleProofs`

| theorem | property | inductive invariant |
|---|---|---|
| `TypeCorrect`, `ApplicationsStay` | `TypeOK`, `ApplicationsKeepJob` | `ReferencesInv` |
| `FlagsAgree`, `ExpiredArePast`, `ClosedStay` | `FlagAgrees`, `ExpiredIsPast`, `ClosedReopens` | `HeldInv`, `FoundInv` |
| `AppliedKept` | `AppliedKeepsRelations` | `AppliedInv` |
| `RelationsStayWhole` | `RelationsWhole` | `RelationsInv` |

`TypeOK` needs `ReferencesInv`: a cron or a boost that writes a job must find it, which the foreign
keys see to. `HeldInv` and `FoundInv` say that what a *fresh* reading says (one nobody
has outdated) still holds when it is written. `ClosedStay` is about single steps: it does not say that a closed
job stays closed until it is opened, which section 7 explains. `RelationsInv` adds the state the property is silent about: between
its removal and its save an update is alone on the job, there are no junction rows, and its plan is to insert
what it was asked for. `AppliedInv`: a handler past its check for applications has none on its job, or an
outdated reading.

### 6.3 Accounts and Enterprises: `EnterprisesProofs`

| theorem | property | inductive invariant |
|---|---|---|
| `TypeCorrect` | `TypeOK` of Enterprises, which includes that of Accounts | `AbsentInv`, `ShapeInv` |
| `ProfileIsFollowed` | `ProfileFollows` | itself, with these |
| `ExchangedOnce` | `OnceUnlessRaced` | `ClaimsInv`, `LinksInv` |
| `SessionsOfActive`, `RulingsHold` | `SessionsNeedActive`, `RulingHolds` | `AwareInv` |
| `ReviewedSpared` | `CancelSparesReviewed` | `CopyInv` |
| `RolesFollow` | `RolesFollowReview` | `CopyInv`, `RolesInv` |

`AbsentInv`: without an account there is nothing else, and no handler past a reading of it.
`ClaimsInv`: a token that is not raced has one claim, a reader or the one that used it up, and while it is still
there its claims overlap with whoever reads it next. `LinksInv`: a token is either a refresh token or a
reset link, and its maker has ended, so that no branch stores it again. `AwareInv` and `CopyInv`: a handler
that nobody made unaware (crossed) holds what the row still says. `RolesInv` is about reviews and payloads
at once: unless a review was cut short or overlapped, the role is there exactly if the *last review* approved
(`verdict`), whatever a payload did to the status, and the status is that of the last review until a
payload names one. `RulingsHold` lists the ways around a ruling as exceptions, `000000` among them; it says
that there are no others.

### 6.4 Applications and ExpiryQueue: `ExpiryQueueProofs`

| theorem | property | inductive invariant |
|---|---|---|
| `TypeCorrect` | `TypeOK` | `RowsOK`, `MemoryOK`, `ShapeInv` |
| `OneApplication` | `OneApplicationPerJob` | `KnownInv` |
| `NoticesMatch` | `NoticesMatchDecisions` | `DecidedInv` |
| `ExpiryIsTold` | `ExpiryTold` | `ToldInv` |

`KnownInv`: a request that may still insert knows of every application of its profile for its job, or
missed it. `DecidedInv`: whoever is still to tell an outcome will tell the status there is. `ToldInv`:
a message is about a job whose turn in its round has come, is at one place and with one worker, and is mailed
again only when it was put back. `NoticesMatch` has a hypothesis, `Asked \subseteq ApplyJobStatus`: decisions
ask for statuses an application can have. For the ACCEPTED that the payload documents the property is
false, which is the run `accepted`.

### 6.5 Catalog: `PortalProofs`

| theorem | property | inductive invariant |
|---|---|---|
| `MajorityFits` | `MajorityFitsIndustry` | `MajorityInv` |
| `WebsitesStayWhole` | `WebsitesOfOneRequest` | `WebsitesInv` |
| `RelationsStayKept` | `RelationsKept` | `RelationsInv` |

The specification is that of Portal, so a step of any other handler has to be covered; `ControlInv` says
which labels belong to which handlers, and a lemma per part that its steps leave the variables of
Catalog alone. `MajorityInv`: what passed the check, or was read by a handler that saves the whole profile, still holds
when it is stored, until the category is moved or removed. `WebsitesInv`: a replacement nobody overlapped is the only one, and after its DELETE there are no
rows but those it saves. `RelationsInv`: a relation that was loaded and not outrun is what it is now, up to
what the handler adds or takes away.

### 6.6 Listings and Ranking: `PortalReadsProofs`

| theorem | property | inductive invariant |
|---|---|---|
| `WalksAreComplete` | `WalkComplete` | `WalkInv` |
| `EstimatesDoNotFlatter` | `EstimateNeverFlatters` | `RankingInv` |

`WalkInv` follows the rank of a row, the number of rows up to its place: a steady row that was in no page so
far has a rank beyond the pages that were fetched, a row that was not put back and was in a page has one within
them, and a current page in the cache is one the query could answer now (`ShelfFact`). The theorem holds for every number of
rows and places and every size of page, which takes a few facts about `Cardinality` of the rows up to a place (a row alone at
its place is on exactly one page), and the arithmetic of `PageMetaDto`. The ranking needs that
the sets that are summed over are finite, which `RankingAssumption` says.

### 6.7 Caches: `CachesProofs`

| theorem | property | inductive invariant |
|---|---|---|
| `EntriesStaleForReasons` | `StaleOnlyIfRaced` | `PlaceInv`, `StoreInv`, `SweepInv`, `StaleInv` |
| `TypeCorrect` | `TypeOK` of Portal | all of those of Portal |

The argument is one of debts. A program that writes tables owes the entries that show them, but for those in
`Overlooked` and `Skipped`, and pays by a deletion or a new entry. `Settled` says of a program that
it pays whatever it owes and does so before any step at which it may leave; `ProgramsSettle` proves it for
each of the 48 programs of `Program`, from lemmas about programs in a row (`Joined`), since programs are built
with `\o` from shared pieces. `Owes(k, i)` is what handler `k` owes when it is at step `i`, and `StaleInv` says
that whatever a stale entry lacks is excused, or owed by a handler under way or by a deletion by prefix that has
begun. So adding a write to a handler without its deletion breaks `ProgramsSettle`, not only a state TLC happens to reach.

### 6.8 Assumptions, and what is only model-checked

The proofs use the assumptions named in the modules and no others. TLC evaluates each on its instances.

* Identifiers: kinds of requests are disjoint, `None`, `Old`, `Absent` and the like are no members of the sets of
  requests, rows, messages (`KindsAssumption`, `NamesAssumption`, `IdsAssumption`, `NoneAssumption`,
  `AbsentAssumption`, `RowsAssumption`, `MessagesAssumption`, `NoEnterpriseAssumption`, `HandlersAssumption`,
  `CatalogAssumption`). In the code these are UUIDs and `null`.
* Bounds: batches and pages are positive, as the code has them; bounds on crashes, failures, items and days are
  natural numbers (`BatchAssumption`, `CrashAssumption`, `BoundsAssumption`, `DaysAssumption`,
  `ListingsAssumption`). The theorems hold for any value of the bounds.
* Contents: amounts are integers, statuses are those of the enumerations of the code, an initial state is one
  the program can be in (`PointsAssumption`, `StatusAssumption`, `VerdictsAssumption`, `ReviewsAssumption`, `JobsAssumption`,
  `OldAssumption`, `TargetAssumption`, `RelationsAssumption`). Points of a boosted row that is ranked are positive
  (`RankingAssumption`): `EstimateNeverFlatters` says nothing of the boosts for no points that section 7 names.

What the theorems are about is limited as the properties are: those that speak of `torn`, `clashed`, `raced`,
`crossed`, `unaware`, `outrun` and so on say nothing of the histories in which handlers did overlap in that way.

Only model-checked:

* `BoostsExpire`, `RequestsEnd`, `JobsExpire`: liveness under fairness, outside the prover.
* The four violated runs, which show counterexamples.

## 7. What the code does that a reader may not expect

The four violated runs are disagreements between the code and what it says of itself. While
modelling, these came up as well; each is in the model as the code has it.

* Accounts: a verification code that is still alive sets a BLOCKED or INACTIVE account to ACTIVE, and
  so does `000000` when no code is stored; linking an identity saves a copy of the account and may
  bring an old status back. All are exceptions in `RulingHolds`.
* Enterprises: a review that works on an outdated copy may grant the role of an enterprise whose
  status went another way (`lapsed`). A status in the payload of `create`, `update(id)` or
  `updateRegisterEnterprise` takes effect without a review, and without the role.
* Queues: both processors take from `job-expired`, so the mail about an expired job may come from
  the processor of boosts, and nothing takes from `boostJob-expired`. A round that failed half-way
  marked its jobs already, so the rest is never told.
* Cache: `updateUser` stores a profile without status and industry; a re-read that failed leaves the
  roles of the token alone in the entry; the key of `getJobOfEnterprise` lacks
  `canGetAllStatusJob`; the cached total of jobs is not used; `create` of a job deletes the lists
  before it saves; `changeStatus` leaves the embedding; the removal of an enterprise deletes its jobs and
  leaves their lists, their total and their embeddings. All are in `Overlooked`, `Skipped` or the
  steps of the handlers, except the key, whose two values the model does not tell apart.
* Jobs: the cron turns closed jobs past their deadline EXPIRED, and an update opens an expired job, so
  that a closed job may be opened by an update in two steps. One candidate may have two views of one job, as `jobs_recently` has no unique key. The
  estimate of a rank counts the points of a job once per category it shares, and jobs past
  their deadline or no longer open.
* Websites: a replacement whose DELETE comes after its INSERTs may answer success with none left.
* Categories: two legal changes of parent close a cycle.
* Lists: several have no order, and names, dates and points tie, so that pages may repeat or miss
  rows; an update or a boost between two pages moves a row past the client; `filter`,
  `getJobOfEnterprise` and `findAll` of enterprises answer pages and totals that are up to a day old.
  `WalkComplete` says what is left.
  `findChildren` answers with a count of 0.
* Payments: a PREMIUM purchase writes 50 paid in `transactions` and 350 in `history_transactions`.
  `completeOrder` credits again when its URL is visited again, and `pointsUsed` may be 0 or
  negative although its documentation says at least 1. No property is about these: the first
  leaves nothing behind to compare with, the second is one missing decorator.

## 8. Not modelled

* The dashboard: counts, no state.
* Mail, images and uploads: I/O of other services. That such a call may throw is in the callers.
* Guards, decorators, DTOs, builders, configuration, migrations: declarations and plumbing.
* `create`, `update` and `remove` of a single website or address, as far as they are one statement
  without a check, and reads of a single row: they interleave with nothing.
* Redis: entries of candidates are read and deleted but never written; `deleteCache` empties all
  at an administrator's word.
* PayPal: creating, capturing and querying an order leave nothing in this program.
* `JobService.applyJob`: `POST /job-tools/:id/apply` calls it, but its query filters on `accountId`, which
  is no column of `applied_jobs`, so that it always fails and stores nothing.
* Push messages of Firebase; the contents of texts, mails and searches.
