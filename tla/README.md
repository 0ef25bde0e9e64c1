# Formal verification of the Personal Workbench

This directory models the core of the Personal Workbench (a Cloudflare Worker
over a D1 database and three Durable Objects) in TLA+, checks the models with
TLC and proves their main theorems with TLAPS. The reference is the code under
`src/src` (paths below are relative to it); every definition that models code
is mapped to its lines in `PROJECT.json`.

    tlc -workers 2 -config ReviewContended.cfg MCReviewPublication
    tlapm ReviewPublication_proofs.tla

## The system

One Worker serves HTTP requests and a five-minute cron. Requests do not share
memory: they meet only in D1 (single statements and atomic `batch` calls) and
in the Durable Objects, so *what interleaves is the awaits*. A request can stop
after any await (isolate eviction, a failed call, a lost reply) and clients
retry with operation numbers or versions. That is where the hard behaviour of
nearly every component lies.

| Component | State | Operations | Hard behaviour | Correct when |
|---|---|---|---|---|
| Review and publication (`publication/`) | submissions, publication_intents, reviews, review_decision_receipts, revisions, knowledge_items, notifications; Markdown in the KnowledgeBase DO | publish, reject, requestRevision, batchReview, recoverPending | two stores, several awaits, retries, concurrent reviewers, recovery of interrupted publications | one outcome per submission in every table; content before D1; answers true and stable; recovery finishes |
| Search index (`publication/repository.ts` processIndexJob) | jobs, search_chunks FTS rows, knowledge_items.search_status | claim, index, remove, fail, retry | leases expire under a running worker; trash, restore and rollback reset jobs | the index of an item holds its current revision, and nothing when trashed |
| Knowledge governance (`publication/` rollback, trash, restore, purge) | knowledge_items, revisions, tombstones, lifecycle receipts, DO content | rollback, trash, restore, purge | purge deletes from two stores; receipts written last | a live item has content; a purge is all or retried |
| Maintenance gate (`maintenance/`) | MaintenanceCoordinator permits, epoch, window; TrackedScope counters | acquire, complete, beginDrain, resume; run, waitUntil, settle | lost replies, late callbacks, late commands | DRAINED means quiet; no work crosses an epoch |
| Recovery listing (`publication/` recoverPending) | the order of intents and index jobs by updated_at | list, resume, process | a call takes only so many, and what fails keeps its place | what can end ends |
| Members and invitations (`members/`, `invitations/`) | members, invitations, password_registration_attempts, audit_log | identity login, link, registration, issue of a code, change of status | first logins race over two unique indices; the row and the code are two writes | one person is one member; a refusal says why; the audit tells every change |
| Password and sessions (`password/`, `identity/`) | members.password_*, auth_sessions | login, reset, change, provider login, logout, cleaning up | what was verified is replaced or disabled before it is used | the lock counts wrong passwords; no session begins for a disabled member |
| Tasks (`tasks/`) | tasks, task_status_notification_intents, tombstones, notifications | create, save, progress, tags, status, delete; delivery of notifications | saves from old pages, deliverers that die or overtake each other | no edit is lost; every change is notified |
| Inbox (`inbox/`) | inbox_items, tasks | capture, file, promote | a promotion writes two tables, under a limit | an item becomes one task |
| Chat (`chat/`) | conversations.active_turn_id, messages, chat_turn_requests | ask, cancel | a generation of seconds between claim and commit; lost replies | a question has one answer, and turns do not overlap |
| Agent session DO (`agent/`) | agent_session_turns, agent_session_messages | start, complete, terminate a turn | two requests share a turn | a turn has one answer, which is in the transcript |
| Submissions (`submissions/`, `duplicates/`) | submissions, source_versions, duplicate_candidates | create, resubmit; review, trash and purge from outside | idempotent creation, equal content, a purge of what others refer to | one submission per key, one original per content |
| Source reparse (`sources/reparse-*`) | source_reparse_jobs | reparse, correct, promote | several parsers share a job | what was reviewed stays |
| Environments and connectors (`environments/`) | connector_authority_heads, leases, receipts, ticket consumptions | reserve, connect, renew, consume, revoke | tickets of a generation consumed twice, late or after a revocation | a generation is one connection |
| Menus (`authorization/`) | menus, menu_operation_receipts | create, update, remove | two changes that are sound alone make a cycle together; a page that is out of date | navigation is a tree; only what was shown is removed |
| Collections (`spaces/`) | collections, admin_collection_creation_requests | create, move, archive, reactivate | the ancestors of a parent are rows the version does not cover | collections are trees; one per key |
| Projects, goals, calendar, focus, timeline, private notes, favorites, saved views, recent visits | one row each | CRUD under a version, or last write wins | lost updates | not modelled: the compare-and-set of `Tasks`, with less in it |
| Discussions and review comments | threads, replies | post, resolve | duplicate delivery | only their notifications, in `Tasks` |
| Assets (`assets/`) | assets, parse_jobs; originals and parsed Markdown in R2 | upload, process, processDue, cancel, retry, reclaimOrphans, submit | two stores without a transaction, lost replies, retries, a sweep that deletes | rows have their objects; one worker parses an asset; every job settles |
| Knowledge base DO (`knowledge/`) | note journal, files | write, search, commit content | concurrent RPCs | only its content, as the publication modules see it |
| Library, graph, backlinks, lexical search, analytics, tags, audit, studio, research, capture, AI services | rows, or none | queries; single statements | pagination, ranking | not modelled |
| Chunker, parser, pagination, permission bitmap | none | pure functions | boundaries in text | not modelled |
| Routes, app, http, worker entry | none | parse, authorise, dispatch | - | - |
| `frontend/`, `scripts/`, `tools/`, `design/`, `docs/`, `test/` | - | - | - | not modelled |

Interactions: routes call services, services call repositories (D1) and the
KnowledgeBase DO; publication writes notifications and index jobs; review
reads members, spaces, collections and tags as live guards inside its SQL; the
maintenance gate wraps every request. Nothing runs on its own except the
five-minute cron, which sweeps assets (`worker-entry.ts:97-109`); publication
recovery runs when an administrator calls it (`routes/admin-review.ts:76-92`).

## Modules

| Module | What it is |
|---|---|
| `ReviewOutcome` | abstract: a submission is decided once, an operation answered once with its outcome |
| `ReviewPublication` | the review protocol, one action per await whose outcome decides something |
| `KnowledgeIndex` | the jobs, leases and rows of the search index of one item |
| `KnowledgeLifecycle` | trash, restore, rollback and purge of one item over both stores, with their receipts |
| `AssetIngestion` | the assets of one owner: rows in D1, objects in R2, parse jobs |
| `AdmissionGate` | abstract: a gate that reopens only when empty |
| `Maintenance` | the coordinator and the tracked scopes |
| `RecoverySweep` | the listing of recovery, its limit, and what fails in front of it |
| `Requests` | calls of services answered in steps; every module below extends it |
| `Membership` | logins, registrations, invitation codes and the status of members |
| `PasswordAccess` | one account: failures, lock, password and sessions |
| `Tasks` | one task, its versions, and the notification of its changes of status |
| `Inbox` | one captured item, its filing and its promotion to a task |
| `ChatTurns` | the turns of one conversation with their receipts |
| `AgentSession` | the turns and the transcript of one agent session |
| `Submissions` | creation and resubmission under keys, equal content, and purges |
| `Reparse` | the job of one source version with its candidate and promotion |
| `Connectors` | runtimes, tickets and the lease of one environment |
| `Hierarchy` | rows that name a parent of their own table |
| `Menus` | the menus, their receipts and the comparison of the whole table |
| `Collections` | the collections of a Space, under versions and request keys |
| `*_proofs` | the inductive invariants and the theorems: one per publication, index, lifecycle, asset and maintenance module; `Work_proofs` of `Inbox`, `Reparse`, `Submissions`, `Tasks`, `ChatTurns` and `AgentSession`, `Governance_proofs` of `Menus`, `Collections`, `PasswordAccess`, `Membership` and `Connectors`, `Services_proofs` of their composition in `MCServices` |
| `MC*` | calls, small sets and symmetry for TLC; `MCRecovery` puts `KnowledgeIndex` and `RecoverySweep`, `MCServices` the modules of the services into one run each |

### ReviewPublication

A worker is an HTTP request or a recovery run with a program counter, its call,
the intent object it carries and its reply. The variables `status` ... `current`
are the D1 tables, `content` the Markdown in the Durable Object. `Lookup`,
`Validate` and then one action per read of `createOrReadIntent` (`ReadIntent`,
`ReadPending`, `ReadTarget`, `ReadItem`), `InsertIntent`, and the two reads after a
lost insert (`ReadBack`, `Explain`) are `publish`; `Resume` to `Record`, with
`MarkContentWritten` and `ReadMarked`, are `resumeIntent`; `FindReview`,
`ReadStatus`, `Rereview`, `Decide`, `DecideFailed`, `ReadGuard` and `ReadReview` are
`decide`; `Sweep` and `MarkFailedTerminal` are `recoverPending`. Others write
between any two of these, so an answer may be pieced together from reads of
different moments: a publisher that looked for an intent before another's was
inserted, and at the submission after that was published, is told
`submission_not_pending`, and `RefusalsAreExplained` allows it. Two kinds of reads
have no action: rows that never change (the source and the requested visibility of
a preview, a revision, a stored receipt), and `readSubmissionAuthority`, which only
fills in the details of an error. A publish form is one model
value: it stands for title, visibility, Space, Collection and tags, which the
code only compares and validates. A batch whose outcome is unknown is a
nondeterministic choice of where the worker continues. The Spaces, Collections,
administrators, parser and trash that the guards read change under review's
feet as environment actions, restricted to `Unsteady` in an instance.

### KnowledgeIndex

One knowledge item with its revisions; each revision has one job and the rows
it put into the index. `processIndexJob` is one action for each await:
`Claim`, `ReadJob` (the job, the revision and the item, which decide whether to
index or to remove: `Plan`), `ReadRows` (the row ids to delete), then `CommitIndex` or
`CommitRemoval`, both guarded by the lease (`Holds`), and `MarkFailure` when
something threw. A worker keeps what it read in its own record, so that every
change of the item between two awaits is seen late. `Publish`, `Rollback`,
`Trash` and `Restore` change the item in the batches of `finalize`, `rollback`
and `changeLifecycle`, with the requeueing that those batches contain.
`Expire` ends a lease under a worker that still runs. The text of a row is
abstracted to the revision it belongs to.

### KnowledgeLifecycle

A request has a call (its kind, its operation number or none, its target) and a
program counter. `Lookup` is the replay of a receipt, `ReadItem`/`ReadTarget`
the reads, `Commit`/`Batch` the guarded batch, `Confirm` the read that settles a
batch with no change, `AfterFailure` the one after a batch that threw,
`Index` the index job run inline, `Settle` and `Record` the receipt. A purge is
`Prepare`, `Plan`, one `Remove` per file in the Durable Object and `Finalize`.
`Persist` and `Publish` are the two halves of a publication as seen by the
item. `era` counts the trashings of the item: a purge is planned in one era and
may not finish in another.

### Maintenance

The coordinator's methods run in `transactionSync`, one action each. A scope is
one guarded invocation; `live` is a history variable, the work that really
runs, against which `pending` (the code's `#pending`) is judged.

### AssetIngestion

An upload is one POST with its idempotency key: `Begin` is the replay by key,
`Measure` the capacity, `Put` the original and `Insert` the batch of asset and
job; whatever throws after `Measure` leads to `Compensate`, which deletes the
object. A worker is any other request, or the cron sweep, at one asset:
`processRecord` is `Find`, `Claim`, `Parse`, `Store`, `MarkSucceeded` and, when
something threw, `Cleanup`, `MarkFailed`; `cancel` is `FindForCancel`, `Cancel`,
`Unstage`; `retry` is `FindForRetry`, `Reset`; one key of `reclaimOrphans` is
`Head`, `CheckReference`, `Delete`; the submit route is `FindForSubmit`,
`Submit`, `Pair`. A fault is a call that throws, before or after its effect, or
a process that dies. `doubtful` is a history variable: the assets about which a
reply was lost, or whose object was deleted after the look that allowed it had
gone stale. `OriginalKept` and `ResultKept` say that nothing else loses an object.

### RecoverySweep

`StartSweep` is the listing of unfinished intents, oldest first and cut at
`Limit`; `ResumeIntent`, `ResumeUnindexed` and `FailIntent` are the ways the
resumption of one ends, of which only the mark that content was written moves
the intent in the list; `ListJobs` and `TakeJob` spend what is left of the limit
on index jobs. The steps inside one resumption are in `ReviewPublication`, those
of one job in `KnowledgeIndex`.

### The services

`Requests` gives every call a record of its own: `at` is the statement it comes
to next and the other fields are what it has read. One action is one statement
or batch of D1, or one call of a Durable Object; a request that dies takes no
more steps, which needs no action, as nothing is assumed fair. A row that a
request inserts has the request's name, as the code draws a random id. What a
client shows (a version, a table, a list of descendants) is chosen when the
request begins and may be old when it arrives.

* `Membership`: `IdentityLogin` to `ReadCurrent` are `resolve` of
  `members/service.ts` with its recovery from each unique index. A login takes
  the email that the provider says this time (`EmailsOf`: the primary email of a
  GitHub account may change, a WeChat account has one made from its subject); a
  row found by its subject is neither compared with it nor updated
  (`members/service.ts:68-69`). `Register` to `CreateMember` are `register` and
  the batch of `insertMember`; `SetStatus` to `Converge` change a status with
  its audit; `Invite`, `FindOwned`, `DrawCode`, `ReadWinner` issue the code of a
  member.
* `PasswordAccess`: a record of a password is the request that stored it, since
  it is salted. `ReadForLogin`, `Verify`, `Fail` or `Clear`, `Stamp` and `Open`
  are a login; `ReadForReset`, `StoreReset` and `FindSession` to `RevokeOthers`
  the two ways to replace a password, the second asked with a cookie that a
  login set (`Cookies`), whose session may be gone; `CleanUp` the deletion of
  old sessions. `missed` is a history variable: the requests whose wrong
  passwords were counted since the last right or new one, against which
  `LockIsEarned` judges the count and the lock. A login is compared with the
  clock of the moment its row arrives, and a lock runs from that moment too.
  Logins that read the row before a lock may still guess after it; each is
  counted. A session has the rowid it was inserted under, the last thing by
  which `create` orders those it keeps (`Outlasts`).
* `Tasks`: each kind of write is the read that judges it, the guarded UPDATE and
  the reads after it. `ListPending`, `Permit`, `Notify`, `Mark` deliver the
  changes of status that the trigger of migration 0068 recorded.
* `Inbox`: `Capture` to `FindCaptured`, `File` to `UpdateItem`, and `PromoteItem`
  to `FindTarget`, of which `PromotionBatch` writes the task and the item.
* `ChatTurns`: `Claim` inserts the receipt, `StartTurn` takes the conversation,
  `Commit` is the batch of messages and receipt, of which the reply may be lost,
  `FailReceipt` and `FinishTurn` are the two ends.
* `AgentSession`: one action per RPC of the object, and the route that strings
  them together (`StartStream`, `EndOther`, `Restart`, `CompleteTurn`, `TerminateTurn`).
* `Submissions`: `FindPrior` to `CheckTarget` are a creation up to its batch,
  `FindDuplicate` to `FindLoser` what follows when equal content was there;
  `Decide`, `TrashItem`, `ToggleSpace` are other components, `PurgeItem` and
  `FinalizePurge` the purge with the foreign keys it meets.
* `Reparse`: `FindJob` to `FailJob` are one call that parses, `Correct` replaces
  the candidate, `PromoteJob` makes the submission.
* `Connectors`: `Reserve`, `Connect`, `Renew`, `Revoke` with the receipts that
  answer them again (`ReadReceipt`), `Consume` with its guards; `SignOut`,
  `ChangeGrant`, `DeleteEnvironment` and the clock change under them.
* `Menus`: every operation reads the whole table and judges its change of it
  (`Judge...`), and writes it (`Write...`) if the table is still what it read.
  `Sound` is what `buildMenuTree` accepts, `Below` what `collectSubtree` returns.
* `Collections`: `ReplayAddition`, `AddCollection`, `FindAddition` are a creation
  with its request key; `LookAtCollection` and `UpdateCollection` a change, whose
  statement looks for the new parent among the descendants.

### How the modules meet

The three publication modules share tables. Each takes the writes the others
make to what it reads as actions of its own: `Publish` of `KnowledgeIndex` and
of `KnowledgeLifecycle` is the batch `Finalize` of `ReviewPublication`, `Index`
of `KnowledgeLifecycle` ends as a whole run of `KnowledgeIndex` ends, and the
trash guard of `ReviewPublication` is flipped by `ToggleTrash`. They are not
composed into one state machine: the product has no property that one of them
does not already have, and is far too large to check. `Submit` of `AssetIngestion` is the
creation of the submission whose review `ReviewPublication` begins with, and
`Submissions` models it statement by statement.

The services share little: the status of a member, the tasks of a promotion, the
archiving of a Space. Each module takes these as changes that happen by
themselves at any time, which is more than the other module would do, so
`MCServices` runs one of them at a time (`part`) instead of their product.

## Runs

| Run | Instance | Question |
|---|---|---|
| `ReviewContended` | three requests, six colliding calls on one submission; target and administrator unstable | does the race leave one outcome, and can each refusal be explained? |
| `ReviewInterrupted` | two requests and a recovery run, one crash; parser and trash unstable | content first, answers true, promises kept, and recovery finishes |
| `IndexRows` | two revisions, two workers, three claims, four changes, one failure | does the index hold the current revision only, and nothing of a trashed item? |
| `RecoveryEnds` | two revisions, one worker, four claims, three changes, two failures; four intents, one hopeless and one with a blocked job, three taken up per call, one passing failure | does the job of a settled item end, and does repeated recovery reach everything? |
| `IndexLostRows` | as `IndexRows` (expected violation) | can what is marked indexed be found? |
| `LifecyclePurge` | two revisions, four requests, two operation numbers, one crash | is a purge whole, within the retention, and truthful in its reply? |
| `LifecycleActsTwice` | three requests, a trash retried after a restore (expected violation) | does an operation act once? |
| `AssetStores` | two uploads of one key, two workers, capacity one, two attempts, one reset, two faults | do rows keep their objects, has a job one parser, and does a queued job settle? |
| `MaintenanceDrain` | three scopes, two tasks, two windows, two epochs, two records | is DRAINED quiet, and does a drain end? |
| `Services` | three requests of one service, with the sets below | what does each service promise across its statements? |
| `TaskEditsLost` | as `Services`, tasks (expected violation) | does a save from an old page ever overwrite a newer edit? |
| `PurgeBlocked` | as `Services`, submissions (expected violation) | is a purge that is refused as changed refused for that? |

Bounds. Two requests are enough to race any pair of awaits; a third shows what
the loser of a race does to a bystander; the fourth request of `LifecyclePurge`
is the publication that races a purge of what was trashed and restored. One
crash leaves every possible intermediate state behind. Two revisions are the
least with a superseded one. Two attempts show both the retried and the terminal
failure of a job; the code's eight differ in number only. Two uploads of one key
race each other, and two faults lose a reply and then the worker that would have
repaired it; the code's three attempts differ from two in number only. Two
epochs are the least in which a command or a permit of a passed epoch is late,
and two records against three scopes reach the coordinator's capacity. Three
requests of a service are two that race and one that finds what they left, which
is also the least in which a retry meets both a winner and a bystander.
`Services` has two GitHub accounts that share an email, which one of them may
change for another, and a WeChat account, two codes, a lock after two failures
and one session per member (the code's five of each), one disabling of a member
anywhere between the steps of three logins, two keys and two equal
contents of three, two menus, one of them a system menu, with three keys and a
depth of two (the code's four), and two collections that swap places or go under
new ones. Connectors have two generations and four operations, which is a
reservation, a ticket, a renewal and one of each sent again, and two calls under
way together. Four intents with two that never end and three taken up per call
are the least in which something waits behind those that fail. Counters (claims,
changes, faults, crashes, epochs) are bounded in guards, never by a state
constraint, so a bound never hides a state, only further events.

Symmetry is used for safety only: over requests, revisions, workers, keys or codes that no
action tells apart.

## Fairness

`FairSpec` of `ReviewPublication` assumes that recovery keeps being run and that
each run lists every unfinished intent (strong fairness of `Sweep` per
submission: the listing is ordered by `updated_at` and limited, so this holds
while fewer than `limit` unfinished intents exist), and that a run goes on.
Nothing is assumed of requests: they may stop after any await.

`FairSpec` of `KnowledgeIndex` assumes that a claimable job is claimed again
(recovery and every later change of the item do), that a worker's own steps go
on and that a lease which nobody serves runs out. The run has one worker: with
several, leases can be taken from each other for ever, and the code's only
remedy is that a lease is far longer than a run.

`SweepFairness` assumes that an administrator calls recovery again and again and
that a call goes on (weak fairness of its steps), and nothing of the requests
that insert intents or come again. `SweepAssumption` says that fewer intents
and jobs fail for good than a call takes up: with as many, every later one
starves, which is listed under the hazards. The modules of the services have no
fairness: their requests may stop after every statement.

`FairSpec` of `AssetIngestion` assumes that a worker that has begun goes on,
that is, it takes its next step or fails, and that the sweep comes back to every
asset (strong fairness of `Find`, since another worker may be at the asset when
the cron runs). A worker may still die, as often as `MaxFaults` allows. A claim
has no lease, so a job whose worker died in `processing` stays there; `JobSettles`
says so (`Abandoned`) instead of assuming it away.

`FairSpec` of `Maintenance` assumes that tracked promises settle, that bodies
are closed and that replies are delivered, not that they report success. A
permit whose release was reported lost stays active by design, so
`DrainCompletes` speaks of behaviours in which every outcome is certain.

## Findings

* `IndexLostRows`: `processIndexJob` decides from the status of the *item* that
  all rows of the item go (`publication/repository.ts:1107`), and the batch is
  guarded by the lease of the job of its own revision only. A worker on the job
  of a superseded revision that read the item as trashed still deletes the rows
  after the item was restored and its current revision indexed. The item says
  `indexed` and is not found until something requeues it. As long as nothing is
  restored, an item that says so is found (`LostOnlyByRestore`).
* `LifecycleActsTwice`: a trash that died before its receipt trashes the item
  again when retried after a restore.
* `TaskEditsLost`: a change of status writes the clock as the version of a task
  (`tasks/repository.ts:163`), where every other write adds one to what it read. The
  version of an older page can come back, and a save from that page overwrites
  the edit in between. The theorem `OnlyTheseRewind` finds one other write that may
  do this, which three requests do not suffice to show: a change of the progress
  that names no version, which writes one more than a version it read some time ago
  (`tasks/repository.ts:188-193`). Without these two no edit is lost
  (`EditsSurviveGrowth`).
* `PurgeBlocked`: the batch of a purge deletes a source version that a rejected
  duplicate, a reparse job or a studio artifact may refer to
  (`publication/repository.ts:932`). It fails on every retry, after the
  Markdown was removed, and is answered as if the item had changed. Of what
  `Submissions` keeps only a rejected duplicate does this (`RefusedIsHeld`).

The others have no run of their own; the property that each breaks is stated in
its module where one is named.

* `CommittedDecisionIsReplayed`: the receipt of a publication is written after
  the publication committed. A request that dies in between and is retried after
  its target was archived is refused as `target_invalid`, although the decision
  it asks about is committed.
* `PairedBothWays`: the asset is linked to its submission by an UPDATE of its own
  after the batch that creates the submission (`submissions/repository.ts:310`).
  A request that dies in between leaves half a pair, which a replay does not
  repair.
* `DuplicateIsAnother`: a creation that is sent again after a reviewer rejected
  it is answered as a duplicate of itself (`submissions/repository.ts:206`).
* A resubmission that a review or an archived Space overtakes fails as an internal
  error: the guard at the end of its batch throws first
  (`submissions/repository.ts:376`).
* `AnswerShownIsStored`, in two ways: of two requests that share a turn of an agent
  session the second streams an answer that no transcript has
  (`agent/session-do.ts:211`), and a request can answer under the question of
  another (`routes/agent.ts:213`).
* `ReceiptNamesAMenu`: the removal of a menu with its children deletes the receipt
  of its own creation only (`authorization/menus-repository.ts:229`), so a child
  that is created again under its key is answered with the row that was removed.

* `OnePersonOneMember` says what holds although the email of an account may change.
  What does not: an account whose email changed is admitted by its subject as the
  member with the old email, although another member has the new one, and it is
  refused, or becomes a second member, after another account with the old email was
  linked over its row (`members/service.ts:68-69`).

`PROJECT.json` quotes the lines that the runs' findings contradict.

## Proved

Each proof shows that an invariant `Inv` is inductive, concludes
`Spec => []Inv` and derives the properties from it. Assumptions are the named
`ASSUME`s of the modules: that model values differ, bounds are natural numbers
and calls are well formed. Sets of requests, submissions, revisions and scopes
are arbitrary, and finite where a number counts their members.

* `ReviewPublication_proofs`: `Inv == TypeOK /\ TablesInv /\ WorkersInv` says
  what each table says of the others, and what a worker at each program counter
  may rely on although others acted since it read. `OneOutcome` alone is not
  inductive: the publication batch is guarded by the intent's state, so one
  needs that a `content_written` intent has content, that a worker carrying an
  intent carries one that was inserted and whose stable fields never change,
  and that receipts only hold committed answers. From it follow type
  correctness, `OneOutcome`, `ContentBeforeRevision`, `AnswersAreTrue`,
  `SameOperationSameAnswer`, `DecisionsAreFinal` and `KeepsPromise`, the
  refinement of `ReviewOutcome`. `RefusalsAreExplained` needs two facts more:
  that an intent names the request that inserted it, which is past its looks by then
  (`OwnIntentInv`), and that what kept the batch of a decision from writing is still
  there at each of the reads that explain it (`ReasonInv`).
* `KnowledgeIndex_proofs`: `OnlyCurrentIsFound` needs to know what the holder of
  a lease may rely on (`HolderInv`): while the job of the current revision is
  leased to a worker, no other change of the item happened since that worker
  read it, because every such change takes the lease away, so the rows it read
  are the rows there are. `TrashedIsNotFound`, `IndexedStatusIsCurrent` and
  `LeaseMatchesItem` follow too. `LostOnlyByRestore` bounds the finding of
  `IndexLostRows`: in a behaviour without `Restore` an item that is not in the trash was
  never there, so whoever may still remove rows found those of its own revision only
  (`FoundInv`), and `IndexedIsFound` holds.
* `KnowledgeLifecycle_proofs`: a purge must not have been planned in an earlier
  life of the item (`PlanInv`, by `era`), and a worker about to answer from a
  receipt carries the one that is stored (`ReplayInv`). From it follow
  `PurgeIsWhole`, `SameOperationSameAnswer` and `PurgeRespectsRetention`. For
  `PurgeTellsWhatItDestroyed` one counts who may claim the item that is gone
  (`PurgeInv`): the requests that claim to have destroyed it share one operation
  with each other and with the one receipt that says so (`ClaimInv`), and what
  is told of a purge is nothing or all that was published, of an item that is
  gone (`ToldInv`).
* `AssetIngestion_proofs`: `OneParserAtATime`, `OriginalKept` and `ResultKept`
  are proved together, as each rests on the others. A worker that parses knows
  its job to be in processing, or to have succeeded in a reply that was lost
  (`WorkOK`); claims, resets and cancellations touch neither state, so nobody
  else works on the asset and nobody removes what it stored. That the original
  of an upload under way is safe from the sweep of orphans needs that whatever
  is older than the grace period belongs to an upload that is over
  (`UploadOK`), and `SameKeySameAsset` that a key has one asset and that an
  answered asset which was cancelled never comes back (`AnswerOK`).
* `Maintenance_proofs`: the counterpart for the gate, including `KeepsGate`, the
  refinement of `AdmissionGate`.
* `Work_proofs`: `OneTaskPerItem` needs that an item remembers that it was
  promoted, and by whom for as long as the task is there, and that a promotion
  is told only of the task of the one that won (`InboxInv`); `ReviewedTextStays`
  needs what a call has read of the job at each of its steps, since whether its
  claim matched is not looked at (`ReparseInv`). `SameKeySameSubmission` needs
  that a key names one submission and that the submission, rejection or
  candidate a request carries stays what it was when it was found; `OneOriginal`
  needs besides that originals and what was published were submitted, as a purge
  takes a source version and leaves the submission (`SubmissionsInv`). For
  `ChangesAreNotified` a change that was written is pending, notified, or among
  what its own request has yet to deliver, until the task is deleted
  (`TasksInv`); that versions, which a change of status takes from the clock,
  stay numbers of their type rests on a bound by the clock and the number of
  requests that wrote. Two findings get their boundary. `EditsSurvive` holds
  where no write leaves the task an older version (`EditsSurviveGrowth`): the
  version a save names is then not above that of the task, and if it is that
  one, the details are those of the page (`Shown`); and every write but two does
  leave a later one (`OnlyTheseRewind`), as a request that names a version
  writes a greater one (`Ahead`). A purge that is refused with its item in the
  trash is of the original of a rejected duplicate (`RefusedIsHeld`), so
  `PurgeRefusalIsTrue` holds where none is rejected (`RefusalIsTrueUnheld`). For
  `ReceiptMatchesMessage`, a request that works under a key has the pending
  receipt of it, and a message is stored once and with its receipt (`ChatInv`);
  `TurnsDoNotOverlap` follows from the same invariant. For `OneAnswerPerTurn`,
  what the transcript has of a turn in each of its states (`AgentInv`).
* `Governance_proofs`: a menu change that is written was judged of the table it is
  written to, since that is its condition (`MenuInv`), so `NavigationIsATree` and
  `OnlyShownIsRemoved` rest on what `Sound` says of the table with the change,
  and, for removals, on the tree without a row and all below it (`RestIsSound`).
  For `CollectionsFormTrees` a set of rows that all have their parents in it,
  after a move, loses the rows below the moved one and was such a set before
  (`MovingKeepsTrees`); `SameKeySameCollection` needs that rows and receipts stay.
  `LockIsEarned` needs that the count is the number of wrong passwords in a row,
  each of another request that was told and moves no more, and that the lock is
  the one of the last of them (`LockFollows`, `LockIsThatOfTheLast`): the count is
  an increment inside its statement, so requests that were verifying meanwhile
  lose none. `NoSessionForDisabled` follows with it (`AccessInv`). `FewSessions`,
  at most `MaxSessions` of them after every step, needs that rowids differ, so
  that the order in which sessions are kept is total and has a least element to
  drop (`SessionsInv`). `OnePersonOneMember` and `TrailIsTrue` need that rows keep
  their emails, that no two rows share an email or a subject, that the identity of
  a row has come with its email, which stays so (`CameStays`), and that a login
  goes on with a member that has an email its identity came with
  (`MembershipInv`). `ConflictIsExplained` speaks of the look that decides on a
  conflict and not of the answer, because the proof showed that the answer may be
  late: between the look and the answer an administrator can link the member back
  to the login's own subject. `OneConnection` needs that receipts stay, that a
  generation has one that connects it and none is ahead of the reservation, and
  that the ticket of that one was consumed before any other of its generation
  (`ConnectorsInv`).

* `Services_proofs`: a behaviour of `MCServices` is one of the service it chose at
  the start (`ServicesAreApart`), so each theorem about a service holds there, and
  with the type invariants above `TypeOK` follows (`ServicesTypes`).

Proved, and not a property of any run: `UncertainWorkHoldsPermit`, `TurnsDoNotOverlap`,
`SameKeySameCollection`, `DecisionsAreFinal`, `PurgeRespectsRetention`,
`IndexedStatusIsCurrent`, `LeaseMatchesItem`, `FewSessions`, `OnlyTheseRewind`,
`RefusedIsHeld`, `ServicesAreApart` and the type invariants.

Every safety property that a passing run checks is a theorem, and so is every
refinement. Only model-checked: liveness (`RecoveryFinishes`, `RecoveryReachesAll`,
`JobEnds`, `JobSettles`, `DrainCompletes`), which is out of the prover's reach. Of the
four properties that the code violates, `OperationActsOnce` has no theorem on where
it would hold: requests that die are not the only ones that break it.

## Not modelled

Everything marked so in `PROJECT.json`, with the reason. By far the largest part
of the repository's lines is not of the kind a model checker reaches: the React
client, its texts and its styles (more than half of them), the extraction of
text from file formats, the chunker and the parser, whose state is the text,
read-only queries with their ranking, HTTP parsing and dispatch, prompts, reports
and drills that change nothing. The map therefore covers a small share of all
lines, and most of those that write to a store in more than one statement.

What writes a store and is left out writes one row in one guarded statement:
projects, goals, calendar, focus and private notes under a version as in
`Tasks`, favorites, saved views and tags by the last write, roles under the mask
they were shown, Spaces under their version. The receipts of administrators'
operations are written after the act, as those of publication are.

Inside the modelled parts: pagination of listings, wording of replies, audit rows
where no property is about them (they are written in the batches they describe),
`batchReview`, which calls the modelled operations one after another, the links,
subtasks and dependencies of tasks, tool calls of an agent session, signatures
of connector tickets, and the paths and labels of menus, which decide nothing
about the tree.
