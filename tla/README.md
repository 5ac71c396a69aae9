# Firelancer: a verification project

Firelancer is a platform for freelancing marketplaces: a NestJS server over
TypeORM and PostgreSQL, with worker processes for background jobs. This
directory holds TLA+ models of the parts of `src/packages/core` in which
processes, requests and transactions meet, TLC configurations that check them
on small instances, and TLAPS proofs of what matters most. The repository has
no tests for the core package, so the reference is the code, its comments and
its doc blocks.

## 1. Inventory

Paths are relative to `src/packages/core/src`.

| Component | State it keeps | Operations | What is hard about it |
|---|---|---|---|
| Job queue (`job-queue/`, `plugin/default-job-queue-plugin/`) | rows of `job_record`; per worker the list `activeJobs`, the flag `running`, the `Job` objects | add, next, update, cancel, remove, start, stop; the polling loop | several worker processes, crashes, shutdown while a call is awaited, whole copies written back, calls that are not awaited |
| In-memory job queue | two maps in the server process | the same | the same loop over shared objects instead of copies |
| Job buffers | rows of `job_record_buffer`, or a map | collect, flush | read and delete without a transaction; crash between delete and add |
| Job posts (`service/services/job-post.service.ts`, the state machine and its default process) | one row per post, its join rows, its dates | createDraft, editDraft, edit, deleteDraft, requestPublishDraft, publish, close | each request loads, checks, awaits and saves the whole entity; no version, no lock |
| Balance ledger (`balance.service.ts`) | rows linked by `prevBalance` and `prevSettledAt` | create, trySettleBalance | read-then-write of the latest entry; entries that become eligible later |
| Transactions (`connection/`) | the query runner in the request context | begin, commit, rollback, nested savepoints, retries | context copies, events that must wait for the commit |
| Event bus (`event-bus/event-bus.ts`) | subscriptions, ordered blocking handlers | publish, ofType, registerBlockingEventHandler | delivery after commit, errors of handlers, order of handlers |
| Sessions (`session.service.ts`, `auth.service.ts`) | rows of `session`, session cache | create, get, delete by user, log in, log out | database and cache are written one after the other; timeouts of 50 ms; role changes |
| Caches (`cache/`, `default-cache-plugin`, `common/ttl-cache.ts`) | entries with expiry, tags | get, set, delete, invalidateTags | eviction, stale tags, get-compute-set against invalidation |
| AsyncQueue | a counter and a list per label | push | the counter across awaits |
| Accounts (`user.service.ts`, `customer.service.ts`) | users, authentication methods, tokens | register, verify, reset, change address | tokens looked up and cleared by separate statements; uniqueness checked before insert |
| Administrators and roles | rows of administrators, users and roles; `superadminCredentials` | start of a process, create, update, assign role, delete | deletion is soft; the start of a process is no transaction; the last superadmin |
| Collections | a tree of rows with positions; links to job posts | create, move, delete, apply filters (as a job) | concurrent moves, position numbers, traversal of the tree |
| Assets | rows and files | create, update, delete | files are outside the transaction |
| Asset server (`packages/asset-server-plugin`) | a directory with the files and the images made of them | upload, delete, serve, transform and keep | one name for what is asked, for what is made and for what is kept |
| Facets, history, search, list queries, translations, id codec, API layer, import, plugins for mail and Google, admin UI, CLI | mostly stateless | | I/O and conversions |

How they interact. A controller method runs in one database transaction
(`@Transaction()`, `TransactionWrapper`), calls a service, and the service
publishes events. The event bus holds an event back until the transaction has
committed and hands it to subscribers; some of them add jobs. A job is a row of
`job_record`. Every worker process runs one loop per queue that takes the
oldest due row, executes the process function and writes the result back. The
session cache and the other caches sit in front of the database and are
invalidated by services and entity subscribers.

What makes each component correct:

* Job queue: one worker at a time holds a job; an outcome is final; the
  attempts are counted; no job is lost except where a process died with it;
  without faults every job is settled; shutdown does not abandon jobs.
* Job posts: the state follows the process; the dates agree with the state; a
  post is complete when it is submitted, and loses no more than its category then; nothing is visible without review; terminal
  states are terminal.
* Balance ledger: as long as settlements do not overlap, the latest balance is the
  sum of all settled amounts. (It is one of all customers:
  the code asks for the entries of `entry.customer`, which is not loaded.)
* Transactions and events: work is committed as a whole if its call resolves and
  not at all if it rejects; an event is seen only after its transaction, and not
  lost when that is kept; the connection is given back clean.
* Buffers: what a buffered job asked for is done.
* Sessions: neither a deleted session nor old permissions are served for longer
  than the time to live; a session in use does not expire.
* Caches: what is cached agrees with the data, or is about to be invalidated.
* Collections: every walk up the tree ends; a collection holds the job posts that
  pass its own filters and those it inherits.
* Assets: every row has its files; no file belongs to two rows.
* Asset server: what a request gets is what the documentation says it asked for.
* Accounts: an address is set only by who was sent a token there; a verified user
  has proven an address; a token that was used does not come back.
* Administrators: somebody can always administer.
* Blocking event handlers: they run in the order they ask for.

`PROJECT.json` lists the components with their status, and the hazards: for
each the line where it bites and the properties that would notice. Where the code
has no guard and nothing in the repository says what should happen, a hazard
has a note in place of a property, or beside one that stops short of it.

## 2. Plan

Done:

1. `JobQueue`, with the abstract specification `JobLifecycle` that it
   implements, and `JobQueueProofs`.
2. `JobPostLifecycle`, with the abstract specification `JobPostProcess`, and
   `JobPostProofs`.
3. `Transactions`, with `TransactionProofs`.
4. What stands on a strategy of the configuration: `InMemoryJobQueue`,
   `JobBuffers`, `SessionCache`, `AssetServer`, checked in `MCStrategies`.
5. The services: `BalanceLedger`, `Accounts`, `Collections`, `Assets`, `Caches`,
   `BlockingHandlers`, `Administrators`, checked in `MCServices`.
6. Proofs about 4 and 5: `InMemoryProofs`, `StrategyProofs`, `HandlerProofs`, `ServiceProofs`.
7. `JobQueueRefinement`: `JobQueue` implements `JobLifecycle`; its bounds on
   attempts. The bound on active jobs is in `JobQueueProofs`.
8. The in-memory strategy implements `JobLifecycle` for jobs that nobody cancels.
9. `JobPostLifecycle` implements `JobPostProcess`: overlapping requests are served as if
   one after the other, until one saves a post that was overtaken.
10. The composed specifications `MCStrategies` and `MCServices` behave, for each of their
    components, as that component by itself; so every theorem about it holds of them.

Next, in this order:

11. The events of a job post transition: `JobPostLifecycle` with the delivery of
   `Transactions`.
12. Positions of collections, registration and external authentication of
    customers, deletion of roles.
13. Pure algorithms in one module with a reference definition each:
    `moveToIndex`, `mergeTransitionDefinitions` and
    `validateTransitionDefinition`, `TtlCache` eviction.

## 3. JobQueue

`JobQueue.tla` models one queue name of `SqlJobQueueStrategy` and the
`ActiveQueue`s of the worker processes that poll it.

| TLA+ | Code |
|---|---|
| `rec[j]` | the row of `job_record`: state, attempts, whether `settledAt` is set |
| `cooling` | rows whose `updatedAt` is more recent than the backoff delay |
| `slot[w][s]` | a `Job` object of worker `w`: claimed (returned by `next()`), in `activeJobs`, executing, finishing |
| `loop[w]`, `i[w]` | where `runNextJobs` is, and its loop counter |
| `proc[w]` | the process: off, up, draining (`stop()` polls `activeJobs`), grace (the last second), stopped |
| `wire` | progress updates that were sent and not awaited |
| `cancels` | `cancelJob` calls between `findOne` and `update` |
| `runs` | history: executions of a job, used by properties only |
| `Claim`, `Push`, `StartProcess` | `next()`; `activeJobs.push`; the first `update()` and the call of the process function |
| `Finish`, `OnFailOrComplete` | the `race` of process and stop signal; the last `update()` and `removeJobFromActive` |
| `NextFails`, `StartFails`, `FinalUpdateFails` | a database call that rejects |
| `StartQueue`, `StopQueue`, `Drained`, `StopSignal`, `Stopped`, `ProcessEnds` | start, `stop()` and its three ways on, the end or the crash of the process |

Every database statement or transaction is one step, and so is every stretch of
JavaScript between two awaits. The copy a worker holds is the centre of the
model: `update()` writes all of it back, `WHERE settledAt IS NULL`.

Abstractions. The backoff delay is a set of rows that are still inside it. All
jobs have the same number of retries and there is one queue name. `SELECT ... FOR
UPDATE` with `LIMIT 1` is taken as one step that picks the oldest due row. The
stop signal may come at any time after `stop()`, as with any
`gracefulShutdownTimeout`. A process function that was told to stop ends, or the
process ends under it; that it may go on in the background until then, and that
a job cancelled between claim and first update is still executed, is not
represented. Creating queues and registering process functions
(`JobQueueService`) happen before Init.

`JobLifecycle.tla` is the abstract specification: a job waits, is taken by one
owner, is released to wait again or settled, is removed; where faults are
allowed it may get stranded. `ImplementsLifecycle` checks that every step of
`JobQueue` is one of its steps or none, with `status` and `owner` computed from
rows and copies. "Stranded" is a fact of the code and not of the model: `next()`
selects `PENDING` and `RETRYING` rows only, so a row left `RUNNING` is never
looked at again. The same is true of the place in `activeJobs` that is lost when
`update()` rejects after a job has ended. `JobQueue` has both, the safety properties
hold with them, and no property says that they do not happen: the code lets them,
and no doc denies it.

### Runs

| Run | Instance | Shows |
|---|---|---|
| `jobqueue_faults` | one job, two workers with one place each, one retry, every fault, one progress write in flight, one cancellation at a time | one holder, the inductive invariant, final outcomes, exact numbers of attempts, refinement of `JobLifecycle` |
| `jobqueue_live` | three jobs, one worker with two places, one retry, no faults, fair | never more than two active, no orphaned `RUNNING` row, every job settles |
| `jobqueue_shutdown_race` | one job, one worker, graceful stop | violation: the worker stops while its job is executing |
| `jobqueue_sqlite_next` | one job, the SQLite branch | violation: `next()` marks a job and returns nothing |
| `jobqueue_late_progress` | one job, one worker, progress writes that are overtaken, fair | violation: a failed job is not retried |

Bounds. Two workers and one job meet in every way two claims can meet: claims,
copies and updates concern one row, and jobs share nothing but the order in
which they are taken and the places of a worker, which the second run covers
with more jobs than places. One retry gives the first, the middle and the last
attempt of the code two values; a stopped worker may start again, so there is no
bound on restarts. `MaxInFlight` and `MaxCancels` cap the calls in flight: each
adds a writer with a copy of its own, and one stale writer against two workers
already produces every finding above.

Fairness. A live process runs its timers and continuations (`LoopStep`,
`Finish`, `OnFailOrComplete`), time passes (`BackoffElapses`), the database
answers what it was sent (`ProgressWrite`), and a process that is off is started
(`StartQueue`). Nothing is assumed of clients. It is justified because the loop
rearms its timer after every round, and because process functions are required
to return; a function that never returns would keep its place for ever.

### Findings

* `ShutdownWaitsForJobs`: `stop()` decides by `activeJobs`, and a job that `next()`
  has marked `RUNNING` but not yet returned is not in it.
* `NextHandsOverTheJob`: with a SQLite driver the result of the claim is dropped.
* `FailedJobIsRetried`: a progress update is not awaited; executed after the update
  that ends an attempt it turns `RETRYING` back into `RUNNING`.

### Proofs

`JobQueueProofs.tla` proves, for every set of jobs and workers, every
concurrency, number of retries and combination of faults:

* `Invariance`: `Spec => []IInv`,
* `TypeCorrect`, `MutualExclusion` (`OneHolder`): conjuncts of `IInv`,
* `OutcomeIsFinal`: `Spec => SettledIsFinal`.

`OneHolder` is not inductive: a second holder appears when a row that somebody
holds is waiting. Hence `HeldRowNotWaiting`. That in turn survives the writes of
others only if their copies are harmless: a copy is the worker's own, in state
`RUNNING`, or it is a copy of a row that was settled behind its back, which the
condition `settledAt IS NULL` turns into a write of nothing
(`CopiesAreOwnOrStale`, `WritesAreOwnOrStale`, `SettledRowsDoNotWait`). The
strange case is `fail()` of a cancelled copy with retries left: it writes
`RETRYING` with `settledAt` set, and only the row condition keeps it out.
The proof of the step has one part per action; steps that change one place
go through the lemmas `PlaceStep`, `HeldRowStep` and `UpdateRow`, and
`HarmlessStep` covers what they have in common. Assumptions used: jobs are positive
numbers (`JobsAssumption`) and `Concurrency` and `Retries` are numbers.

* `ConcurrencyKept` (`ActiveWithinConcurrency`). `runNextJobs` counts the active
  jobs once and then calls `next()` several times, while jobs end. `PlacesCounted`
  says that during a round no more jobs execute than its counter tells, and that
  one job at most is on the way between `next()` and the list.

`JobQueueRefinement.tla` goes on from there:

* `QueueInvariance`: `QueueInv` is `IInv` with what the refinement needs: a row with an
  outcome is settled, a worker that is done with a job does not write `RUNNING`
  back, and stopped processes and late writes have a fault as their cause.
* `QueueImplementsLifecycle` (`Spec => ImplementsLifecycle`): each action is one of the
  steps of `JobLifecycle` or leaves status and owner of every job alone. Most of
  it is that a write by a copy that is no longer current changes nothing the
  abstract job has, and that the owner computed from the copies is unique
  (`OwnerFacts`, from `OneHolder`). It holds whatever faults are enabled, because
  `JobLifecycle` may strand jobs then.
* `RunningJobsAreHeld`: without faults and outside of SQLite (`NobodyStrands`) it may
  not, and so no `RUNNING` row is without a worker. This is derived from the abstract
  specification, in which `Strand` is the only step that leads there.
* `AttemptsAreCounted` (`AttemptsCounted`). The row does not count the attempts
  while the job runs: a late progress write may put old numbers there. So `RowCounts` speaks
  of waiting rows and `CopyCounts` of the copies in between.

It uses that no worker is called `"nobody"` (`WorkersAssumption`). Only model-checked: the
three violations, and all liveness, which the prover cannot do.

## 4. JobPostLifecycle

`JobPostLifecycle.tla` models one job post and any number of overlapping
requests, each in its own transaction at READ COMMITTED (the default of
PostgreSQL; no isolation level is configured).

| TLA+ | Code |
|---|---|
| `post` | the committed row and its join rows with `facet_value` |
| `dirty`, `holder` | the row as a transaction has written it and not committed |
| `copy[r]`, `base[r]` | the entity of request `r`; the row as the SELECT of its `save()` saw it |
| `at[r]`, `op[r]` | where the request is, and which one it is |
| `fresh`, `stale`, `done` | history, used by properties and by the bound only |
| `Create`, `Edit`, `Transition` | `createDraft`; `editDraft` and `edit`; `deleteDraft`, `requestPublishDraft`, `publish`, `close` up to the first save |
| `OnTransitionStart` | `checkRequiredFieldsDefined` |
| `SaveSelect`, `SaveWrite` | the two halves of TypeORM's `save()` (external) |
| `Finalize` | `onTransitionEnd`, which stamps the date; the second save follows |
| `Commit`, `Fails` | the two ends of `executeInTransaction` |

A post is its state, the set of its dates that are not null, whether its
nullable columns have values, and its facet values. `save()` writes the columns in
which the entity differs from what its SELECT saw (`Overwrite`), waits for the
transaction that holds the row, and fails when a join row it inserts is already
there. `REJECTED` is in the process but no request asks for it. Assets, events,
lists, translations and processes that plugins configure are left out.

`JobPostProcess.tla` is the abstract specification: a request does all it is for to
the post that is there, in one step and while the state of the post allows it, or
does nothing. In the map to it (`Atomic`) the committed row is the post, and
`overtaken`, after which nothing is promised any more, is `stale # 0`: an entity was
committed although another request had committed since it was loaded.
`ServedOneByOne` is this specification as a property of `JobPostLifecycle`.

The input of an edit says nothing of a facet, `{}`, or gives its new values, `{ids}`
(`CategoryInputs`, `SkillInputs`). `requiredCategoryId` may also be 0, empty or null: the
schema coerces these to 0, `updateJobPostCategory` turns that into null, and
`updateFacetValuesForType` then removes the category (`{{}}`). Skills have a least
number. `editDraft` is followed by the check of the required fields when the
draft is requested; `edit` of a published post is followed by none. So a post that is
`REQUESTED` is complete, and an `OPEN` or `CLOSED` one that was never edited; one that
was keeps all its fields but, maybe, the category (`SubmittedIsComplete`).

The run `jobpost_requests` (799 143 states) has two requests at a time, of any kind and any
number of times, over two categories and one skill; a post may have one of each.
`MaxStale = 1` bounds how often an entity that was overtaken by another commit is
itself committed. Two requests are enough because
what goes wrong is one overtaken entity, and the third would overtake it the same
way. Skills are replaced by the code that replaces the category, so that two values of one
facet show what an overlap does to a list; the proofs have any number of either. `CHECK_DEADLOCK FALSE`, because a deleted post
accepts no request.

* `DatesAgreeWithState`, `SubmittedIsComplete` and
  `FacetValuesWithinLimits` hold as long as no overtaken entity was committed
  (`stale = 0`). They say that statement-level interleaving, failures between the
  two saves of a transition and rollbacks never break the process: lost
  updates are the only way.
* `ServedOneByOne`, under the same condition: no mixture of two requests, nor half of one, is ever seen. The
  two statements of each `save()`, the two saves of a transition and the checks
  between them come out as one atomic request on the post of the moment of the commit. It implies `FollowsProcess` (the state
  changes along the documented transitions only), which is stated for a reader, and
  proved, but not checked by itself. In the abstract edit, too, the category may be set, left
  or removed.
* `VisibleOnlyAfterReview` holds whatever overlaps.
* `jobpost_terminal` shows the lost update itself: an edit loaded before a
  post was closed or deleted takes it back (`TerminalStatesAreFinal`, the doc
  comment of `job-post-state.ts`).

### Proofs

`JobPostProofs.tla`, for any number of overlapping requests, any facet values and any bound
`MaxStale`:

* `TypeCorrect` and `ReviewedBeforeVisible`
  (`Spec => []VisibleOnlyAfterReview`). The state of the row says nothing of the
  entities that requests still hold, nor of the row that a transaction has written
  and not committed. `ReviewInv` says of all three that their state is justified by
  the reviews committed so far and, for a request under way, by the request itself.
  `save()` keeps it because the state it writes is either the entity's or the
  row's (`OverwriteState`), however long ago either was read; a transition keeps it
  because `OPEN` is reached from `REQUESTED` only (`TransitionJustified`).
* `StatesFollowProcess`, `DatesTellTheStates`, `SubmittedStaysComplete`, `FacetValuesStayWithinLimits`. `FreshInv` describes, for
  each place a request may be at, its entity, its SELECT and the row it holds as
  functions of the committed post, as long as nobody has committed since it loaded
  the post. Then `Overwrite` loses nothing (`OverwriteUnchanged`), a commit is
  the operation in one step (`CommitEdit`, `CommitTransition`), and the operation
  keeps the four properties (`CommitGood`). Other requests do not disturb a
  fresh one because the row has one holder (`SaveWriteOthers`).
* `RequestsAreServedOneByOne` (`Spec => ServedOneByOne`). Of an edit, `FreshInv` says for
  this that its entity is the post with what the request filled in and nothing else
  (`IsEditOf`), and of a transition that it had found the post complete. So a commit that is
  not overtaken is a step of `JobPostProcess`, a commit that is overtaken
  makes `overtaken` true, and every other step leaves the row alone (`AtomicStep`).

Assumptions used: a request is not called `"nobody"` (`RequestsAssumption`), the two
facets share no values (`FacetsAssumption`, for the limits), and the limits are
numbers. Both strengthenings were checked by TLC on the instance of
`jobpost_requests` before they were proved.

## 5. Transactions

`Transactions.tla` models `TransactionWrapper.executeInTransaction` in the mode
`auto`, the `TransactionSubscriber`, and what the `EventBus` does with an event
whose context has a query runner.

| TLA+ | Code |
|---|---|
| `stack[r]` | the calls of `executeInTransaction` that request `r` has not come back from, the innermost last |
| `failing` | requests whose innermost work has rejected: the `catch` of line 65 is next |
| `levels[x]` | the query runner: one set of writes for START TRANSACTION and for each SAVEPOINT; its length is TypeORM's `transactionDepth`, and `isTransactionActive` is that it is not zero |
| `aborted[x]` | PostgreSQL refuses statements until a rollback |
| `event[c]` | waiting in `awaitCommit`, due (in `delay(0)`), delivered, dropped |
| `unit`, `fate`, `wrote` | history: what the outcomes of the calls promise of the writes |
| `Begin` | `startTransaction`; in a transaction, a savepoint |
| `Write`, `StatementFails`, `WorkFails`, `Publish` | what work does: a statement, one that fails, a rejection, `EventBus.publish` |
| `ReleaseSavepoint`, `CommitTransaction`, `CommitFails` | `commitTransaction` of an inner and of the outermost call; a COMMIT that is refused |
| `Rollback` | `rollbackTransaction`, then `release` when no transaction is left |
| `Notify`, `IsTransactionActive` | `awaitTransactionEvent`: only the end of the outermost transaction of the same query runner counts |
| `Deliver` | the subscriber gets the event |

TypeORM and PostgreSQL are external: savepoints nest, RELEASE merges the last
level into the one before, an aborted transaction answers COMMIT with a rollback
and no error. The retry of `retryWhen` has no effect on the database, because
`from(promise)` is subscribed to again and the work is not run again; a deadlock is
therefore a failed statement like any other. The release of the query runner
has no state of its own here: it follows from the empty stack.

Runs. `transactions_requests` has a request with two calls, nested or one after the
other, and another request with one, on PostgreSQL, with work that may catch the
error of a failed statement. One call inside another is the smallest instance in
which savepoints and units differ, and the second request is there for the filter
on the query runner. Three nested calls beside a second request were checked once
by hand (584 320 states, five minutes) and hold; the proofs cover every number.
`CHECK_DEADLOCK FALSE`, because the requests end.

* `AllOrNothing`: commits are atomic over nested calls, and nothing of a rejected
  call is committed, with errors caught anywhere.
* `EventsFollowTransaction`: no event before the end of its work, none lost when
  that is kept.
* `ConnectionIsClean`: no transaction is left behind.
* `EventsAreSettled` (liveness): no event waits for ever.

Fairness. Work ends, and `executeInTransaction` then commits or rolls back
(`EndCall`); the timer of `delay(0)` fires (`Deliver`). The first is what a request
is: a promise that settles. Work that never settles would hold its events, and its
connection, for ever.

Finding. `transactions_caught` checks the doc comment of `executeInTransaction`
itself (`CommittedAsPromised`) on the same instance. Work that catches the error of a
statement resolves, and PostgreSQL has nothing to commit; the caller is told that
it succeeded, and the events of the work are delivered. `DocumentedPromise`
says that this is the only way.

What the code does and nobody promises otherwise: an event of a nested call
that was rolled back to its savepoint is delivered when the outermost transaction
commits. With `Shared = TRUE` (SQLite and sql.js, one query runner for all requests)
unrelated requests nest in each other and `CommittedAsPromised` fails even if no
error is caught.

### Proofs

`TransactionProofs.tla` proves, for a driver with a query runner per request
(`~Shared`), any number of requests and any nesting: `TypeCorrect`, `WorkIsAtomic`,
`EventsWait`, `ConnectionGivenBack`, and under
`AbortsOnError => ~CatchesErrors` also `DocumentedPromise`.

None of the four is inductive. Atomicity is about sets of writes, and a COMMIT
makes a level permanent: so the level must be the set of writes whose fate hangs on
the call that opened it (`LevelsHoldUnits`), except for the innermost level of a
request that fails, which a refused COMMIT has emptied and a rollback will throw
away. That needs the stack and the savepoints to match (`StacksMatch`), a fate to be
open exactly as long as its call is on the stack (`OpenOnStack`), and calls that
have not begun to be blank (`HistoryOfBegun`). For the events it must be excluded
that one is dropped while its work may still be kept (`EventsMatch`). For
`DocumentedPromise`: an aborted transaction has a request that fails
(`PromiseKept`). Steps that pop a call share the lemma `EndsStep`, steps that move
no call `LightStep`. The invariant was checked by TLC, on the instance of the
run and with three calls of one request, before it was proved.

Not modelled: the mode `manual`, drivers that roll back the whole transaction on a
deadlock (MySQL), an answer to COMMIT that is lost, crashes (an open transaction
is rolled back, as by `Rollback`, and its events are gone with the process). The
order of blocking event handlers is in section 16.

## 6. The two composed runs

The components of sections 7 to 17 share no state with one another. One run checks
several of them: `MCStrategies` (run `strategies`) and `MCServices` (run
`services`) extend their modules, and a variable `moving`, chosen in Init, names
the one that takes steps in a behaviour. So the states of the run are those of
one component or the other and never their product, and an invariant of one
component is checked in every state that component can reach. One bound is set here: in the
first tree of collections, only a collection between two others may stop inheriting.

| Run | Components | Shows |
|---|---|---|
| `strategies` (510 959 states) | in-memory job queue, job buffers, session cache, asset server | the invariants below, and that every in-memory job settles |
| `services` (578 938 states) | ledger, accounts, collections, assets, caches, blocking handlers, administrators | the invariants below |
| `jobbuffers_sql_flush` | job buffers on the SQL storage | violation: a job is lost between the two statements of a flush |

`strategies` checks for deadlock; the two stutter steps in `Next` stand for the
bounds `MaxTime` and `MaxServed` only. `services` has `CHECK_DEADLOCK FALSE`, because
entries, uploads and calls run out. The symmetry permutes requests, addresses
and the ids of nodes, keys, handlers and administrators: no definition
tells any of them from another.

Many of these services lose an update when requests overlap in the right way,
and nobody promises that they do not. A property then says exactly when: a history
variable (`overlapped`, `crossed`, `unchecked`, `stale`, `met`, `doubt`, `exposed`,
`spoilt`, `guaranteed`) collects the circumstances under which the code cannot keep it,
and everything outside of them is checked. An exception names circumstances that the
code allows, never the violation itself.

Fairness is stated for the in-memory queue only: the polling loop rearms its
timer after every round, the backoff delay passes, and process functions end
(`FairSpec`). It is stated for behaviours in which that component moves.

Proofs: `InMemoryProofs` for section 7, `StrategyProofs` for sections 8 to 10,
`ServiceProofs` for sections 11 to 15 and 17, `HandlerProofs` for section 16. They are about the specification of each
component by itself (`MemorySpec`, `BuffersSpec`, `SessionSpec`, ...): `Init` and
`[][Next]` of its module, for every value of its constants that its ASSUMEs allow.
The types are proved of all of them too, for which a few things must be known that no other
property asks for; sections 12, 14 and 17 name them.

`StrategiesAreIndependent` and `ServicesAreIndependent` join them: a behaviour of the composed
specification is a behaviour of each component, because a component that moves
leaves the variables of the others alone and `moving` never changes. So every invariant proved
of a component is one of the run. `StrategiesTypeCorrect` and `ServicesTypeCorrect` use this for
the conjunctions `TypeOK` of the two runs. Only liveness (`MemoryJobsSettle`) stays with TLC.

Recursive functions and folds over sets (`LineUp`, the sum of amounts, `FirstFree`) are
reasoned about by explicit induction: the set of numbers for which the claim
holds contains 0 and successors, so it is all of them (`NaturalsFrom0`, from
`LeastNatural`, from the well-foundedness of finite subsets). This needs none of the
theorems with an operator parameter.

## 7. InMemoryJobQueue

`InMemoryJobQueue.tla` models `InMemoryJobQueueStrategy`, the default strategy, and
the `ActiveQueue` that polls it, for one queue name.

| TLA+ | Code |
|---|---|
| `object[j]`, `found` | the `Job` object, shared by everybody; the keys of the map `jobs` |
| `unsettled`, `delayed`, `activeJobs`, `turn` | `unsettledJobs`; jobs within their backoff delay; `ActiveQueue.activeJobs`; the counter of `runNextJobs` |
| `AddToMemory`, `CancelInMemory`, `RemoveFromMemory` | `add`; `cancelJob`; `removeSettledJobs` and the eviction timer |
| `PollMemory`, `NothingListed`, `StillDelayed`, `RunNext` | one iteration of the loop with what `next()` finds |
| `FinishInMemory` | `onFailOrComplete` and `update` |

All awaits are of resolved promises, so an iteration is a step. Two jobs, two places,
one retry and one cancellation of each job let a job be cancelled before, during and
after it runs, next to another one in the list.

* `ListedOrActive`: a job that waits is listed once, one that runs is active, one that
  is not settled is found by its id.
* `ExecutionsBounded`: `cancelJob` leaves the job in `unsettledJobs`. It is run, and
  since `fail()` looks at the attempts only, retried; each cancellation costs at most
  one execution more.
* `MemoryJobsSettle` (liveness): every job that is added gets a final outcome and
  leaves the lists.

`InMemoryProofs.tla` proves the two invariants, the types, and that no more than
`MemoryConcurrency` jobs are active (`MemoryConcurrencyKept`), for any jobs,
retries and number of cancellations. `ExecutionsBounded` is not inductive:
a cancelled job in the list owes an execution that its cancellation has already paid
for (`Owed`, `ExecutionsPaid`), and a job that waits has attempts left
(`AttemptsLeft`). For the concurrency, `runNextJobs` counts the active jobs once
and then goes on with its counter, while jobs end: `ActiveCounted` says that
the counter is never behind. `MemoryImplementsLifecycle`: for every set `J` of jobs that are
not cancelled, the strategy implements `JobLifecycle` with one worker, in which
nothing may be stranded, whatever is cancelled, removed and run again beside `J`.
A cancelled job is not covered and cannot be: it is settled, and then runs. The map to
`JobLifecycle` needs that of the others the listed ones wait and the active ones run
(`UncancelledRun`). The lemmas `AppendOne`, `DropHead` and `PutFirst` say
what the ways to change `unsettledJobs` do to a list without duplicates.

## 8. JobBuffers

`JobBuffers.tla` models `JobQueue.add`, `JobBufferService` and both storages.

| TLA+ | Code |
|---|---|
| `rows` | `job_record_buffer`, or the map of `InMemoryJobBufferStorageStrategy` |
| `ahead[j]` | the buffers whose rows `JobBufferService.add` has still to store |
| `flush[f]` | a call of `flush()`: its ids, what it has read, the reduced jobs it has still to add |
| `AddJob`, `Collect` | `JobQueue.add`; `collect` and the storage of the job |
| `SelectRows`, `DeleteRows`, `TakeFromMemory` | `flush` of the SQL storage, two statements, and of the other one |
| `Reduce`, `HandOver`, `FlushDone` | `reduce` of one buffer, `jobQueueStrategy.add` of one job, the end |
| `ProcessDies` | a crash; what is in memory is gone |

A job asks for work on a set of entities, and `reduce()` may regroup that work:
one job of all, one per entity (the two buffers of the search plugin), or none
because it threw. Two jobs (one collected by both buffers, and sharing an entity
with the other), two overlapping flushes, with ids or without, on both storages.

`LostOnlyInGap`: what a job asked for is stored, in the hands of a flush, or has
been sent to the queue, unless a process died with it or the row came between
the SELECT and the DELETE of a flush (`exposed`). `StrategyProofs.tla` proves it for any jobs,
buffers and flushes. It needs that a row which a flush has deleted without
reading it is exposed (`GapIsExposed`), and that merging loses no entity
(`NothingReducedAway`).

Finding. `jobbuffers_sql_flush` checks the doc block of `flush` ("the buffer is
cleared and the jobs get sent to the job queue for processing") as an action
property, `BufferedWorkIsKept`. A job that is collected between the two statements is
deleted with the others and sent to nobody, with no process dying.

## 9. SessionCache

`SessionCache.tla` models one session of `SessionService`: row, cache entry,
permissions of its user, and the requests that present the token.

| TLA+ | Code |
|---|---|
| `session`, `expires` | the row, `saved` until its transaction has committed |
| `cached`, `late` | the entry of the cache, and a `set()` that was given up after 50 ms and has not arrived |
| `reader[r]`, `login` | `getSessionFromToken` behind a miss; `createNewAuthenticatedSession`, with the user it loaded |
| `CacheSet`, `CacheDelete`, `ArrivesLate` | `withTimeout`: a call takes effect now, later or never |
| `ClearSessionCacheOnDataChange` | the subscriber of `Role`, which clears before the commit |
| `FindSessionByToken`, `UpdateSessionExpiry`, `CacheAndServe` | the row, its extension past half its time, `serializeSession` and the cache |

A cache that is lost or late also stands for a cache of another process. One session, one
request behind a miss beside any number of hits, TTL 1, half duration 3,
six seconds, one change of permissions; a statement of one call comes at most
`MaxLag` seconds after the one before it. Six seconds are more than half the
duration, the TTL and the lag together.

* `ServedSessionsAreRecent`: neither a deleted session nor old permissions are served
  more than the TTL and a lag after they were true. A request puts back what a
  logout has deleted, and the cache is cleared too early: the TTL is all that
  bounds it.
* `ActiveSessionSurvives`: a session in use keeps half its duration, less the
  TTL and a lag, although hits never see the row.

`StrategyProofs.tla` proves both for any requests, durations and TTL. For the first,
`SessionInv` dates everything by what was true when it was read: a call in progress
began at most a lag ago and what it read was true then (`CallsAreRecent`), and an entry
was made by such a call at most a TTL before it goes stale (`EntriesAreRecent`). For the
second, who has seen the session alive has seen, or written, half its duration
(`ExpiryIsSeen`); it has the hypothesis `MaxLag <= HalfDuration`. Without it a slow
request could write an expiry that is behind the one another request has
already been served on. In the code the half duration is days, and a call is
given up after 50 ms.

Anonymous sessions are left out, and so is eviction by the in-memory cache.

## 10. AssetServer

`AssetServer.tla` models the asset server plugin over its local storage: the
directory, the requests, and the uploads and deletions of `AssetService` beside them.

| TLA+ | Code |
|---|---|
| `disk` | the files: which image under which path, and whether it is whole |
| `PathOf`, `NameParams` | `getFileNameFromRequest`, `addSuffix` |
| `Transformed` | `transformImage`, as far as the parameters decide |
| `Asked` | none: what the doc block of the plugin (`plugin.ts`) says of the parameters |
| `ReadFile`, `TransformOriginal`, `OpenCached`, `WriteCached` | `sendAsset`, `generateTransformedImage`, `writeFileFromBuffer` |
| `ServingFails`, `WriteFails` | the errors on the way, a full disk, the end of the process |
| `BeginUpload`, `EndUpload`, `DeleteOriginal` | a file appears when it is opened and is whole when it is closed; deletion |

What a request asks for (`Asked`) is taken from the documentation of the query parameters
and not from the code that answers it: presets with their own size and mode, a crop if both
dimensions are given, and the focal point of the cropped frame.

`ServedAsAsked`: a response is whole, transformed as asked and of the file of
that name, whoever filled the cache; but for a focal point at the top left, for which it
is transformed as with none. Where the name of the cached file says too
little the property stops (`sure`), and each case is one of the code:

* a size beside a known preset is part of the name, and the preset decides the image;
* another format replaces the extension, so `a.jpg` and `a.webp` share names;
* transformed images are never removed, so a name that is used again serves
  images of the file before it;
* two requests that miss write the same path, and a failed write leaves a half
  image that is served from then on;
* a request for a plain file that is missing when it is read, and is there when it
  is transformed, writes its re-encoding over the upload.

The reservation (`WithoutOrigin`) is where the code differs from its documentation:
`plugin.ts:72` says that `fpx=0&fpy=0` is the top left, and `transformImage` takes a
coordinate of 0 for none (`transform-image.ts:24-25`, `49`).

Two names with one base, seven queries, two requests and two uploads give each of
these.

`StrategyProofs.tla` proves it for any files, queries and requests
(`AssetsAreServedAsAsked`). `ServerInv` says what lies under each path that is not spoilt:
under the name of a file an upload of that file (`OriginalsAreTheirs`), under the name
of an image what the name says (`CachedAreRight`), unless exactly one request is
writing it (`WritersAreAlone`); and what each request has in hand is what it
asked for. That a name says enough, and that the
code does what was asked for, are lemmas about `PathOf`, `Transformed` and `Asked`. The ASSUME
on `Files` says that a file name is its base and its extension and nothing else.

## 11. BalanceLedger

`BalanceLedger.tla` models `BalanceService`: `CreateEntry` (`create`),
`BeginSettlement` and `CommitSettlement` (`trySettleBalance` up to and from
`getLatestSettledEntry`), `SettlementFails`, and the CHECKs of the table
(`InOrder`). `entry.customer` is not among the loaded relations, and TypeORM leaves
out a condition that is undefined; so all customers share one chain, and the
model has none. Settlement is tried once, when the event of the entry arrives: an
entry with review days stays `pending` for ever.

Three entries, two amounts of opposite sign, and a clock of three values that may
stand still between two settlements.

* `ChainAddsUp`: a settled entry continues one that is settled and earlier, and its
  balance is that of the other plus its amount, whatever overlaps.
* `LatestIsTotal`: while no two settlements overlapped, the latest balance is the sum
  of all settled amounts. Overlapping ones continue the same entry, and one of the
  amounts is missing from then on.

`ServiceProofs.tla` proves both for any entries and amounts. For `ChainAddsUp`, what a
settlement has read must still be there when it commits (`SettlingIsSound`), which
holds because settled entries are never changed. For `LatestIsTotal`, a settlement that
is alone has read what is the latest still when it commits (`OneAtATime`), and the sum
of a finite set with one more element is the sum and that element, in whatever order
the fold takes them.

## 12. Accounts

`Accounts.tla` models `UserService` and `CustomerService` for one customer: the rows of
user, native authentication method and customer, and overlapping requests in
their transactions.

| TLA+ | Code |
|---|---|
| `db[c]` | the committed value of a column |
| `request[r]` | what it wants the columns it loaded to be, and what its UPDATEs have written |
| `Saves` | the columns each request loads; `passwordHash` is `select: false` |
| `SetVerificationToken` ... `Touch` | the requests, one action each, up to the first save |
| `SaveMethod`, `SaveUser` | TypeORM's `save()`: the loaded columns that differ from the row (external) |
| `CommitRequest`, `RequestFails` | the ends of the transaction |

`sentTo` says which address a token was sent to; `proven` collects those from which
one came back. `requireVerification` is `TRUE`. Two addresses, two overlapping requests,
four requests and three tokens or passwords in a behaviour: enough for a change of
address to be asked for, overlapped, and used.

* `PendingIsWhereTokenWent`: token and pending address belong together, although a
  request saves only the one that differs. Not so (`crossed` has `"token"`) when a new token for
  an address is committed while another request holds the row with the old one: the
  other then writes back the old token, or the old address, and not both.
* `VerifiedByProof`: a verified user has proven an address. It is the present one, or one
  that `CustomerService.update` set, unless the above has happened, or a new identifier
  was committed while a request held the old one (`crossed` has `"identifier"`) and
  writes `verified` beside the new one.
* `SpentStaysSpent`: a token that was used does not come back, except by a request
  that loads the authentication method and overlaps.

`ServiceProofs.tla` proves the three for any addresses, requests and tokens. The proof
attempt corrected two of them: in longer behaviours than the bounds of the run
allow, a request that holds an old token can save the token column and not the
address beside it. The history variable now names where that begins. `AccountsInv` describes
the requests under way as much as the row: since the last token for an address,
every request that holds token and pending address holds that pair or neither
(`OnePair`); until an address is asked for, all tokens were sent to the first one
(`VerifiedByNow`); what was spent is in no request's hands (`SpentIsNowhere`). It was
checked by TLC with three addresses and four tokens (5.7 million states). `NoAddress` is no
address, and a token and a password is what a registration begins with
(`AccountsAssumption`, which asks for at least two secrets).

## 13. Collections

`Collections.tla` models the tree of `CollectionService` and the job that applies
filters.

| TLA+ | Code |
|---|---|
| `row[c]` | the collection: parent, version of its filters, `inheritFilters` |
| `members[c]` | which filters all job posts linked to `c` pass |
| `LineUp`, `Descendants`, `Circles`, `AncestorFilters` | `getAncestors`; `getDescendants`, and that it does not end; `getAncestorFilters` |
| `CreateCollection`, `MoveCollection`, `SaveRows`, `UpdateCollection`, `Enqueue` | `create`, `move`, `update`, up to the save and from it to the job |
| `DeleteCollection`, `RemoveOne` | `delete` with its descendants, one by one |
| `JobPostsChange` | the debounced events of job posts: a job for all collections |
| `LoadCollection`, `CompareMembers`, `ApplyMembers`, `ApplyFails` | `applyCollectionFiltersInternal` |

Only the populator and plugins call the service. Calls are made outside a transaction, as the
populator makes them: every statement is seen at once and a call may end between two. A
move reads the siblings and writes them back whole. An update writes what its input
has, in one save: filters, `inheritFilters` and, since `UpdateCollectionInput` has it too,
`parentId`, any of them and in any combination. It adds a job only if the input has
filters. A create may say that nothing is inherited. Init is any tree that creates and
updates can build, with all jobs done. Calls that name the root collection itself are left
out.

Three collections, two overlapping calls, two changes, filters or none; one
worker that applies to one collection at a time.

* `EveryWalkEnds`: no walk up the tree is endless, and nothing hangs below a deleted
  collection. The first fails once a parent was written that no check had seen
  (`unchecked`): two moves overlap, each checked against the tree without the other; an
  update changes a parent during a move; an update puts a collection below itself.
* `MembersFollowFilters`: a collection for which no job is ahead holds what passes the
  filters in force. `stale` says for which it may not: `move` and `update` add a job
  for the collection itself and none for those below it, `update` without filters, of
  the parent or of `inheritFilters`, adds none at all, `delete` takes links of the wrong
  collection, and a failed call or job is not repeated.

So one call of `update` can put a collection inside itself or below a descendant, which `move`
refuses with the message "Cannot move a Collection into itself"
(`collection.service.ts:451-453`). From then on `getDescendants` of it, and with that
`move` and `delete`, never end.

Positions of siblings, names and slugs are left out, and so is the maximal depth of
`getDescendants`.

`ServiceProofs.tla` proves both for any finite set of collections and any calls.

* `WalksEnd`. In terms of the tree, and not of the walk, the property is `Acyclic`: every
  set of collections has one whose parent is outside of it. `WalksInv` keeps it, until
  a parent is written unchecked: the one move in progress holds rows that are still where it read
  them, and above the place it moves to there is a set closed under parents that
  it does not move (`OneMove`), which was true when the move was checked and which
  creates, deletes and updates of others cannot break. An update that changes a parent while no move is in
  progress, and to a place that is not below the collection, closes no circle
  (`UpdateKeepsWalks`). From `Acyclic` to the end of each
  walk is counting: a walk that goes on for as many steps as there are collections
  meets one twice (`AcyclicEnds`).
* `MembersFollow`. What the worker has read is what holds now, unless a job for
  that collection is ahead or it is in `stale` (`LoadedIsCurrent`, `ComparedIsCurrent`).
  The ancestors of a collection are the same in two trees that agree on the
  way up (`WalksAgree`), so a change elsewhere changes no filters in force.

`TreeAssumption`: collections are finitely many, and none is one of the four values that
stand for no collection.

## 14. Assets

`Assets.tla` models uploads of files with one name, and deletions: rows in the
transaction of the request, files outside of it. `ChooseSource` and `ChoosePreview` are
`generateUniqueName` (`FirstFree`), before anything is written; then `WriteSource`,
`WritePreview`, `SaveAsset`, `EndUpload`; `LoadAsset`, `RemoveRow`,
`DeleteSourceFile`, `DeletePreviewFile`, `EndDeletion`. Nothing in the repository calls
`delete()`; it is exported for plugins.

`AssetsHaveTheirFiles`: an asset has the two files its own upload wrote, although names
are used again and files are left behind by failures. The exceptions (`met`): two
uploads choose one name at a time, two calls delete one asset, a deletion is rolled
back after its files are gone. Two uploads and two deletions are what it takes for
each of them, and for a name that is used again.

`ServiceProofs.tla` proves it for any uploads and deletions (`AssetsKeepTheirFiles`).
`Calmly` is what holds until one of the exceptions: a name that is chosen is free until
it is written and then holds that upload's file, no two uploads in progress have one name, and
a row that is removed has exactly one deletion at work on it. A free name exists because
the files are finitely many (`LeastNatural`).

The type invariant bounds the numbers that are put behind a name by the number of uploads
(`NamesAreUsedAgain`): names are used again, and never more of them exist than there were
uploads. It is not obvious, since an upload chooses two names, and failures leave
files behind. Who wrote a file has its name and no other (`FileIsOwn`); an upload that looks for the name
of its preview has written no file yet; so the files in its way were written by
different other uploads, and `FirstFree` cannot go past their number (`NamesInv`).

## 15. Caches

`Caches.tla` models `Cache` over the in-memory strategy and over the two tables of the
`DefaultCachePlugin`: `GetMisses`, `SetItem`, `SetTag` (`get`), `InvalidateInMemory`,
`FindTagged`, `DeleteTagged` (`invalidateTags`), `ItemGoes` (expiry, eviction, `delete`).
`CacheService` is offered to plugins; the repository itself does not call it, so the user
that changes data and then invalidates is external.

`CachedIsCurrent`: unless an invalidation is still to come, a cached value is made from
the data of now. It is about what the tags must do when statements and calls do not get in each other's
way, and says nothing of the exceptions (`doubt`), which the code allows: a get() that missed before the change sets
after it; an error that is only logged; and `ids.slice(i, batchSize)`, which takes the
first batch and then nothing, so that further items survive untagged, although
`cache.service.ts:82` says that invalidateTags "Deletes all items from the cache which contain at
least one matching tag". Three
keys, two users, a batch of two, two changes, a cache of three items.

`ServiceProofs.tla` proves it for any keys, users, batches and sizes
(`CachedValuesAreCurrent`): a `get()` that missed and is not in doubt has met no change
(`ComputedIsCurrent`), and every item that is not in doubt is found by the
next invalidation, by its tag or because the tag is about to be written
(`ItemsAreReached`).

## 16. BlockingHandlers

`BlockingHandlers.tla` models `registerBlockingEventHandler` and `orderEventHandlers`.

| TLA+ | Code |
|---|---|
| `handlers` | the list `blockingEventHandlers` has for the event |
| `list`, `next` | the argument of `orderEventHandlers`, and the index of its loop |
| `visits`, `visiting`, `ordered` | the calls of `visit()` that have not returned, the set of ids, the result so far |
| `RegisterBlockingEventHandler` | the check of the id, and the call of `orderEventHandlers` |
| `VisitNext`, `VisitAfter`, `OrderSelf` | `visit()` called by the loop, by a visit for the handler it comes after, by a visit for the one it comes before |
| `Refuse`, `SetOrdered` | the error "Circular dependency", the list put back into the map |

The recursion of `visit()` is a stack of open calls, and one call of it is one step. The code does
not await in between, so nothing else happens before a walk has ended. All
registrations of three handlers with all their `before` and `after` are explored.

`BlockingOrderKept`: a handler runs after the one it names, in whatever order they were
registered. Of `before` only part is true, and only that part is in the property: when the other one was
registered first the new one is placed behind it, although the doc comment says "The ID of another
handler which this handler should execute before" (`event-bus.ts:39`). A pair that is consistent may be refused as
circular, and a handler that was refused stays in the list, so that later
registrations of other handlers throw too; the property speaks of the time before the first refusal.

`HandlerProofs.tla` proves it for any handlers and any registrations (`HandlersRunInOrder`), and
the types (`HandlersTypeCorrect`). `HandlersInv` describes the walk: the open calls
are of different handlers that are not ordered, and `visiting` holds their ids (`CallsOpen`);
a call that has called another one waits for the handler it comes after, or that one
is ordered (`CallsWait`); what is ordered is behind what it comes after (`AfterKept`).
The part about `before` depends on the lists of the past: a handler named by one other
only was reached by the loop after the one that names it. TLC checked the
invariant on 36 336 states with three ids before it was proved.

`RegistrationsEnd`: no registration walks for ever, whatever circles `before` and `after` make.
What is left of a walk (`Left`: the rest of the loop, two steps for each handler that is not
ordered, less the open calls) is a natural number, and each step makes it smaller
or ends the walk.

## 17. Administrators

`Administrators.tla` models who has the SuperAdmin role.

| TLA+ | Code |
|---|---|
| `superRoles`, `admin[a]`, `configured` | the rows with the code of the role; administrator, its user and the user's SuperAdmin roles; whose identifier is `superadminCredentials.identifier` |
| `starting[p]` | `initRoles` and, in a server, `initAdministrators`, statement by statement, outside a transaction |
| `calling[r]` | a request in its transaction |
| `EnsureSuperAdminRole` ... `EnsureRole` | `ensureSuperAdminRoleExists`, `ensureSuperAdminExists` |
| `CreateAdministrator`, `UpdateAdministrator`, `AssignRole`, `SoftDelete` | the requests; `NotSole` is `isSoleSuperadmin` |
| `SaveAdministrator`, `SaveUserOfAdministrator`, `CommitCall` | `save()` and the commit |

`SuperadminRemains`: from the end of a server's start that overlapped nothing, there is
a superadmin that can log in. Stale saves revive deleted rows and a crash may leave a
start half done; neither takes the last one away. The exceptions (`guaranteed`):
administrators deleted together or in overlapping deletions, each of which sees
the other; roles written that leave the role out. `isSoleSuperadmin` throws when a live administrator's user is gone
(`CanCount`).

Three administrators, two requests, a server and a worker, three starts, two requests and
up to two SuperAdmin roles in a behaviour. Once by hand: three starts with four
requests and one role (2.74 million states); the property holds.

`ServiceProofs.tla` proves it for any administrators, requests, processes and roles
(`SuperadminIsKept`). An earlier form of the property excepted a second SuperAdmin role; the
proof does not need it. `AdminInv`: a start that has overlapped nothing knows what
is there (`CalmStartsAreTrue`), and a deletion under way leaves a superadmin to each of
the administrators it will delete, as long as no other deletion was committed (`DeletionsSpare`).
A stale save takes no role away but those its request meant to take, and it may bring
a deleted administrator back to life. For the types: whatever a row, a request or a start
holds of roles is one that exists (`RolesAreRows`), for a role is never deleted.

## 18. Mutants

An operator `X_<fault>` stands before the operator `X` it is a faulty version of:
a guard dropped, a reset forgotten, a bound off by one. No action uses it. Each
property of a passing run is listed in `PROJECT.json` with the fault that breaks it.

## 19. Not modelled

`PROJECT.json` has the whole list with reasons.

* I/O and conversions with no state that several actors share: mail, Google
  sign-in, admin UI, CLI, list queries, hydration, translations, id codec, generated
  schemas, the entities as such. They are most of the lines of the repository.
* Data import, migrations and the bootstrap run alone. `AsyncQueue` has no user in the
  repository, `SubscribableJob` only polls, and there is no indexer for the search.
* Of modelled components: creation, registration and deletion of customers, external
  authentication, roles other than SuperAdmin, positions of collections, metadata of
  assets, facets and history (single rows written once), anonymous sessions, the
  stop of the in-memory queue, several queue names.
* With TLC and not with the prover: liveness under fairness (`EveryJobSettles`,
  `EventsAreSettled`, `MemoryJobsSettle`), which needs ENABLED, and the six violations, which
  are counterexamples. Every other property of a run is a theorem.
