# DevAccel-AI in TLA+

DevAccel-AI takes two kinds of work over HTTP, the analysis of a pull request
and the triage of a flaky test run, stores each as a row, hands it to a
background worker, and lets clients read the result.  What can go wrong is not
in any one function.  It is between them: between two commits of a request,
between the dispatch and its record, between a worker's first read and its last
write, between two requests that upsert the same row.  These modules model
those steps and state what must hold across them.

Paths below are relative to the repository.

## 1. Inventory

| Component | State it keeps | Operations | Module |
|---|---|---|---|
| Pull request jobs: `app/services/pr_analysis.py`, `workflows.py`, `api/routes.py`, `tasks/pr_analysis.py` | tables `pull_requests`, `pull_request_analyses`; a session per request and per task | accept a webhook or a direct request, store, dispatch, mark, analyse, read | `PullRequestJobs` |
| Webhook screening: `app/services/github.py` | none | event name, signature, action and fields, in that order | `Screened` in `PullRequestJobs` |
| Observability correlations: `app/services/observability.py` | table `observability_correlations`, unique on `correlation_id` | two ingests, record of a dispatch, observation of a check run, list for a resource, log lookup | `Correlations` |
| Flaky triage: `app/services/flaky_triage.py`, `tasks/flaky_triage.py` | table `flaky_test_runs` | store, dispatch, mark, triage with a search of the history | `FlakyTriage` |
| Celery dispatch: `app/services/task_dispatcher.py`, `workers/celery_app.py` | two queues on redis | publish, take | the broker in both modules above |
| SQS and Step Functions dispatch: `sqs_step_functions_dispatcher.py`, `step_functions_dispatcher.py` | none of its own; a queue, executions | send a message, start an execution | `SqsDispatch` |
| Lambda consumer: `sqs_step_functions_consumer.py`, `app/lambdas/` | none | start an execution for each record of a batch | `SqsDispatch` |
| Patch fetch: `github_pr_content.py` | none | page loop over the files of a pull request | `PatchFetch`; its outcome in `PullRequestJobs` |
| GitHub App tokens: `github_app_auth.py` | a cache of tokens per installation | look up, renew | `PatchFetch` |
| LLM client: `llm.py`, `llm_prompts.py` | the provider it was built with | build from settings, one call | `LlmClient`, used by `PullRequestJobs` |
| CloudWatch lookup: `cloudwatch_logs.py` | none | a query for the stream or the term of a correlation | `Lookup` in `Correlations` |
| API process: `app/main.py`, `db/session.py`, uvicorn | the event loop, the threads, a pool of connections | take a request in, hand it to the loop or a thread, lend connections, close its session | `ApiProcess` |
| Log context: `app/core/log_context.py`, `core/logging.py` | a context variable per flow of control | bind, clear, reset, serialize into a message | `LogContext` |
| Schema migrations: `alembic/`, `infra/sql/` | the schema, `alembic_version` | upgrade, downgrade, stamp, the transitional SQL | `SchemaMigrations`, `SchemaAdoption` |
| Deployment: `docker-compose.yml` | which containers run | up, down, start after the migration | `Deployment` |
| Settings, CI, the state machines of Step Functions, the example forwarder | none that changes | - | not modelled (section 7) |

How they interact.  A request handler runs the service and the dispatcher in
one database session that commits several times.  The dispatcher publishes a
message that carries a primary key.  A worker opens a session of its own, loads
the row by that key, calls GitHub and the LLM for as long as they take, and
commits.  Handlers and workers share nothing but the database and the broker;
the correlation row is written by handlers only.  Inside an API process the
webhooks share the event loop and all requests share the pool of connections;
the log context travels from a request to its worker in the headers of the
message.  All of them work on the schema that the migration left.  Nothing is locked, no row has
a version, and no status is tested before it is overwritten.

What is hard, and the properties that answer it:

* **Two commits of one request.**  Store, ingest and mark are separate commits,
  with the publish in the middle.  `NoSilentLoss`, `TraceBeforeWork`,
  `AnswersAreHonest`.
* **The publish that raises after the broker took the message.**  The handler
  marks the job `dispatch_failed` while a worker analyses it, in either order.
  `KeepsContract`.
* **Stale sessions.**  A worker commits minutes after it loaded the row, and
  SQLAlchemy's UPDATE names only the columns that differ from what was loaded.
  That makes `PatchNeverReverts` and `NothingIsErased` hold, and
  `CompletedHasNoError` fail.
* **Duplicates.**  GitHub redelivers webhooks and the broker redelivers
  messages.  `OneRecordPerDelivery` for the first; `KeepsContract` for the
  second, and `SettledOnce` and `KeepsFinalContract` for what holds without
  them.
* **Concurrent upserts.**  Look up, then insert or update, without a lock:
  `CorrelationIdsAreUnique`, `RowsTearInOverlapsOnly`, `LoneJobIsTraced`,
  `RefusalsAreExplained`; and a JSON column that is merged in memory:
  `EntriesAreLostInOverlapsOnly`.
* **A search while others commit.**  Two queries, a similarity with two
  thresholds and two limits, and results that become candidates for later
  searches: `ClustersStayInSuite`, `ReuseIsJustified`, `BestMatchIsFound`,
  `SameAnswerSameCluster`.
* **A batch that is delivered again as a whole.**  One record that fails ends
  the invocation; those before it were started, and will be again.  The AWS
  client repeats a call that was not answered, and the queue is one that
  delivers at least once.
  `NothingAcceptedIsDropped`, `DuplicatesAreExplained`.
* **A remote list that changes between two pages, and a token that ages.**
  `QuietFetchIsExact`, `SlipsAreBounded`, `TokenOutlivesRequest`.
* **A loop that waits for what only it can free.**  The webhook handler is
  `async` and calls a synchronous session: it waits for a connection on the
  event loop, while the sessions of finished requests are closed by that loop.
  `EveryRequestIsAnswered`.
* **A pool that is empty between two commits.**  Each commit gives the connection
  back, and the refresh after it may find none: the request ends there, with what
  it has done.  `RefusedAreRecorded`.
* **Ambient state.**  The ids in the log lines of a request are in a context
  variable, and a worker process lives for many jobs: `LinesBelong`,
  `TraceArrives`.
* **A schema that moves under the services.**  Interrupted migrations, in both
  directions, and containers that start in an order: `StatementsApply`,
  `ServedSchemaIsCurrent`.
* **Something must eventually happen.**  `EveryJobSettles`,
  `EveryRequestIsAnswered`.

## 2. The modules

Every action is one commit, one call to the broker or one answer of an outside
service, so every other actor may run between any two of them (the rounds of the
loop in `FlakyTriage` are actions too, although they are none of these).  All
modules use the same model of a SQLAlchemy session: it keeps the columns as loaded, and
`Flush` writes a column only if the session's value differs from the loaded one.

Definitions whose comment begins with *Slip* are not part of `Next`.  Each is
its neighbour with a plausible mistake (a dropped guard, a missing filter, a
swapped order) and is there to show that some property notices it.

### `JobContract`

The abstract specification: a job is accepted as `queued`, then settled with a
verdict (`completed`, `failed` or `dispatch_failed`), never goes back, and is
completed only with its analysis.  The constant `Final` says whether a verdict
is the last word.  `PullRequestJobs` and `FlakyTriage` instantiate it with a
refinement mapping of their tables: `status` is the status column, `analysed`
is "has an analysis row", respectively "has a cluster key".

### `PullRequestJobs`

| Code | Model |
|---|---|
| table `pull_requests` | `pr`: status, kind of error, kind of `diff_text`, delivery id |
| `pull_request_analyses` | `analyses`: how many rows per job |
| the job's correlation row | `correlation`: none, ingested, dispatched |
| `github_webhook`, an `async` route without an `await` after the body is read | `Loops`: `AcceptEvent`/`ReuseExisting` (the lookup) then `CreateRecord` (the insert), one request per process |
| `create_pull_request_analysis`, a route run in the thread pool | `Threads`: `DirectRequest` |
| `enqueue_analysis` | `CreateRecord`, `RecordIngest`, `Dispatch` or `DispatchFails` or `DispatchUnclear`, then `RecordDispatch` or `MarkDispatchFailed` |
| the commit that meets the unique index | `DuplicateInsert` |
| a process that ends, or a database that is away, between commits | `RequestDies` |
| `analyze_pull_request_task`, acknowledged when it begins | `StartTask` |
| `process_analysis` | `FetchPatch`, then `Complete` or `ProcessingFails` |
| an exception class it does not name | `ErrorEscapes` |
| `PullRequestService(db)` of a worker whose settings name no usable provider | `ServiceNotBuilt` |
| `get_pull_request_analysis` | `ReadRecord`, then `ReadAnalyses` |

`mishaps`, `answer` and what a reader holds are history: no guard reads them.
`mishaps[j]` is what befell job `j` that nothing in the code recovers from (a
request, a process or a message lost, an error that escaped, settings that build
no client) and whether a publish of it was unclear.  `LlmClient` says which
settings build a client (`Builds`) and how a call to it may end (`Endings`); each
worker has settings of its own, which are read when its process starts.

### `Correlations`

`rows` is the table in the order of its primary key.  A session reads in one
step (`Ingest`, `Observe`, `Dispatch`) and commits in a later one
(`SaveObservation`, `SaveDispatch`); `Refused` is the commit that an index or a
foreign key turns away, which no code catches.  `FindExisting`, `CorrelationId`,
`Applied` and `Dispatched` are `_find_existing`, `_build_correlation_id`,
`_apply_observation` and `record_dispatch` over the columns they decide by.
`notes` is `event_metadata`, a dictionary.  The column is merged in memory and
written as a whole: `noted` is what the session read, `gives` what its
observation adds (`LogContextOf`, the log context of the request, and what the
sender gives, `Metadata`), and `Merged` replaces the entries of the same key.
`attach_request_context` binds a `request_id` for every request, so every
observation replaces that entry.  A dispatch may return no task id (`Task[j] =
Null`), and `record_dispatch` assigns it all the same.  An integer of a request
may be `Zero`, which `or` takes for absent and `is not None` does not.
`ListForResource` and `Lookup` are the two reads: which rows a resource has, and
which log stream or which search term leads to its logs.  Columns that only
describe the check run are left out.

### `FlakyTriage`

The lifecycle is that of `PullRequestJobs` without the patch (its handler steps
have the same names); the error text is left out, because nothing here depends
on it.  What is new is the search: `Propose` is the LLM's answer made canonical,
`SearchTest` the query for the test's history with its loop, `SearchSuite` the
query for the suite's, `Compare` one round of the loop over that history and
`EndSearch` its end; `Complete` commits the key.  The rounds touch nothing but
the session (`loop`: what was listed, what is still to do, the best so far);
they are steps of their own so that what the loop has found after any number of
them can be stated and proved.  A cluster key is an abstract value with a set of
tokens, and `Reaches(k, l, part, whole)` is `_cluster_similarity(k, l) >=
part/whole` without division.  `Seen` is the identity map of the session: a row
that was loaded before keeps the key it had, although the filter of the query
reads the row as it is now.

Assumed: no canonical key shares a token with `pending`
(`TokensAssumption`).  A key such as `cluster:pending_refund` would be half
similar to the column's default, and a run triaged twice could then reuse that
default.

### `SqsDispatch`

| Code | Model |
|---|---|
| settings of a process | `Settings[h]`: backend, whether there is a queue URL, the machine of each workflow, the shared one |
| a job's row, its commit and its mark | `status`; `StoreJob`, `MarkDispatchFailed` |
| `resolve_state_machine_arn` and the checks of the two dispatchers | `Machine`, `Configured` |
| the clients of boto3, built without a configuration, which try a call again that was not answered | `Sends`: what each attempt may leave with AWS; `Effects` |
| `send_message`, `start_execution` of a request | `Accepted`, in `Dispatch` or in `DispatchFails` (the call raised, and AWS may have heard it) |
| the event of a Lambda invocation | `lambda[l]`: its batch, the next record, the receipt of each message |
| `start_execution` of a record, without a name | `StartRecord`: as many executions as AWS took attempts |
| `consume_record` | `ConsumeRecord`, or `ConsumeFails`, which ends the invocation |
| `handler` returns | `Return`: the batch is deleted |
| executions of Step Functions | `executions[m]`: the machines started for a message, or for an attempt of a request's own call, in order |

SQS and Lambda are not in the repository.  What is assumed of them is what AWS
documents: a message that is received is hidden, not gone; it is delivered again
when its visibility timeout ends before it is deleted; a batch is deleted when
the function returns and is left alone when it raises; with an old receipt, a
delete may or may not work.  `send_message` is given no `MessageGroupId`, so the
queue is a standard one, which delivers *at least* once: `Redeliver` makes a
message visible again while it is worked on, or after it was deleted.  The
clients are built without a configuration, so botocore's default applies: an
attempt that timed out is made again within the same call, and each one that AWS
took has its effect, because `start_execution` is given no `name` and
`send_message` nothing to tell copies by.  `Attempts` is how often a call is
tried; the copies of a message are messages of their own.

The repository has no redrive policy, so a message that never parses is delivered
again and again (up to the bound), and so are the valid ones that share its
batches.  `spoilt` is history: how often an invocation with this message failed,
died or was late, or SQS delivered the message again; `retried` counts the
attempts beyond the first of the calls that started it.  A dispatcher that is asked for a
workflow other than the two is left out: no caller does.

### `PatchFetch`

| Code | Model |
|---|---|
| `page`, `files` of the loop; `sections` | `page`, `files`; `result`, the files whose patch is in the bundle |
| `_token_cache` | `cache`, one entry: a fetch has one installation |
| `get_installation_access_token` | `UseCached`, `RequestToken`, `TokenRefused` |
| `_build_headers` without an installation | `SendWithoutApp` |
| a request on its way | `sent`: its token and when it was sent |
| the answer | `ReadPage` (and in it `NextPage` or `Bundle`), `PageRefused` |
| pushes and time, which are GitHub's | `TakeOut`, `PutIn`, `Tick` |

The services are made for one task, so the cache is empty at the start and a
token mostly serves a few pages only.  The clock of the
model may pass the life of a token during one fetch all the same: the property
asks whether the check of the cache is right, however long the fetch takes.
Assumed: a request reaches GitHub within `Delay`, which the client's timeout of
20 seconds keeps below the minute that a cached token must still have
(`TimeAssumption`); a token is good for more than one request.  A token that
came without a date is used for as long as the service lives;
`TokenOutlivesRequest` is about those that have one.

### `LogContext`, `ApiProcess`

| Code | Model |
|---|---|
| `_log_context`, a `ContextVar` | `flow[f].now`, of every request and worker |
| the tokens of the open `with bind_log_context(...)` | `flow[f].saved` |
| `attach_request_context` | `Arrive`, `Close` |
| an `async` route, an ordinary route | `Webhooks`, `Calls`; `loop` is the webhook that has the event loop |
| a session's connection | `Holders`: from the first statement after a commit to the next commit |
| `db.commit()` then `db.refresh()` | `Commit`, then `Connect` |
| the dispatch between the second and the third commit | `Publish`, or `DispatchFails`: it raised, and the broker may have the job all the same |
| the third commit, of `record_dispatch` or of `mark_dispatch_failed` | `Commit` of a request that has `Dispatched` |
| QueuePool's timeout of 30 seconds | `PoolTimeout` |
| `get_db`'s `finally`, which the loop has to run | `Close` |
| the headers of `apply_async`; `self.request.headers` | `Accepted`; `Take`, `Fields` |

The requests are those that store and dispatch a job, with three commits and the
dispatch before the last, which says what came of it.  Requests that only read hold one connection and are
like the last part of these.  Threads are not counted: there are 40, and 15
connections, so that a thread is never what is missing.

### `SchemaMigrations`, `SchemaAdoption`, `Deployment`

The schema is a set of pairs of a table and a column or unique index.  Each
revision is a sequence of statements in either direction; `Applies` is what
PostgreSQL requires of each.  A run takes the database from the stamped revision
to another (`Begin`, `Execute`, `Stamp`, `Finish`) inside one transaction, which
an `Interrupt` rolls back: `env.py` opens one around all revisions and
PostgreSQL's DDL is transactional.  `Declared` is what the models of the
application say, `Models`.  `SchemaAdoption` is the procedure of README.md:102
for a database that is older than Alembic.

`Deployment` composes `SchemaMigrations` with `ApiProcess`: docker compose runs
the migration, starts the services once it has ended well, may be brought up
again under running services, and an operator may migrate by hand, in either
direction, while nothing runs.

### Composition

`PullRequestJobs` carries its own small copy of the correlation row, so that
"traced before worked on" can be stated there; `Correlations` carries the
requests of both workflows up to the dispatch.  The two are not composed into
one module: they share only the order of the handler's steps, which both have.

## 3. What is checked

| Run | Instance | What it shows |
|---|---|---|
| `jobs_faults` | 2 processes, 1 thread, 2 workers, 2 jobs, 2 deliveries, all failures, 2 messages per job | `TypeOK`, `OneRecordPerDelivery`, `NoSilentLoss`, `TraceBeforeWork`, `AnswersAreHonest`, `SettledOnce`, `ErrorMatchesStatus`, `PatchNeverReverts`, `KeepsContract` |
| `jobs_live` | 1 process, 1 thread, a client, 2 workers of which one has no usable provider, four kinds of event, lost requests and escaped errors, fairness | `NoConflict`, `ReadersSeeTheSummary`, `EveryJobSettles`, `KeepsFinalContract` |
| `jobs_stale_error` | 1 job, 2 workers, unclear publishes | finds `CompletedHasNoError` violated |
| `jobs_escape` | 1 job, 1 worker without a usable provider | finds `FailureIsPersisted` violated |
| `correlation_upserts` | 2 sessions, a pull request whose dispatch returns no task id, three flaky runs of which two share a check run, an observation that gives the pull request the check run of a flaky run, 2 request ids, 3 rows | `TypeOK`, `CorrelationIdsAreUnique`, `RowsTearInOverlapsOnly`, `LoneJobIsTraced`, `RefusalsAreExplained`, `NothingIsErased`, `EntriesAreLostInOverlapsOnly` |
| `correlation_stolen` | two runs of one check run, 1 session | finds `TriageIsTraced` violated |
| `deployment` | a webhook whose dispatch may raise, 2 calls, 1 worker, 2 connections, all four revisions in both directions, fairness | `TypeOK`, `RefusedAreRecorded`, `LinesBelong`, `TraceArrives`, `StatementsApply`, `ServedSchemaIsCurrent`, `EveryRequestIsAnswered` |
| `stamped` | every schema of the time before Alembic | finds `StampedIsCurrent` violated |
| `flaky_race` | 2 workers, 2 runs of 3 tests in 2 suites, all failures, 2 messages per run | `TypeOK`, `ClustersStayInSuite`, `KeepsContract` |
| `flaky_sequence` | 1 worker, 4 runs of 2 tests of one suite, 3 keys | `ReuseIsJustified`, `BestMatchIsFound`, `SameAnswerSameCluster` |
| `sqs_faults` | 3 processes with different settings, 2 invocations, batches of 1 or 2, a job whose call may leave two messages, and a stray message, all failures, 2 attempts per call, 2 receives per message and 4 in all | `TypeOK`, `NothingAcceptedIsDropped`, `DuplicatesAreExplained` |
| `fetch_pages` | 0 to 4 files on pages of 2, 2 pushes, a clock that passes the life of a token | `TypeOK`, `TokenOutlivesRequest`, `QuietFetchIsExact`, `SlipsAreBounded` |

### The four disagreements

* **An error that outlives its job** (`pr_analysis.py:136`).  `error_message =
  None` on a session that loaded None is no change, so the UPDATE does not clear
  what another transaction wrote in between.  A job marked `dispatch_failed` by
  the request and completed by a worker that had loaded it earlier ends
  `completed` with an error.
* **A failure that is not persisted** (`pr_analysis.py:33`).  README.md:339 says
  failures of the provider are, and `process_analysis` lists
  `LLMProviderConfigurationError` among the errors it persists.  But that error
  is raised where the service is built, before `process_analysis` and its `try`:
  a worker whose settings name no usable provider takes the message and leaves
  the job queued, without an error.
* **A row taken over** (`observability.py:220`).  Two tests that failed in one
  check run share the row of the first, whose resource is overwritten.
* **A database that is marked as current and is not** (README.md:102).  The
  transitional SQL brings an old database to revision 0001, and `alembic stamp
  head` records 0004: the columns and the table in between are missing, and no
  later upgrade adds them.

Neither database errors nor wrong inputs are needed for any of them.

### Bounds, and why they are enough

* `Jobs`/`MaxRuns`, `MaxRows`: rows a run may create.  Two jobs are needed for a
  collision on a delivery and to tell one job's verdict from another's; the
  actions on a row never look at the other jobs.  The search does look at other
  runs, so `flaky_sequence` has four: two that tie, one that is matched and one
  that repeats its answer.  `Correlations` has three rows for four jobs and the
  observations, so that rows are shared and taken over.
* `Mixed` are two observations: one repeats what is known of a run's check run
  and task, with a log stream; the other gives the pull request the check run of
  two flaky runs, so that rows pass between the two types, and are torn.  With
  two sessions, two request ids and an entry of the sender's, the run reaches
  torn rows, entries lost to an overlap, entries replaced without one, and a task
  id taken away by a dispatch that has none.  No request of the instance gives
  the integer 0; that case is left to the theorems.
* `MaxCopies`: 2 messages per job are one duplicate, which two workers can
  handle at once or one after the other.  A third behaves as the second.
* `RoomForRequest` stops requests that the bounds leave no room for;
  `CHECK_DEADLOCK FALSE` stands in the runs where the table may fill up and
  everything has been answered.
* `TestLimit` and `SuiteLimit` are 10 and 50 in the code; 1 or 2 here, so that
  the limits cut the history off.
* The keys are chosen for the boundaries: `load` and either variant share 3 of 5
  tokens, exactly the suite's 0.6 and a tie between the two; the variants share
  3 of 7, just below the test's 0.5.
* `MaxReceives`: 2, so that a message can be received by both invocations at
  once, or again after a failure of either; `MaxReceivesInAll`: 4, so that two of
  the three messages can be, together or apart.  A batch of 2 is the least in which
  a record has a neighbour, of the same job or the stray one; the code treats
  each record alike and never looks at the others.  `Attempts`: 2 are one retry.
* `PageSize` is 100 in the code; with 2, pull requests of 0 to 4 files have an
  empty, a short, a full, a full and a short, and two full pages.  `Life`,
  `Margin` and `Delay` are 5, 3 and 2, so that a cached token is used for one
  page more and renewed for the next.
* `PoolSize` is 15 in the code (5 and an overflow of 10); with 2, two calls can
  hold all connections while the webhook waits for one on the loop, and a call
  can wait while the webhook and another have them.  The three requests are one
  more than the connections, which is the least in which anybody waits.
* `Failing`: the requests whose dispatch may raise, here the webhook; a call
  takes the same steps, without the loop.
* `Quiet`: the deployment is taken down only when nothing is under way, because
  what happens to a request that is cut off is the subject of the other modules.
  A migration by hand, likewise, is run while no service is up.
* `mishaps` is a set, so that it is bounded without a bound.
* Symmetry is used for processes and jobs, for the two tests of one suite and
  for the two variants, where no definition tells them apart, and only in runs
  without liveness.

### Fairness

`EveryJobSettles` assumes weak fairness of each handler that has begun (the
event loop or the thread runs until it answers) and of each worker (a free
celery process takes a waiting message, and an attempt ends: both outside calls
have timeouts).  Nothing is assumed about *which* outcome an attempt has, nor
about a client or GitHub sending anything.  The run has lost requests, escaped
errors and a worker that can build no service: then the job is `Lost`, which the
property allows and `mishaps` records, because the code has no retry and the
message is acknowledged before the work.  `FlakyTriage` dispatches and
acknowledges in the same way, so the property was not repeated there.

`EveryRequestIsAnswered` assumes weak fairness of each request that came in (the
loop and the threads go on with whatever can go on, and a full pool refuses
after 30 seconds) and of each worker.  It does not assume that a connection
becomes free: the wait for one may have to end by the timeout, and the property
fails if the webhook does not get it (`PoolTimeoutOfCalls`).  The other actions,
of operators and of those who send requests, have no fairness.

## 4. What is proved

The modules whose names end in `Proofs` hold the proofs; the theorems need only
the named assumptions on the constants and the conditions that a theorem states
(`Sequential`, `OneSubjectEach` and the like), and no bound on the number of jobs,
processes, workers, deliveries, observations, rows, messages, files, pages,
requests or connections.

**`PullRequestJobs`.**  `TypeCorrect` first, then `Invariance: Spec => []IInv`.
`IInv` is `TypeOK` and five parts that say what each actor may rely on:

* `RequestInv`: a request beyond the insert works on a stored row that carries
  its delivery id, and beyond the ingest on a row with a correlation;
* `MessageInv`: a message is about a stored, traced row;
* `AttemptInv`: a session may be stale, but only forwards.  If it loaded a
  verdict, the row is no longer queued; if it loaded `completed`, the analysis
  is there; its diff is the loaded one or a patch;
* `RowInv`: a completed row has its analysis, any verdict its correlation;
* `AnswerInv`: what was answered, in terms of the table.

None of the properties is inductive alone: `KeepsContract` and `AnswersAreHonest`
fail in the step of a stale worker unless `AttemptInv` bounds how stale it can
be, and `TraceBeforeWork` depends on what the dispatching request knows.  From
`IInv` follow `DeliveriesAreDeduplicated`, `NoJobIsLostSilently`,
`JobsAreTraced`, `AnswersHold`, `PatchesAreKept` and `ContractIsKept`, the last
being that `PullRequestJobs` implements `JobContract` (initial states map to the
initial state, each step to a step of the contract or a stutter).  The step
lemmas are split by the part of the state that an action writes
(`TableWriters`, `HandlerWriters`, `WorkerWriters`, `BrokerWriters`), so that
each conjunct is only argued for the actions that can disturb it.

`SettledProofs` adds what holds of a job that is `Undisturbed`: published at most
once, with a clear outcome.  `OwnerInv` says that a stored job which was not
published is in the hands of one request, and `QuietInv` that a job which was is
in one place at most, on the broker or with one worker, whose copy of the row is
the row.  From them follow `SettledJobsAreQuiet` and `ErrorsAreConsistent`
whatever else fails, and, when `Faults` has neither redelivery nor unclear
publishes, `VerdictsAreFinal`: the contract with `Final = TRUE`.
`ReadersAreServed` needs only that a completed row has its analysis before the
second statement reads.  `OneProcessHasNoConflict` assumes that there is one
event loop, which is what makes lookup and insert one step of the process.

**`Correlations`.**  Typing lemmas for each function that builds a row, then
`CommitEffect` (a commit appends one row with a fresh id, or changes the
contents of one row and no id), then the theorems `TypeCorrect`,
`IdsLeadToOneRow`, `RecordsAreKept` and `EntriesAreKept`.  `RecordsAreKept` rests
on two facts: `Applied` never turns a value into Null, and `Dispatched` only the
task id, of a job that has none; and `Flush` takes either such a value or the
current one.  `EntriesAreKept` is about the commit of a dictionary that was
merged earlier: an entry that the observation does not give is the one that was
loaded (`Merged`), so that if it changes, what was loaded was out of date.

`RefusalsHaveReasons` says that a commit is turned away for one of the two
reasons of `RefusalsAreExplained` only.  Its invariant `RefusalInv` says what a
session may have in hand (`SaidInv`: what a workflow says of a job it stored, or
an observation from outside), and that the pointers of the rows, and of the
copies that sessions loaded, lead to stored jobs (`AnchorInv`): so no foreign key
refuses what a workflow says of its own job, and an id made up from the length
of the table (`Numbered`) is never taken.

`TearsAreOfOverlaps` assumes nothing about what requests say, so that a pull
request and flaky runs may share a check run and pass a row between them.  A row
*agrees* when the pointer of its type is its key.  What is applied to a copy
that agrees agrees again (`CommittedAgrees`): an observation that names type, key
and pointer alike writes them together; one that names the key 0 is the
exception, since `or` writes no key but `is not None` writes the pointer, and its
commit is refused, because no job has that key.  And a copy whose four columns
are those of the row is written whole.

`LoneJobsAreTraced` does need a condition, `OneSubjectEach(subject)`: names that
occur together in one request have the same subject, resources that share a
subject share it with all that their rows can be torn into (the type of one, the
key of another), and a job that shares its check run with no other has a subject
to itself.  Without it an observation from outside may give the check run, the
task or the key of a job to another resource, and then its row is rightly that
resource's.  `SubjectInv` is what follows: each row, each copy that a session
loaded and what it is about to write are about one subject, torn or not, and so
nothing takes over the row of a job that is alone.  `OneSubjectEach` is a
condition on constants; `MCCorrelations` assumes it for the subjects of its
instance (`SubjectsAssumption`), so that TLC evaluates it in the runs, whose pull
request and two flaky runs of one check run share a subject.

**`Deployment`.**  `TypeCorrect`; `LinesCarryTheirRequest` and `TracesArrive`, from `FlowInv`:
the context of a request is that of its phase (`AtRequest`, `InHandler`), the
context of a worker is that of its job (`InTask`), and a message carries the
names of its request.  `RefusalsComeInTime`, from `OutcomeInv`: a request that has
called the broker holds its connection until its last commit, so that the pool
cannot turn it away in between.  `LeaveUndoesEnter` is the lemma behind it: leaving a
binding restores what was there, so that bindings nest.

The proofs about the schema are in `SchemaProofs`.  The four revisions have
thirteen statements, which it numbers; `At(i)` is the schema after the first `i`.
`Scripts` says that each upgrade is a stretch of these numbers and each downgrade
the same stretch backwards, statement by statement (`Matches`), and
`NextStatement` that the database accepts the statement at hand, which takes it
to the next number, up or down.  `SchemaInv` is where a run stands:
between two revisions, its place in the script, and what a rollback restores.
`MigrationsApply` follows, and with `ServingInv` (services run on the newest
revision; a migration beside them has nothing to do)
`ServicesSeeTheirSchema`: the schema the services see is `Declared`, the one of
the models, because `At(13)` is.

**`SqsDispatch`.**  `TypeCorrect`, `AcceptedIsStarted` and
`DuplicatesAreCounted`, from an `IInv` of `TypeOK`, the second property and five
parts: what is held was sent and names a machine (`SentInv`); one request
dispatches a job, and finds nothing sent (`RequestInv`); the records before
`next` have been started (`BatchInv`); the executions of a message and the
invocations that may still start it (`Open`) are together no more than its
receipts and the attempts that the client repeated (`StartInv`); and all its
receipts have been spoilt, except for one that is being worked on (`SpoiltInv`).  The last two add up to the bound on
duplicates: a start moves an invocation from `Open` to the executions and counts
what it repeats, a receive adds one to both sides, and a message becomes visible
again only when its newest receipt is spoilt or SQS delivers it again.  The set of invocations is assumed finite
(`LambdasAssumption`), because they are counted.

**`PatchFetch`.**  `TypeCorrect`, and `TokensAreGood` from `OnTheWay` (a request
is on its way for at most `Delay`, and its token is good for longer).
`QuietFetchesAreExact` rests on `QuietInv` (what was read is the pages before this
one), `PageProperties` (a page appended to the pages before it makes one more,
and a short one completes the list) and `PatchesKept`: the loop over the files
returns exactly those with a patch, in their order, for a list of any length.
That is an induction over the list.  It is made without the induction theorems,
from the least number at which a statement fails: `LeastNumber`, which follows
from the well-foundedness of the subsets of a finite set.

`SlipsAreFew` counts.  Of the files that stay, `Missed` are those on the pages
that were read but not among what was read, `Again` those that were read twice,
and `Due` those that were read and stand on a page that is still to come.  A
file that is taken out moves one file at most across the end of what was read,
out of the pages to come, and one that is put in moves one at most the other way
(`PushPositions`), so that `Missed` has no more than `removals` and `Again` and
`Due` together no more than `additions` (`SlipInv`).  Reading a page
(`PagePositions`) turns what is due into what was read again and misses nothing
more.  This needs that GitHub lists a file of a pull request once, which
`FilesAssumption` says of the lists a fetch may start with.

**`FlakyTriage`.**  `Invariance: Spec => []IInv`, where `IInv` is `TypeOK` and

* `RowInv`: the key of a row `Fits` it: the LLM proposed it for a run of the same
  suite, and proposed for this run the key or one that shares half of all tokens
  with it; a completed row has a key;
* `StoredInv`: requests and messages are about stored rows;
* `SessionInv`: a session is stale only forwards, every key it holds from the
  history was proposed for its suite, and the key it is about to save fits;
* `LoopInv`: the loop has gone over the newest of the listed runs and has the
  best of them (`IsBest`).

`ClustersStayInSuite` is not inductive alone: a key that a session has loaded
reaches a row later, so that what is held must be grounded as well.  The answer
that grounds it is that of a run of the suite, which a reuse passes on, so that
the chain of reuses does not matter; `ReuseIsJustified` compares with the run's
own answer, which no later reuse replaces.  `MatchesShareHalf` gives the half
(and that a match is not the column's default, from `TokensAssumption`), and
`Round`, with the transitivity of `CloserThanAll`, that a round keeps `IsBest`.
From `IInv` follow `TypeCorrect`, `ClustersAreOfTheSuite`, `ReusesAreJustified`,
`TheBestIsFound` and `ContractIsKept`: a commit of a stale session is a step of
`JobContract`, because `Flush` does not write the columns it has not changed.

`SameAnswersMeet` is the action property `SameAnswerSameCluster`, under
`Sequential`: one worker, no publish that raises after the broker took the
message, no redelivery, and a `TestLimit` that is not 0.  Requests and the
worker may die.  `OnceInv` says that a run is
in one place at a time, with its request, on the broker or with the worker,
that it has no key until the worker leaves it, and so that the LLM answers once
for each run.  `RepeatInv` follows the search of a run whose previous run of the
same test got the same answer (`Repeats`): the first query finds that run and no
other (`PreviousIsFound`: it is the newest of the history, its key is justified
by the common answer, and half of the tokens suffice), so a worker that searches
on has met none, and one that saves has its key.  An answer without tokens is
not searched for, and `NamelessInv` says that such a key was never exchanged.

Every safety property of a passing run is thus a theorem.  Only model-checked:
`EveryJobSettles` and `EveryRequestIsAnswered`.  Liveness under fairness is
beyond the prover and stays with TLC.

## 5. What the properties do not say

* `RowsTearInOverlapsOnly` does not say that rows are never torn: where a pull
  request and a flaky run share a check run, two commits that took the row over
  from the same reading write `resource_type`, `resource_id` and the pointers
  only where they differ from it, and may leave the type of one with the key of
  the other.  It says that nothing but such an overlap, or an observation that
  is at odds with itself, does this.
* `LoneJobIsTraced` is about jobs that share their check run with no other and
  whose check run no observation gives to another resource (`OneSubjectEach`),
  and whose dispatch returned a task id.
* `NothingIsErased` allows one loss: `record_dispatch` assigns the task id it was
  given, which may be none.
* Two runs that are triaged at the same time may end in different clusters:
  neither search sees the other's result.  `SameAnswerSameCluster` is stated for
  one worker; with two, nothing of the kind holds, and nothing in the repository
  says that it should.
* `EntriesAreLostInOverlapsOnly` does not say that no entry of `event_metadata`
  is ever lost.  Of two observations that overlap, the entries of one may be; and
  every observation replaces the `request_id` of the one before it, because the
  middleware binds one for each request.
* `RefusalsAreExplained` allows the commit that the unique index turns away; it
  says which two situations lead to it.
* `SlipsAreBounded` is about files that stay.  One that is taken out or put in
  during the fetch may be in the bundle or not.
* The order of `analyses[-1]` (`api/routes.py:199`) is outside the model.
* A broker that loses what it accepted, and a database that loses what it
  committed, are not modelled; nor is any failure of isolation below READ
  COMMITTED.

## 6. Plan

In this order, the most important first:

1. `PullRequestJobs` with `JobContract`, its runs and proofs (done).
2. `Correlations`, its runs and proofs (done).
3. `FlakyTriage`, its runs and proofs (done).
4. `SqsDispatch`, its run and proofs (done).
5. `PatchFetch`, its run and proofs (done).
6. What a record that always fails does to the others of its batch, once the
   repository says how often a message is delivered.
7. `LogContext`, `ApiProcess`, `SchemaMigrations` and `Deployment`, their run and
   proofs (done).
8. Proofs under an assumption on what befell a job: `SettledOnce`,
   `ErrorMatchesStatus`, `KeepsFinalContract`, `NoConflict`, `LoneJobIsTraced`,
   `SameAnswerSameCluster` (done).
9. What the two liveness properties rest on and can be proved: that every step
   under fairness brings a job, or a request, closer to its end, and that a
   request that waits for a connection waits for one that is held.

## 7. Not modelled

* `app/core/config.py` reads the environment once.  What a step depends on is a
  constant of the module of that step (`Llm`, `Settings`, `LogGroup`).
* `infra/step-functions` names a Lambda that the repository does not have, so
  what an execution does is unknown.
* `examples/github-actions/flaky-triage-forwarder.yml` is a client; a request it
  sends is any request.
* `.github/workflows/ci.yml` and the `Makefile` run commands and keep no state.
* Prompts, the parsing of answers, the signing of tokens, the comparison of
  signatures and the layout of log lines are computations on text without state;
  where one may fail, its failure is a choice of the model.
