# A TLA+ model of ObsForge

ObsForge registers visits of the Rubin telescope over HTTP, enqueues one
enrichment job per visit in arq (Redis), and
lets arq workers export the visit's ObsCore records from a Butler repository
into PostgreSQL.  These modules model the job table, the queue, the API requests
and the worker runs; below them the transactions of both tables and the export
of one visit; and around them the processes and the schema they share.
TLC checks them on small instances and TLAPS proves what matters most for every
instance.  Paths below are relative to the repository root.

## 1. Inventory

| Component | Code | State | Operations | What makes it correct |
|---|---|---|---|---|
| Enrichment job store | `src/obsforge/storage/enrichment.py`, `schema/enrichment_job.py` | one `enrichment_job` row per (instrument, visit): phase, error, arq job id, times, payload | `add_or_get(_internal)`, `get*`, `set_arq_job_id_and_mark_queued`, `mark_queued`, `mark_executing`, `mark_completed`, `mark_failed`, all guarded UPDATEs at REPEATABLE READ with retry | a row's columns tell one story; COMPLETED is final; ERROR keeps its error until re-registered |
| Queue adapter and arq | `src/obsforge/storage/arq.py`; arq, Safir | Redis: job, in-progress key, tries, abort request, result | `enqueue`, `abort` (5 s), `status`, `succeeded`; arq's start, retry, put back, fail, expire | a confirmed abort is final; a stored success is true |
| Enrichment service and routes | `src/obsforge/services/enrichment.py`, `handlers/external.py` | the local state of each request | POST `/register`, GET and DELETE `/jobs/{id}` | idempotent registration, truthful answers, no visit lost |
| Worker function | `src/obsforge/worker/functions/enrichment.py` | the local state of each run | `run_enrichment`: mark_executing, `enrich_visit`, mark_completed, and the except clauses | the row ends COMPLETED only after the records are committed, and ends at all |
| Worker process | `src/obsforge/worker/main.py` | shared context, session factory | `startup`, `shutdown`, arq settings | a run has its context and sessions from its start until it has recorded its end |
| ObsCore store, service | `src/obsforge/storage/obscore.py`, `services/obscore.py`, `schema/obscore.py` | one `obscore` row per `obs_id` | `upsert`, `upsert_many`, `get_by_obs_id` | a batch is all or nothing, whoever else writes its rows, and every call returns |
| dax_obscore adapter | `src/obsforge/adapters/obscore.py` | an `ExporterConfig` shared by all runs, and their copies | `iter_visit_records` | all the registered datasets of the configured type, and no others |
| API process | `src/obsforge/main.py` | session and queue pools | `lifespan` | serves only on a whole schema and with its pools open |
| Command line, migrations | `src/obsforge/cli.py`, `alembic/` | tables, and the revision in `alembic_version` | `init`, `update-schema`, `validate-schema` | a current revision means whole tables; what a dead command leaves can be repaired |
| Models, configuration, exceptions, internal route | `src/obsforge/models.py`, `config.py`, `exceptions.py`, `handlers/internal.py` | none | validation, serialization | - |

The API process and the workers never talk to each other: they share the row
and the arq job, and each step of one may fall between any two steps of the
other.  What is hard:

* **Three stores of truth.** The row, the arq job and the obscore table change
  in separate transactions.  `register_visit` commits the row, enqueues, then
  records the arq id; the worker may run in between, or the API may die.
* **No fencing.** A run knows the row's id, not whether the row still belongs
  to its arq job.  After a re-registration an old run and a new one write the
  same row.
* **One CancelledError, three causes.** An abort, a worker shutdown and a job
  timeout all arrive as a cancellation, at any await, `mark_failed` included.
* **Idempotent transitions.** A guarded UPDATE that matches nothing is accepted
  when the phase is already past it.
* **Redis keys expire.** A dead worker's in-progress key, and every result.
* **Row locks in batch order.** Two batches that name the same `obs_id`s lock
  them in different orders, deadlock, and are retried.
* **Shared configuration.** Exports run in threads and configure one
  `ExporterConfig` object, of which each must take a copy.
* **A revision is only a number.** `init` creates tables and stamps in two
  transactions, `create_all` never alters a table, and the API checks nothing
  but the revision.  The worker does not even check that.

`PROJECT.json` lists each hazard at its line with the properties that cover it.

## 2. Modules

| Module | Models |
|---|---|
| `Identities` | the names the others share: visits, arq job ids, `None` |
| `EnrichmentJobStore` | the table; one operator per transaction; `StoreSpec` lets any caller run them in any order |
| `EnrichmentJobTransactions` | the same methods attempt by attempt: snapshot, statement, commit, conflict, lost connection, retry |
| `ArqQueue` | what Redis holds about an arq job, the service's calls and the worker's side (external: arq 0.28 with Safir) |
| `EnrichmentWorker` | `run_enrichment` for each arq job in progress |
| `EnrichmentService` | the requests of the three job routes |
| `ObsForge` | both processes over the shared stores, the faults, fairness, and the properties of the whole |
| `VisitLedger` | the abstract specification, of `ObsForge` and of `VisitExport`: what a client may rely on about a visit |
| `ObsCoreTable` | the ObsCore table, its records and batches |
| `ObsCoreService` | the abstract specification of `upsert_many`: a batch is written in one instant or not at all |
| `ObsCoreTransactions` | `upsert`, `upsert_many` row lock by row lock: snapshot, deadlock, conflict, commit, lost acknowledgement, retry |
| `VisitExport` | `enrich_visit` and the adapter: which datasets a run selects and what becomes of them; extends the store |
| `Deployment` | the commands, the migrations, and the life of the API and the worker process |
| `MCObsForge`, `MCObsCore`, `MCVisitExport`, `MCDeployment` | symmetry and constants for TLC |
| `EnrichmentJobStoreProofs` | theorems about the store |
| `EnrichmentJobTransactionsProofs` | the methods implement the atomic transactions |
| `ObsForgeInvariant` | the inductive invariant and the frame lemmas |
| `ObsForgeProofs` | each action keeps it; the safety theorems, the two refinements and the measure of an arq job |
| `ObsForgeAttemptsProofs` | who works on a visit: the theorems about `NoVisitIsLost`, `OneAttempt`, `OverlayIsLive` and `NoVisitIsStranded` |
| `ObsCoreTransactionsProofs` | the upserts implement `ObsCoreService` |
| `VisitExportProofs` | what is exported; the exports implement `VisitLedger` |
| `DeploymentProofs` | schema and resources |

`ObsForge` composes store, queue, service and worker.  Two of its steps are
opened up elsewhere: a transaction of the job table in
`EnrichmentJobTransactions`, and the enrichment of a run, whose only effect in
`ObsForge` is `Publish`, in `VisitExport`, whose `Upsert` in turn is a call of
`ObsCoreTransactions`.  Both `ObsForge` and `VisitExport` implement `VisitLedger`,
through the same map from a row to what a client learns of it (`Account`, in
`EnrichmentJobStore`).  A visit is catalogued in `ObsForge` when its upsert has
committed, and in `VisitExport` when every dataset it is owed is in the table: visits
share datasets, so the run of one may complete the catalogue of another, and the
ledger lets the catalogue grow in any step.  `Deployment` stands beside them: there a request or a run
is only something that needs the schema and its pools.

Correspondence of the state:

* `job[v]` is the row of visit `v` or `NoRow`.  (instrument, visit) is unique
  and rows are never deleted, so a visit also stands for the integer job id.
  `started_at` and `completed_at` are kept as "is set"; `error_code` is one of
  four kinds.  Payload, `day_obs`, messages and the remaining times are left out.
* `arq[a]` is the arq job with id `a`: status, visit (its argument), tries,
  abort request, result.
* `run[a]` is the run of job `a`: the await it is about to perform, and in an
  except clause the error to record and what arq will see.
* `obscore` is the set of visits whose records have been committed.
* `session[c]` (`EnrichmentJobTransactions`) is the database session of one
  caller: the method it is in, its attempt, its snapshot of the row and whether
  that has been overtaken by another commit.  `applied` and `disturbed` are
  history, read by no action.  A session at "commit" holds the lock of its row.
* `req[r]` is the request in slot `r`: the await it is about to perform and the
  local variables it carries over it.  `reply` is the response leaving in the
  last step; it is `NoReply` after every other step and exists for the
  properties.
* `session[c]` (`ObsCoreTransactions`) is the session of one run: the rows of
  its batch it has written and therefore locked (`taken`), and the rows others
  have committed since its snapshot (`overtaken`).  The columns beside `obs_id`
  are always written together and are one content.
* In `VisitExport` a dataset stands for its id and for the `obs_id` of its
  record.  `config[Shared]` is the object in the arq context, which selects every
  dataset of its types, and `config[n]` the copy of run `n`.  A run of a visit may start at any time and any number of
  times: every delivery arq can make.  `known`, the registered datasets the
  Butler held at the first registration, and `dropped`, the visits opened with
  datasets their row does not list, are history.
* In `Deployment` `version` is the revision (the number of migrations applied)
  and `parts` what exists of what the migrations add: two tables and a column.
  `api` and `worker` say which step of `lifespan`, `startup` or `shutdown` comes
  next and which resources are open.  A request in `requests` has been admitted;
  in `recording` it has enqueued its job and is about to record the id, and still
  needs its session.  `accepted`, the jobs enqueued by this release, is history: an
  earlier release may have left others in Redis.  So is `misused`: a plain `init` has
  met the table of an earlier release, which `create_all` leaves without its column,
  and no reset or migration has made up for it since.

In `ObsForge` a step is the code between two awaits on the database or on
Redis, and each transaction is one step: both processes open their sessions at
REPEATABLE READ and each writing method is wrapped in
`retry_async_transaction`, so a transaction that loses a race is rolled back and
run again on the new row.  `EnrichmentJobTransactions` looks below that step
and is proved to implement it.

Each await of a request may also fail, which ends the request with a 500
(`server_error`), and each failure is one of two: nothing happened, or it happened
and the answer was lost.  For `register_visit` that is `RegisterUnanswered`,
`EnqueueError` and `EnqueueUnanswered`, `SetArqJobIdError` and
`SetArqJobIdUnanswered`; for GET and DELETE `GetError`, `AbortError` and
`AbortMarkFailedError`.  `ApiCrash` ends a request without an answer.  A run whose
transaction fails for good is `DatabaseError`.

A cancellation reaches a run once: a shutdown or a timeout that comes while the run
records an earlier abort is not modelled.  One that comes before the run enters its try
block, where it waits for its session, leaves nothing in the row.  `committed`, the return of `mark_completed`
after its commit, is a step of its own because a cancellation there is recorded
(and rejected) on a COMPLETED row.

What is assumed of PostgreSQL at REPEATABLE READ: the first statement takes the
snapshot; an UPDATE of a row that has changed since, and an INSERT that meets a
row committed or changed since, is a serialization failure; a row lock is held
until the end of the transaction.  Of Safir's `retry_async_transaction`: any
DBAPI error, a lost connection included, runs the method again, three times in
all by default; the last error is raised ("failed").  `add_or_get` is wrapped
twice, which only raises its number of attempts; the theorem holds for any.
An invalid transition is not a DBAPI error and is not retried.

What is assumed of arq 0.28: an abort request makes a queued job fail with
`CancelledError` when it is next taken up and cancels a running one;
`Job.abort` returns True on `CancelledError` or when no job and no result are
left, False on success, and raises any other stored exception, where the
`TimeoutError` of a job that ran too long is what `EnrichmentQueueStore.abort` takes
for its own five seconds (False); a job taken up
more than `max_tries` times fails without being called; `Retry`, and a
cancellation nobody asked for, put the job back; the in-progress key of a dead
worker expires and the job is taken up again; results expire after an hour.
Jobs are taken up in any order.  A worker that is stopped ceases to poll, cancels
its runs, waits for them and calls `shutdown`, which it also does when `startup`
raises.

What is assumed of the rest: INSERT ... ON CONFLICT locks the rows in the order
of the batch, and a row committed since the snapshot is a serialization failure;
PostgreSQL ends a deadlock by failing one of its sessions.  `create_all` and
Alembic's `upgrade` each run in one transaction, and a migration fails when what it
adds exists or the table it alters does not.  The Butler only gains datasets.
The exporter yields one record for each dataset its config selects and the Butler
holds.  Uvicorn stops accepting and waits for the requests in flight before it
resumes `lifespan`.

## 3. Runs

| Run | Question | Faults |
|---|---|---|
| `transactions` | `AtomicTransactions`: every commit is a transaction of `StoreSpec`; `RowsConsistent`, `FinalRowsStand`, `RepeatedCallsAgree`; `CallsReturn`: every call ends | conflict, lost connection, lost acknowledgement |
| `faults` | `TypeOK`, `SuccessIsDurable`, `AbortStopsTheWork`; `ImplementsLedger`: every step is a step of `VisitLedger`; `JobsWearOut`: every step with an arq job leaves less to do with it | worker and API crash, shutdown |
| `settles` | `NoVisitIsLost`, `VisitsSettle` with failing and aborted enrichments | worker crash at any step while a try is left |
| `stranded` | `NoVisitIsStranded`: no open visit is left that POST and DELETE both refuse; `CompletedAnswerIsTrue` with GET | Redis's answer to an enqueue lost, arq id not recorded, abort timeout, worker crash while a try is left |
| `serial` | `OneAttempt`, `OverlayIsLive`, `AbortStopsTheWork` with two clients that take turns at writing (`SerialSpec`) | Retry, job timeout, abort timeout, enqueue refused, Redis error in GET or DELETE, database error |
| `upserts` | `AtomicUpserts`: every step is one of `ObsCoreService`; `UpsertsReturn`: every call ends | deadlock, conflict, lost connection, lost acknowledgement |
| `exports` | `CompletedIsExported`, `OnlyRegisteredExported`; `ExportsImplementLedger`: every step is a step of `VisitLedger` | failing and dying runs, any redelivery |
| `deployed` | `CurrentIsComplete`, `SchemaIsRepairable`, `RequestsAreEquipped`, `RunsAreEquipped` on a database of any release and under any commands | dying commands, API and worker |

*Bounds.*  All runs have one visit except `exports`, where visits share datasets;
otherwise they do not interact.  Those of `ObsForge` have two arq ids, an old
attempt beside a new one.  The ids are reused once neither arq, a row nor a
request knows them, so behaviours are unbounded although the state space is
finite.  They have two request slots: every race between
two clients, and a slot that a crash frees lets a third one in.  In `serial` a client
waits for the answer of one POST or DELETE before another goes on to write
(`OneWriterEach`); GET, and a POST that only reads, come at any time.
`MaxTries` is 2: a first try and a last one.  `TypeOK` is where
the tries are bounded by `MaxTries`.  The faults are shared out between the runs to
keep them small; the theorems hold for all of them together.

`transactions` and `upserts` have two sessions and two attempts: one session can
overtake the other before and between its attempts, and the last attempt can
fail.  `transactions` gives `mark_failed` two error codes, which is enough to
tell whose failure a row shows.  `upserts` has two `obs_id`s and every batch of at
most two records, duplicates and both orders included, in which all records have
the same content: enough for a deadlock, and to tell whose batch a row
comes from.  `exports` has two runs and two visits, three payloads (one with wanted
datasets only, one mixed, one with nothing wanted) that they may share, and a Butler that fills up meanwhile.  `deployed` has two operators, so that
any two commands can overlap, and two jobs, one of which may be left from before.
Its four properties except one misuse by name, a plain `init` on the table of an
earlier release, and only from then until a reset or a migration.

The other runs expect a violation, each of a sentence of the documentation:

* `double_enqueue` violates `OneAttempt` with two concurrent registrations:
  both find the row PENDING with no arq id and both enqueue.  `README.md:109`
  calls registration idempotent.  `settles` shows that the visit still settles.
* `abort_misses` violates `AbortFindsTheJob` with a single client and no fault:
  the worker reaches EXECUTING before `set_arq_job_id_and_mark_queued`, which
  then accepts the phase and drops the id; a DELETE answers 404 while the job
  runs.  `README.md:124` ties that answer to the job being gone.
* `dead_overlay` violates `OverlayIsLive`: a registration that records its id
  after its job has failed and another client has requeued the row points the
  row at the dead job, and GET overlays ERROR on a visit with a newer attempt.
* `dropped_datasets` violates `DatasetsPersisted`: registering a visit again
  after an ERROR keeps the payload of the first registration, and the run never
  sees the datasets of the second.  `README.md:104` says that the datasets are
  persisted in `registration_payload`.

Worth knowing, though no document rules it out: a plain `init` on the database of an
earlier release creates the missing table, leaves the existing one without
`arq_job_id` and stamps the newest revision, which `validate-schema` and the API
then accept; a POST that dies, or whose enqueue fails, before Redis has the job leaves
a PENDING row with no job until the visit is registered again; a POST that fails or
dies once Redis has the job leaves a job whose id no row has, so that a client who
registers again, even in turn, gets a second attempt; after an abort timeout a queued
job is dropped later and its row stays QUEUED; crashes that use up the tries
leave the row EXECUTING; an abort that meets a run before its try block leaves it
QUEUED unless the request that asked for it records the failure; an `init` that
dies before its stamp can be repaired only by `init`, since `update-schema`
fails on the tables it finds; a shutdown is recorded as JobAborted and the try arq
makes afterwards is rejected.  `NoVisitIsLost` and `VisitsSettle` are therefore
checked without those faults, and `VisitsStayOwned` excludes them.

`NoVisitIsStranded` asks what is left to a client then.  A row that names an arq job can
be aborted and registered again, one that is PENDING or QUEUED without one can be
registered again; but a row that is EXECUTING without an arq id is refused by both, and
only a run can close it.  It stays so when no run will: the tries are used up by crashes,
or the transaction that records the end of the run fails or is cancelled by a timeout.
Those faults are left out of `stranded` and of its theorem.  Of the others, one
combination leaves such a row behind, and is left out too: a POST that stops before Redis
has its job, and a DELETE of an earlier attempt.  That attempt, tried again, takes the row
which the POST requeued and is cancelled while it records its end; unless the DELETE is
still waiting and records the abort (the property does not count on it), nobody does.

### Fairness

`FairSpec` asks weak fairness of every request's next await, of every run's own
steps and of what arq does with a job that no run holds: asyncio and arq run
what is ready, and Redis expires what is due.  Nothing is asked of clients,
failures, cancellations or faults.  `Enqueue` has strong fairness because only
the finite `ArqIds` can disable it; UUIDs do not run out.

`TransactionsFairSpec` asks weak fairness of every session's next statement, and
strong fairness of `Write`: PostgreSQL queues the waiters of a row lock, so
others cannot take it again and again.  `TransactionsFairSpec` of `ObsCoreTransactions`
asks the same of `Advances`, which takes the next row lock, and weak fairness of all
that needs no fault, deadlock detection included.

### Mutants

Each property of a passing run has a mutant in `PROJECT.json`: a mapped
definition, changed the way a plausible bug would, under which TLC finds the
property violated.  They stand beside the definitions they change, under a
comment "Mutant".

## 4. Proofs

| Theorem | Statement |
|---|---|
| `StoreKeepsRowsConsistent`, `StoreKeepsFinalRows` | `StoreSpec => []RowsConsistent`, `StoreSpec => FinalRowsStand` |
| `TransactionsAtomic` | `TransactionsSpec => AtomicTransactions` |
| `TypeCorrect` | `Spec => []TypeOK` |
| `SuccessStored` | `Spec => []SuccessIsDurable` |
| `CompletedAnswers` | `Spec => []CompletedAnswerIsTrue` |
| `AbortsAreFinal` | `Spec => []AbortStopsTheWork` |
| `LedgerImplemented` | `Spec => ImplementsLedger` |
| `ArqJobsWearOut` | `Spec => JobsWearOut` |
| `StoreImplemented`, `FinalRowsOutlastTheSystem` | `Spec => StoreSpec`, `Spec => FinalRowsStand` |
| `VisitsStayOwned` | `Spec => []NoVisitIsLost`, if `Faults` is within `Recoverable`: worker crashes that leave arq a try, and Retry |
| `OneAttemptEach`, `OverlayTellsTheLiveAttempt` | `SerialSpec => []OneAttempt`, `SerialSpec => []OverlayIsLive`, if `Faults` is within `Ending`: nothing starts a job again (a crash of a worker, a shutdown), and no POST leaves a job whose id no row has (it dies, Redis's answer is lost, the id is not recorded) |
| `NobodyIsStranded` | `Spec => []NoVisitIsStranded`, if `Faults` is within `Survivable`: crashes that leave arq a try, Retry, lost enqueue answers, ids not recorded, abort timeouts, Redis errors; and, if `Calls` has no "abort", API deaths and refused enqueues |
| `RepeatedCallsConsistent` | `TransactionsSpec => []RepeatedCallsAgree` |
| `TransactionsKeepRowsConsistent`, `TransactionsKeepFinalRows` | `TransactionsSpec => []RowsConsistent`, `TransactionsSpec => FinalRowsStand` |
| `UpsertsAtomic` | `TransactionsSpec => AtomicUpserts` |
| `CompletedVisitsAreExported`, `OnlyRegisteredAreExported` | `ExportSpec => []CompletedIsExported`, `ExportSpec => []OnlyRegisteredExported` |
| `LedgerImplementedByExports`, `ExportsUseTheStore` | `ExportSpec => ExportsImplementLedger`, `ExportSpec => StoreSpec` |
| `CurrentSchemasAreComplete`, `SchemasAreRepairable`, `RequestsEquipped`, `RunsEquipped` | `DeploymentSpec => []CurrentIsComplete` and so on |

They hold for any sets of visits, arq ids, requests, sessions, datasets,
operators and jobs, finite or not, any `MaxTries`, `MaxAttempts` and `MaxBatch`,
any `Calls` and, but for the four with a hypothesis on them, any `Faults`.
The hypotheses in the table are not assumptions.  With two clients that write at
once `OneAttempt` and `OverlayIsLive` fail (`double_enqueue`, `dead_overlay`), and so
they do for clients that take turns, after a fault that `Ending` leaves out: the second
POST finds the row PENDING or QUEUED without an arq id while the first job is still to
run, or a job that a crash or a shutdown has put back is taken up beside the next one.
The faults that `VisitsStayOwned` leaves out are those that can leave a row open with
nobody to close it, and `NobodyIsStranded` says which of them leave it to be reopened.

Assumed: `None` is not a visit, an arq id, an error code, an outcome or a result;
`NoRow` is not a row, `NoRecord` not a content, `NoBatch` not a batch, `Unanswered`
not an answer and `Shared` not a run; `MaxTries` and `MaxAttempts` are positive
natural numbers and `MaxBatch` is a natural number; the sets of inputs (`Calls`,
`Faults`, `Methods`, `Codes`, `Inputs`, `Payloads`, `Matching`) are
within what they are drawn from.  Each is a named ASSUME that TLC evaluates.

*The store.*  One lemma per row operator says what it does to each column.
`StoreStepEffect` turns any transaction into a `RowStep` of a single row;
`RowStepConsistent` and `RowStepFinal` then treat rows without the table.

*The transactions.*  A session about to commit is the only one for its row
(`OneWriter`) and has not been overtaken (`SessionInv`), so its snapshot is the
current row and its commit is the atomic transaction on it.  A commit overtakes
only sessions that still have to write, and those will fail.

*The system.*  None of the four safety properties is inductive.  That a stored
success is true depends on the run having returned, on mark_completed having
committed before, and on the enrichment having published before that.  The
invariant `IInv` (`ObsForgeInvariant`) says so for each actor by itself:

* `RunInv(a)`: a run exists only for an arq job in progress of an existing row;
  past the enrichment its records are published, past mark_completed its row is
  COMPLETED, and it leaves by "return" only then;
* `RowInv(v)`: a COMPLETED row has its records, and the arq id in a row was
  enqueued for that visit;
* `RequestInv(r)`: a request holds an existing visit and an arq job of it; the
  phase it carries across an await, if COMPLETED, is still true; past a
  confirmed abort the arq job is over.

The frame lemmas show that an actor a step leaves alone keeps its invariant,
because rows are never deleted, COMPLETED is final, the obscore table only
grows, an arq job that is over does not come back, and a drawn arq id is new.
Each action has one lemma (`ObsForgeProofs`).  `IInv` held as an invariant of
TLC before it was proved.

*The refinements.*  Every step of the system commits one transaction, publishes
records, or leaves the database alone (`StepIsStoreStep`).  So the system implements
`StoreSpec`, as do the transactions below it and the exports beside it, and what was
proved of the store alone holds of all three.  For `VisitLedger` the columns of the
row that moved name the step (`StoreStepEntry`); that "done" carries no error needs
`RowsConsistent`, that its records are there needs `RowInv`, or in `VisitExport` the
invariant of the exports.

*The measure.*  `WorkLeft` bounds what is still to be done with an arq job: the tries
it has not used and the rest of the one under way.  Every step of arq or of a run
lowers it, whichever fault it is; only a new enqueue starts it again.  This is the safety
half of `VisitsSettle`: a job cannot go on for ever.  That it does go on, and that a
visit's job is not replaced for ever, is left to TLC, under fairness.

*The owners.*  `NoVisitIsLost` is not inductive: a run about to finish is live and
need not have closed its row.  `OwnerInv` says who owns an open row: a queued job, an
orphan of a dead worker, a run that has still to record something or will be put
back, a request that will enqueue, or a DELETE whose abort is confirmed and not yet
recorded.  An owner that stops closes the row or hands it on.  `AttemptInv` says why
there is somebody to hand it to: a job that arq will start again has a try left, and
an abort is requested only by a DELETE that still waits for it.

*The single writer.*  `IsBusy(a)` holds of an attempt that may still write the row or
be made again.  `SoleInv(v)`: a visit has at most one; none if the row says ERROR, or
asks for an enqueue that no request is about to make; and if the row names an arq job,
it is that one.  `ClientInv` says the same of what a request holds across its awaits,
before and after the enqueue, whichever of the worker's transactions come in between.
`SerialSpec` keeps the rows of other requests still meanwhile (`WritersKeep`): requests
for other visits and GETs are free to interleave.  A job with a result is not busy,
so the overlay of a failure can only be about the last attempt.

*The stranded.*  `NeedsCare(v)`: the row is EXECUTING without an arq id or, if the
clients send DELETE, open without one.  `CareInv` says that a row EXECUTING without an id
has a job that will close it (`WillClose`), and that no DELETE can have found that job:
no row names it, and DELETE names only jobs it has read from a row (`Unaborted`).  The
second half is why a row that is open without an id counts as well: the run that takes
it to EXECUTING must not be one whose abort has been asked for.  Without DELETE there is
nothing to find, and the invariant only speaks of EXECUTING rows.

*The upserts.*  The invariant is about one session at a time: an idle session
holds nothing, an answered one has stopped, and a statement runs only for a batch
that is not empty and names no row twice.  A commit therefore publishes the whole
batch at once, whatever the locks, deadlocks and attempts before it, and every other
step leaves the table alone.  Row locks decide who commits and when; that nobody
waits for ever is left to TLC (`UpsertsReturn`).

*The exports.*  A run between configuring and exporting has its own copy of the
config, and that copy selects what its visit wants; a run that has exported holds
all of that which was known when the visit was registered; past the upsert it is
in the table, which only grows.  Only such a run marks the row COMPLETED, and a
payload never changes once the row exists.

*The deployment.*  The invariant says which schemas each step of a command may
find: a command about to stamp finds it whole or has misused it, what an earlier release
left is untouched until a migration, a reset or that misuse, and the schema, once whole,
stays so.
The API has read a current revision since it started, and a job of this release
was enqueued by it.

Model-checked only: `VisitsSettle`, `CallsReturn` and
`UpsertsReturn`, because liveness under fairness is beyond the prover; and the
four violations.

## 5. Not modelled

* *Times.*  `created_at`, `updated_at` and the moments `started_at` and
  `completed_at` hold.  `tests/storage/enrichment_test.py:125` asserts that a
  requeue does not set `updated_at` back.  `add_or_get_internal` reads its clock before
  its transaction begins, so with a second writer in between it may; the rows of the
  model carry no times, and nothing else in the code reads that one.
* *Validation and serialization* of requests, settings and records
  (`models.py`, `config.py`), logging, Slack alerts: they keep no state.  What
  they decide for the rest appears as inputs: the datasets of a registration,
  the dataset type, a missing setting as a `startup` that fails.
* *The internal route*, a stateless health check.
* *arq's* job expiry after a day and its health check.
* *`init --reset` under traffic.*  It drops the rows and leaves the arq jobs in
  Redis; the option is documented for development.  Jobs left by an earlier release are
  in `Deployment`, which says nothing of what their runs find.
* *Downgrades and offline migrations*, which the command line does not reach.
