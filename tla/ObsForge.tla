------------------------------ MODULE ObsForge ------------------------------
(***************************************************************************)
(* ObsForge at run time: the API process (EnrichmentService) and the arq   *)
(* workers (EnrichmentWorker) share the enrichment_job table and the arq   *)
(* queue, and the workers fill the obscore table.                          *)
(***************************************************************************)
EXTENDS EnrichmentWorker, EnrichmentService, Integers

CONSTANTS Calls,  \* the routes the clients use
          Faults  \* what may go wrong

AllCalls == {"register", "get", "abort"}

\* "recoverable_crash" is a worker that dies while arq has a try left for its job;
\* "retry" stands for an enrichment step that raises arq's Retry: the worker
\* handles it, and no step of this repository raises it yet.
\* "enqueue_unanswered" and "id_not_recorded" are the failures of a POST that leave
\* an arq job of which no row knows.
AllFaults == {"worker_crash", "recoverable_crash", "api_crash", "shutdown",
              "timeout", "retry", "enqueue_error", "enqueue_unanswered",
              "id_not_recorded", "abort_timeout", "redis_error", "database_error"}

ASSUME ObsForgeAssumption == Calls \subseteq AllCalls /\ Faults \subseteq AllFaults

vars == <<job, arq, run, obscore, req, reply>>

TypeOK == StoreTypeOK /\ ArqTypeOK /\ WorkerTypeOK /\ ServiceTypeOK

Init == StoreInit /\ ArqInit /\ WorkerInit /\ ServiceInit
-----------------------------------------------------------------------------
Api(step) == step /\ UNCHANGED <<run, obscore>>

\* A client sends a request.
Arrive(r, v) ==
  \/ "register" \in Calls /\ Register(r, v)
  \/ "get" \in Calls /\ Get(r, v)
  \/ "abort" \in Calls /\ Abort(r, v)

\* A request in flight performs its next await.
Continue(r) ==
  \/ Enqueue(r)
  \/ SetArqJobId(r)
  \/ GetStatus(r)
  \/ GetSucceeded(r)
  \/ AbortRequest(r)
  \/ AbortResult(r)
  \/ AbortMarkFailed(r)

RequestDatabaseError(r) ==
  \/ "register" \in Calls /\ \E v \in Visits : RegisterUnanswered(r, v)
  \/ SetArqJobIdUnanswered(r)
  \/ AbortMarkFailedError(r)

RequestFault(r) ==
  \/ "enqueue_error" \in Faults /\ EnqueueError(r)
  \/ "enqueue_unanswered" \in Faults /\ EnqueueUnanswered(r)
  \/ "id_not_recorded" \in Faults /\ SetArqJobIdError(r)
  \/ "abort_timeout" \in Faults /\ AbortTimeout(r)
  \/ "redis_error" \in Faults /\ (GetError(r) \/ AbortError(r))
  \/ "database_error" \in Faults /\ RequestDatabaseError(r)
  \/ "api_crash" \in Faults /\ ApiCrash(r)

ApiStep(r) ==
  \/ \E v \in Visits : Arrive(r, v)
  \/ Continue(r)
  \/ RequestFault(r)
-----------------------------------------------------------------------------
\* What the worker does by itself, once arq has handed it a job.
Proceed(a) ==
  \/ RunMarkExecuting(a)
  \/ Enrich(a)
  \/ RunMarkCompleted(a)
  \/ Return(a)
  \/ RunMarkFailed(a)
  \/ Finish(a)

\* What arq does to a job that no run is working on.
Dispatch(a) ==
  \/ StartRun(a)
  \/ RefuseRun(a)
  \/ InProgressExpires(a)
  \/ Expire(a)

RunFault(a) ==
  \/ EnrichFails(a)
  \/ "retry" \in Faults /\ EnrichRetries(a)
  \/ "database_error" \in Faults /\ DatabaseError(a)
  \/ \E why \in {"shutdown", "timeout"} \cap Faults : Cancel(a, why)
  \/ "worker_crash" \in Faults /\ WorkerCrash(a)
  \/ "recoverable_crash" \in Faults /\ arq[a].tries < MaxTries /\ WorkerCrash(a)

WorkerStep(a) == Proceed(a) \/ Dispatch(a) \/ Cancel(a, "abort") \/ RunFault(a)
-----------------------------------------------------------------------------
Next ==
  \/ \E r \in Requests : Api(ApiStep(r))
  \/ \E a \in ArqIds : WorkerStep(a) /\ UNCHANGED req /\ reply' = NoReply

Spec == Init /\ [][Next]_vars

\* asyncio, FastAPI and arq run what is ready and Redis expires what is due;
\* clients, aborts reaching a run, and faults owe nothing.  Enqueue is strongly
\* fair because only the finite ArqIds can disable it: a UUID is always at hand.
Fairness ==
  /\ \A r \in Requests : WF_vars(Api(Continue(r))) /\ SF_vars(Api(Enqueue(r)))
  /\ \A a \in ArqIds :
       WF_vars((Proceed(a) \/ Dispatch(a)) /\ UNCHANGED req /\ reply' = NoReply)

FairSpec == Spec /\ Fairness

\* A request that has written, or is to write, the row of its visit.
IsWriting(r) ==
  req[r].pc \in {"enqueue", "set_arq_job_id", "abort", "abort_result", "mark_failed"}

\* Clients that wait for the answer of one POST or DELETE for a visit before they
\* send the next; they GET, and register other visits, as they like.
OneWriterEach ==
  \A r, q \in Requests :
    IsWriting(r) /\ IsWriting(q) /\ req[r].visit = req[q].visit => r = q

SerialSpec == Init /\ [][Next /\ OneWriterEach']_vars
-----------------------------------------------------------------------------
IsOpen(v) == Exists(v) /\ job[v].phase \in OpenPhases

IsLive(a) == arq[a].status \in {"queued", "in_progress"}

\* Attempts whose work on the visit is still to be done.
Attempts(v) ==
  {a \in ArqIds : Visit(a) = v /\ (arq[a].status = "queued" \/ run[a].pc \in TryBlock)}

(* A success that arq stores, which is what GET shows for a row it finds     *)
(* open, is never ahead of the database: mark_completed commits before the   *)
(* function returns, and no late writer takes COMPLETED away again.          *)
SuccessIsDurable ==
  \A a \in ArqIds :
    arq[a].result = "success" => Exists(Visit(a)) /\ job[Visit(a)].phase = "COMPLETED"

(* A client that is told COMPLETED, by GET through the row or through the    *)
(* arq overlay, or by a repeated POST, may query the records: the row says   *)
(* COMPLETED and the obscore table holds them.                               *)
CompletedAnswerIsTrue ==
  reply # NoReply /\ reply.status = "COMPLETED" =>
    job[reply.visit].phase = "COMPLETED" /\ reply.visit \in obscore

(* DELETE answers 204 only when the arq job it aborted can do no more work:  *)
(* it is not queued, no run of it is left, and no crashed run of it will be  *)
(* started again.                                                            *)
AbortStopsTheWork ==
  reply # NoReply /\ reply.status = "aborted" =>
    ~IsLive(reply.arq) /\ At(reply.arq, "none")

(* No visit is forgotten: while its row is open, an arq job will still work  *)
(* on it, or a request is about to enqueue one or to record its abort.       *)
NoVisitIsLost ==
  \A v \in Visits : IsOpen(v) =>
    \/ \E a \in ArqIds : IsLive(a) /\ Visit(a) = v
    \/ \E r \in Requests :
         req[r].visit = v /\ req[r].pc \in {"enqueue", "abort_result", "mark_failed"}

\* What a client can do about a row that nobody works on: POST enqueues a job for it
\* again, or DELETE asks arq about the job it names, records the abort once arq has
\* forgotten that job, and POST starts afresh.
CanReopen(v) == ShouldEnqueue(job[v]) \/ job[v].arq_job_id # None

(* A request that fails half-way does not strand its visit: an open row that *)
(* no arq job will work on and no request sees to is never one that POST and *)
(* DELETE both refuse, EXECUTING with no arq job id.  (Where clients send    *)
(* DELETE, a POST that stops before Redis has its job is the exception.)     *)
NoVisitIsStranded ==
  \A v \in Visits : IsOpen(v) =>
    \/ \E a \in ArqIds : IsLive(a) /\ Visit(a) = v
    \/ \E r \in Requests : req[r].visit = v /\ req[r].pc \in {"enqueue", "mark_failed"}
    \/ CanReopen(v)

(* Registering a visit that already has an attempt under way does not start  *)
(* a second one, however often it is registered.                             *)
OneAttempt == \A v \in Visits : \A a, b \in Attempts(v) : a = b

(* DELETE answers "Queued job not found" only when no attempt at the visit   *)
(* is left in arq.                                                           *)
AbortFindsTheJob ==
  reply # NoReply /\ reply.status = "queued_job_not_found" => Attempts(reply.visit) = {}

(* The arq job a row names is the one that is live: when that job is over,   *)
(* but not by success, and the row is still open, GET overlays ERROR, so no  *)
(* other attempt may be under way.                                           *)
OverlayIsLive ==
  \A v \in Visits : IsOpen(v) /\ job[v].arq_job_id # None =>
    (arq[job[v].arq_job_id].result \notin {None, "success"} => Attempts(v) = {})

\* A bound on the steps still to be taken with an arq job, from what Redis holds of
\* it and from its run: those of the try under way and of the tries it has not used.
TryLeft == [none |-> 4, finally |-> 6, mark_failed |-> 8, committed |-> 10,
            mark_completed |-> 12, enrich |-> 14, mark_executing |-> 16]

WorkLeft(j, k) ==
  LET newTries == 16 * (MaxTries - j.tries)
  IN CASE j.status = "unknown"     -> 0
       [] j.status = "complete"    -> 1
       [] j.status = "queued"      -> newTries + 2
       [] j.status = "in_progress" ->
            newTries + TryLeft[k.pc] - (IF k.outcome \in Cancellations THEN 1 ELSE 0)

(* Whatever fails, an arq job wears out: retries, shutdowns, crashes and     *)
(* expiring keys may send it back to the queue, but every step arq or a run  *)
(* takes with it leaves less to do, so that it cannot go round for ever.     *)
JobsWearOut ==
  [][\A a \in ArqIds : arq[a].status # "unknown" =>
       \/ arq'[a].status = arq[a].status /\ run'[a] = run[a]
       \/ WorkLeft(arq'[a], run'[a]) < WorkLeft(arq[a], run[a])]_vars

(* Every registered visit is eventually COMPLETED or ERROR.                  *)
VisitsSettle == \A v \in Visits : IsOpen(v) ~> (Exists(v) /\ ~IsOpen(v))
-----------------------------------------------------------------------------
Ledger == INSTANCE VisitLedger WITH Errors <- ErrorCodes,
                                    account <- Account,
                                    catalogued <- obscore

(* The database, whatever the requests, the workers and their failures do,   *)
(* implements the ledger: no step skips a phase, undoes COMPLETED, completes *)
(* a visit whose records are missing, or replaces the error of a failure.    *)
ImplementsLedger == Ledger!Spec
=============================================================================
