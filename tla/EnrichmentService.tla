------------------------- MODULE EnrichmentService --------------------------
(***************************************************************************)
(* register_visit, get and abort of EnrichmentJobService                   *)
(* (src/obsforge/services/enrichment.py) under the three job routes of     *)
(* src/obsforge/handlers/external.py, as the API process runs them: one    *)
(* request at a time in each slot of Requests, one step per await on the   *)
(* database or on Redis.  A request arrives with its first transaction.    *)
(*                                                                         *)
(* req[r].pc is the await the request is about to perform.  reply is the   *)
(* response that leaves in the last step, NoReply after every other one.   *)
(***************************************************************************)
EXTENDS EnrichmentJobStore, ArqQueue

CONSTANT Requests  \* the requests the API process can have in flight at once

VARIABLES req, reply

\* seen is the phase read by GET before it asks arq about the job.
Request == [pc    : {"idle", "enqueue", "set_arq_job_id", "status", "succeeded",
                     "abort", "abort_result", "mark_failed"},
            visit : Visits \cup {None},
            arq   : ArqIds \cup {None},
            seen  : Phases \cup {None}]

Idle == [pc |-> "idle", visit |-> None, arq |-> None, seen |-> None]

\* The answers: the phase of the job in a 2xx body, "aborted" for the 204 of
\* DELETE, or what went wrong.
Statuses == Phases \cup {"aborted", "unknown_job", "queued_job_not_found",
                         "conflict", "server_error"}

Reply == [call : {"register", "get", "abort"}, visit : Visits,
          arq : ArqIds \cup {None}, status : Statuses]

NoReply == [call |-> "none"]

ServiceTypeOK == req \in [Requests -> Request] /\ reply \in Reply \cup {NoReply}

ServiceInit == req = [r \in Requests |-> Idle] /\ reply = NoReply
-----------------------------------------------------------------------------
Waiting(r, pc) == req[r].pc = pc
IsIdle(r) == Waiting(r, "idle")

Await(r, request) == req' = [req EXCEPT ![r] = request] /\ reply' = NoReply

\* The response leaves and the slot is free again.
Respond(r, call, v, a, status) ==
  /\ req' = [req EXCEPT ![r] = Idle]
  /\ reply' = [call |-> call, visit |-> v, arq |-> a, status |-> status]

Answer(r, call, status) == Respond(r, call, req[r].visit, req[r].arq, status)

\* Mutant: only a job that was never queued is enqueued.
EnqueueOnlyNew(row) == row.phase = "PENDING" /\ row.arq_job_id = None

\* Mutant: a job that already has an arq job is enqueued again.
EnqueueAnyway(row) == row.phase \in {"PENDING", "QUEUED"}

ShouldEnqueue(row) == row.phase \in {"PENDING", "QUEUED"} /\ row.arq_job_id = None

\* arq draws a UUID: no row, request or job has it.
Fresh(a) ==
  /\ arq[a] = Unknown
  /\ \A v \in Visits : Exists(v) => job[v].arq_job_id # a
  /\ \A r \in Requests : req[r].arq # a

Register(r, v) ==
  /\ IsIdle(r)
  /\ AddOrGet(v)
  /\ LET row == AddedOrGot(job[v]) IN
       IF ShouldEnqueue(row)
         THEN Await(r, [Idle EXCEPT !.pc = "enqueue", !.visit = v])
         ELSE Respond(r, "register", v, row.arq_job_id, row.phase)
  /\ UNCHANGED arq

Enqueue(r) ==
  /\ Waiting(r, "enqueue")
  /\ \E a \in ArqIds :
       /\ Fresh(a)
       /\ EnqueueJob(a, req[r].visit)
       /\ Await(r, [req[r] EXCEPT !.pc = "set_arq_job_id", !.arq = a])
  /\ UNCHANGED job

SetArqJobId(r) ==
  /\ Waiting(r, "set_arq_job_id")
  /\ SetArqJobIdAndMarkQueued(req[r].visit, req[r].arq)
  /\ Answer(r, "register", job'[req[r].visit].phase)
  /\ UNCHANGED arq
-----------------------------------------------------------------------------
Get(r, v) ==
  /\ IsIdle(r)
  /\ CASE ~Exists(v) -> Respond(r, "get", v, None, "unknown_job")
       [] Exists(v) /\ job[v].arq_job_id = None ->
            Respond(r, "get", v, None, job[v].phase)
       [] OTHER -> Await(r, [pc |-> "status", visit |-> v,
                             arq |-> job[v].arq_job_id, seen |-> job[v].phase])
  /\ UNCHANGED <<job, arq>>

\* Mutant: a complete arq job is taken for a successful one.
GetStatusTrustsComplete(r) ==
  /\ Waiting(r, "status")
  /\ Answer(r, "get", IF arq[req[r].arq].status = "complete" THEN "COMPLETED"
                                                             ELSE req[r].seen)
  /\ UNCHANGED <<job, arq>>

GetStatus(r) ==
  /\ Waiting(r, "status")
  /\ LET status == arq[req[r].arq].status
         seen   == req[r].seen
     IN CASE status = "in_progress" /\ seen = "QUEUED" ->
               Answer(r, "get", "EXECUTING")
          [] status = "complete" /\ seen \in OpenPhases ->
               Await(r, [req[r] EXCEPT !.pc = "succeeded"])
          [] OTHER -> Answer(r, "get", seen)
  /\ UNCHANGED <<job, arq>>

GetSucceeded(r) ==
  /\ Waiting(r, "succeeded")
  /\ LET result == arq[req[r].arq].result
     IN Answer(r, "get", CASE result = None      -> req[r].seen
                           [] result = "success" -> "COMPLETED"
                           [] OTHER              -> "ERROR")
  /\ UNCHANGED <<job, arq>>
-----------------------------------------------------------------------------
Abort(r, v) ==
  /\ IsIdle(r)
  /\ CASE ~Exists(v) -> Respond(r, "abort", v, None, "unknown_job")
       [] Exists(v) /\ job[v].arq_job_id = None ->
            Respond(r, "abort", v, None, "queued_job_not_found")
       [] OTHER -> Await(r, [Idle EXCEPT !.pc = "abort", !.visit = v,
                                         !.arq = job[v].arq_job_id])
  /\ UNCHANGED <<job, arq>>

AbortRequest(r) ==
  /\ Waiting(r, "abort")
  /\ FlagAbort(req[r].arq)
  /\ Await(r, [req[r] EXCEPT !.pc = "abort_result"])
  /\ UNCHANGED job

AbortResult(r) ==
  /\ Waiting(r, "abort_result")
  /\ LET answer == AbortAnswer(req[r].arq)
     IN \/ answer = "True" /\ Await(r, [req[r] EXCEPT !.pc = "mark_failed"])
        \/ answer = "False" /\ Answer(r, "abort", "queued_job_not_found")
        \/ answer = "raises" /\ Answer(r, "abort", "server_error")
  /\ UNCHANGED <<job, arq>>

\* Mutant: the timeout is taken for an abort.
AbortTimeoutSucceeds(r) ==
  /\ Waiting(r, "abort_result")
  /\ AbortAnswer(req[r].arq) = "pending"
  /\ Await(r, [req[r] EXCEPT !.pc = "mark_failed"])
  /\ UNCHANGED <<job, arq>>

\* Five seconds pass without a result.
AbortTimeout(r) ==
  /\ Waiting(r, "abort_result")
  /\ AbortAnswer(req[r].arq) = "pending"
  /\ Answer(r, "abort", "queued_job_not_found")
  /\ UNCHANGED <<job, arq>>

AbortMarkFailed(r) ==
  /\ Waiting(r, "mark_failed")
  /\ MarkFailed(req[r].visit, "JobAborted")
  /\ Answer(r, "abort", IF Rejects("mark_failed", req[r].visit) THEN "conflict"
                                                                ELSE "aborted")
  /\ UNCHANGED arq
-----------------------------------------------------------------------------
(* What may fail: the exception ends the request with a 500.  A transaction  *)
(* that fails for good changed nothing, or was committed and its             *)
(* acknowledgement lost; a call of Redis was not made, or was made and its   *)
(* answer lost.  Reads that fail change nothing and are left out.            *)

Fails(r, call) == Answer(r, call, "server_error")

\* add_or_get_internal committed: what a POST whose enqueue fails leaves too.
RegisterUnanswered(r, v) ==
  /\ IsIdle(r)
  /\ AddOrGet(v)
  /\ Respond(r, "register", v, None, "server_error")
  /\ UNCHANGED arq

\* Redis did not take the job.
EnqueueError(r) ==
  /\ Waiting(r, "enqueue")
  /\ Fails(r, "register")
  /\ UNCHANGED <<job, arq>>

\* Redis took the job, and nobody knows its id.
EnqueueUnanswered(r) ==
  /\ Waiting(r, "enqueue")
  /\ \E a \in ArqIds : Fresh(a) /\ EnqueueJob(a, req[r].visit)
  /\ Fails(r, "register")
  /\ UNCHANGED job

\* The id of the enqueued job is not recorded.
SetArqJobIdError(r) ==
  /\ Waiting(r, "set_arq_job_id")
  /\ Fails(r, "register")
  /\ UNCHANGED <<job, arq>>

SetArqJobIdUnanswered(r) ==
  /\ Waiting(r, "set_arq_job_id")
  /\ SetArqJobIdAndMarkQueued(req[r].visit, req[r].arq)
  /\ Fails(r, "register")
  /\ UNCHANGED arq

GetError(r) ==
  /\ req[r].pc \in {"status", "succeeded"}
  /\ Fails(r, "get")
  /\ UNCHANGED <<job, arq>>

AbortError(r) ==
  /\ \/ Waiting(r, "abort") /\ FlagAbort(req[r].arq)
     \/ req[r].pc \in {"abort", "abort_result"} /\ UNCHANGED arq
  /\ Fails(r, "abort")
  /\ UNCHANGED job

AbortMarkFailedError(r) ==
  /\ Waiting(r, "mark_failed")
  /\ MarkFailed(req[r].visit, "JobAborted") \/ UNCHANGED job
  /\ Fails(r, "abort")
  /\ UNCHANGED arq

\* The API process, or the connection, dies: the request goes no further.
ApiCrash(r) ==
  /\ ~IsIdle(r)
  /\ req' = [req EXCEPT ![r] = Idle]
  /\ reply' = NoReply
  /\ UNCHANGED <<job, arq>>
=============================================================================
