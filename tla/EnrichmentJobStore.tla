------------------------- MODULE EnrichmentJobStore -------------------------
(***************************************************************************)
(* The enrichment_job table and the transactions EnrichmentJobStore runs   *)
(* on it (src/obsforge/storage/enrichment.py).  A visit stands for an      *)
(* (instrument, visit) pair: the unique constraint makes the pair and the  *)
(* integer job id name the same row, and rows are never deleted.           *)
(*                                                                         *)
(* Every transaction touches one row.  Both processes open their sessions  *)
(* at REPEATABLE READ and every writing method is wrapped in               *)
(* retry_async_transaction, so a transaction that loses a race is rolled   *)
(* back and run again on the new row: here it is one atomic step, which    *)
(* EnrichmentJobTransactions implements.                                   *)
(***************************************************************************)
EXTENDS Identities

CONSTANT NoRow     \* the visit has no row yet

VARIABLE job       \* the table: a row, or NoRow, for each visit

Phases == {"PENDING", "QUEUED", "EXECUTING", "COMPLETED", "ERROR"}

\* The phases of a job whose work is not over.
OpenPhases == {"PENDING", "QUEUED", "EXECUTING"}

\* What error_code tells apart: an abort, exhausted retries, a rejected phase
\* transition, and any other exception of the enrichment itself.
ErrorCodes == {"JobAborted", "RetriesExhausted", "InvalidTransition",
               "EnrichmentFailure"}

ASSUME StoreAssumption == None \notin ErrorCodes

\* started_at and completed_at are kept as "is not None".
Row == [phase        : Phases,
        error_code   : ErrorCodes \cup {None},
        arq_job_id   : ArqIds \cup {None},
        started_at   : BOOLEAN,
        completed_at : BOOLEAN]

ASSUME NoRowAssumption == NoRow \notin Row

StoreTypeOK == job \in [Visits -> Row \cup {NoRow}]

StoreInit == job = [v \in Visits |-> NoRow]

Exists(v) == job[v] # NoRow
-----------------------------------------------------------------------------
(* _transition: one UPDATE guarded by the current phase; when it matches    *)
(* nothing, a phase that is already past the request is returned unchanged  *)
(* and any other raises InvalidEnrichmentJobTransitionError.                *)

\* Mutant: a later failure overwrites the error summary of an earlier one.
LatestErrorAllowed ==
  [set_arq_job_id |-> {"PENDING", "QUEUED"},
   mark_queued    |-> {"PENDING"},
   mark_executing |-> {"PENDING", "QUEUED"},
   mark_completed |-> {"EXECUTING"},
   mark_failed    |-> {"PENDING", "QUEUED", "EXECUTING", "ERROR"}]

\* Mutant: mark_completed also accepts a job that has been queued again.
StaleCompletionAllowed ==
  [set_arq_job_id |-> {"PENDING", "QUEUED"},
   mark_queued    |-> {"PENDING"},
   mark_executing |-> {"PENDING", "QUEUED"},
   mark_completed |-> {"QUEUED", "EXECUTING"},
   mark_failed    |-> {"PENDING", "QUEUED", "EXECUTING"}]

AllowedCurrent ==
  [set_arq_job_id |-> {"PENDING", "QUEUED"},
   mark_queued    |-> {"PENDING"},
   mark_executing |-> {"PENDING", "QUEUED"},
   mark_completed |-> {"EXECUTING"},
   mark_failed    |-> {"PENDING", "QUEUED", "EXECUTING"}]

\* Mutant: completing a completed job is an error.
CompletedOnce ==
  [set_arq_job_id |-> {"EXECUTING", "COMPLETED", "ERROR"},
   mark_queued    |-> {"QUEUED", "EXECUTING", "COMPLETED", "ERROR"},
   mark_executing |-> {"EXECUTING"},
   mark_completed |-> {},
   mark_failed    |-> {"ERROR"}]

IdempotentCurrent ==
  [set_arq_job_id |-> {"EXECUTING", "COMPLETED", "ERROR"},
   mark_queued    |-> {"QUEUED", "EXECUTING", "COMPLETED", "ERROR"},
   mark_executing |-> {"EXECUTING"},
   mark_completed |-> {"COMPLETED"},
   mark_failed    |-> {"ERROR"}]

Rejects(op, v) ==
  job[v].phase \notin AllowedCurrent[op] \cup IdempotentCurrent[op]

Transition(op, v, new) ==
  job' = IF job[v].phase \in AllowedCurrent[op]
         THEN [job EXCEPT ![v] = new]
         ELSE job
-----------------------------------------------------------------------------
NewRow == [phase |-> "PENDING", error_code |-> None, arq_job_id |-> None,
           started_at |-> FALSE, completed_at |-> FALSE]

\* Mutant: the requeue forgets completed_at.
RequeuedKeepingEnd(row) ==
  [row EXCEPT !.phase = "QUEUED", !.error_code = None, !.arq_job_id = None,
              !.started_at = FALSE]

Requeued(row) ==
  [row EXCEPT !.phase = "QUEUED", !.error_code = None, !.arq_job_id = None,
              !.started_at = FALSE, !.completed_at = FALSE]

\* INSERT ... ON CONFLICT DO NOTHING, then the new row or the existing one,
\* which a failed job leaves for QUEUED with its last attempt wiped.
AddedOrGot(row) ==
  IF row = NoRow THEN NewRow
  ELSE IF row.phase = "ERROR" THEN Requeued(row) ELSE row

AddOrGet(v) == job' = [job EXCEPT ![v] = AddedOrGot(@)]

\* The SET clause of each guarded UPDATE.
QueuedAs(row, a) == [row EXCEPT !.phase = "QUEUED", !.arq_job_id = a]

Queued(row) == [row EXCEPT !.phase = "QUEUED"]

Executing(row) ==
  [row EXCEPT !.phase = "EXECUTING", !.error_code = None, !.started_at = TRUE]

AsCompleted(row) ==
  [row EXCEPT !.phase = "COMPLETED", !.started_at = TRUE, !.completed_at = TRUE]

Failed(row, code) ==
  [row EXCEPT !.phase = "ERROR", !.error_code = code,
              !.started_at = TRUE, !.completed_at = TRUE]

SetArqJobIdAndMarkQueued(v, a) == Transition("set_arq_job_id", v, QueuedAs(job[v], a))

MarkQueued(v) == Transition("mark_queued", v, Queued(job[v]))

MarkExecuting(v) == Transition("mark_executing", v, Executing(job[v]))

MarkCompleted(v) == Transition("mark_completed", v, AsCompleted(job[v]))

MarkFailed(v, code) == Transition("mark_failed", v, Failed(job[v], code))
-----------------------------------------------------------------------------
\* The store by itself: any caller, any transaction, any order.
StoreNext ==
  \E v \in Visits :
    \/ AddOrGet(v)
    \/ /\ Exists(v)
       /\ \/ \E a \in ArqIds : SetArqJobIdAndMarkQueued(v, a)
          \/ MarkQueued(v)
          \/ MarkExecuting(v)
          \/ MarkCompleted(v)
          \/ \E code \in ErrorCodes : MarkFailed(v, code)

StoreSpec == StoreInit /\ [][StoreNext]_job

\* What a client is to learn of a row: VisitLedger is written in these terms.
LedgerStatus == [PENDING |-> "waiting", QUEUED |-> "waiting",
                 EXECUTING |-> "working", COMPLETED |-> "done",
                 ERROR |-> "failed"]

EntryOf(row) ==
  IF row = NoRow THEN [status |-> "absent", error |-> None]
                 ELSE [status |-> LedgerStatus[row.phase], error |-> row.error_code]

Account == [v \in Visits |-> EntryOf(job[v])]

(* The columns of a row tell one story, whatever order the handlers and the  *)
(* workers reached it in: an error summary exactly in ERROR, completed_at    *)
(* exactly in the final phases, started_at exactly once work has begun, and  *)
(* an arq job id only after the row has left PENDING.                        *)
RowConsistent(row) ==
  /\ row.phase = "ERROR" <=> row.error_code # None
  /\ row.phase \in {"COMPLETED", "ERROR"} <=> row.completed_at
  /\ row.phase \notin {"PENDING", "QUEUED"} <=> row.started_at
  /\ row.phase = "PENDING" => row.arq_job_id = None

RowsConsistent == \A v \in Visits : Exists(v) => RowConsistent(job[v])

(* A row that is over is never rewritten, not even by a late writer that the *)
(* store accepts as idempotent: COMPLETED stays as it is, and ERROR keeps    *)
(* its first error summary until registering the visit again wipes all of    *)
(* the failed attempt at once.                                               *)
FinalRowsStand ==
  [][\A v \in Visits : Exists(v) /\ job[v].phase \notin OpenPhases =>
       \/ job'[v] = job[v]
       \/ job[v].phase = "ERROR" /\ job'[v] = [NewRow EXCEPT !.phase = "QUEUED"]]_job
=============================================================================
