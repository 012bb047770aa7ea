-------------------------- MODULE EnrichmentWorker --------------------------
(***************************************************************************)
(* run_enrichment and enrich_visit                                         *)
(* (src/obsforge/worker/functions/enrichment.py) as the arq worker runs    *)
(* them: one run per arq job in progress, one step per await that changes  *)
(* state, and a cancellation or the death of the process between any two.  *)
(*                                                                         *)
(* run[a].pc is the await the run of arq job a is about to perform:        *)
(* "committed" is the return of mark_completed after its transaction has   *)
(* committed, "finally" the exit from the function, where run[a].outcome   *)
(* says what arq is about to see.                                          *)
(***************************************************************************)
EXTENDS EnrichmentJobStore, ArqQueue

VARIABLES run,     \* the local state of each run
          obscore  \* the visits whose records are in the obscore table

\* Why a run may be cancelled, and what arq calls the cancelled job then.
Cancellations == {"abort", "shutdown", "timeout"}
Outcomes == {"return", "retry", "failure"} \cup Cancellations

ASSUME WorkerAssumption == None \notin Outcomes

\* The awaits inside the try block.
TryBlock == {"mark_executing", "enrich", "mark_completed", "committed"}

Run == [pc      : {"none", "mark_failed", "finally"} \cup TryBlock,
        code    : ErrorCodes \cup {None},
        outcome : Outcomes \cup {None}]

NoRun == [pc |-> "none", code |-> None, outcome |-> None]

WorkerTypeOK == run \in [ArqIds -> Run] /\ obscore \in SUBSET Visits

WorkerInit == run = [a \in ArqIds |-> NoRun] /\ obscore = {}

Visit(a) == arq[a].visit
-----------------------------------------------------------------------------
At(a, pc) == run[a].pc = pc
Go(a, pc) == run' = [run EXCEPT ![a].pc = pc]

\* An except clause: record the failure, then leave with the outcome.
Fail(a, code, outcome) ==
  run' = [run EXCEPT ![a] = [pc      |-> "mark_failed",
                             code    |-> code,
                             outcome |-> outcome]]

Leave(a, outcome) ==
  run' = [run EXCEPT ![a] = [pc      |-> "finally",
                             code    |-> None,
                             outcome |-> outcome]]

\* arq takes the job and calls run_enrichment, or fails the job by itself.
StartRun(a) ==
  /\ Start(a)
  /\ Go(a, "mark_executing")
  /\ UNCHANGED <<job, obscore>>

RefuseRun(a) == Refuse(a) /\ UNCHANGED <<job, run, obscore>>

RunMarkExecuting(a) ==
  /\ At(a, "mark_executing")
  /\ MarkExecuting(Visit(a))
  /\ IF Rejects("mark_executing", Visit(a))
       THEN Fail(a, "InvalidTransition", "failure")
       ELSE Go(a, "enrich")
  /\ UNCHANGED <<arq, obscore>>

\* Everything enrich_visit reads is fixed at registration; its one write is
\* the transaction of upsert_many, which it performs last.
Enrich(a) ==
  /\ At(a, "enrich")
  /\ obscore' = obscore \cup {Visit(a)}
  /\ Go(a, "mark_completed")
  /\ UNCHANGED <<job, arq>>

\* Mutant: an exception leaves the function without mark_failed.
EnrichFailsUnrecorded(a) ==
  /\ At(a, "enrich")
  /\ Leave(a, "failure")
  /\ UNCHANGED <<job, arq, obscore>>

EnrichFails(a) ==
  /\ At(a, "enrich")
  /\ Fail(a, "EnrichmentFailure", "failure")
  /\ UNCHANGED <<job, arq, obscore>>

\* enrich_visit asks for another attempt: except Retry.
EnrichRetries(a) ==
  /\ At(a, "enrich")
  /\ IF arq[a].tries < MaxTries
       THEN Leave(a, "retry")
       ELSE Fail(a, "RetriesExhausted", "failure")
  /\ UNCHANGED <<job, arq, obscore>>

\* Mutant: a rejected mark_completed is ignored.
RunMarkCompletedRegardless(a) ==
  /\ At(a, "mark_completed")
  /\ MarkCompleted(Visit(a))
  /\ Go(a, "committed")
  /\ UNCHANGED <<arq, obscore>>

RunMarkCompleted(a) ==
  /\ At(a, "mark_completed")
  /\ MarkCompleted(Visit(a))
  /\ IF Rejects("mark_completed", Visit(a))
       THEN Fail(a, "InvalidTransition", "failure")
       ELSE Go(a, "committed")
  /\ UNCHANGED <<arq, obscore>>

Return(a) ==
  /\ At(a, "committed")
  /\ Leave(a, "return")
  /\ UNCHANGED <<job, arq, obscore>>

\* When mark_failed itself raises, its exception replaces the one being handled.
RunMarkFailed(a) ==
  /\ At(a, "mark_failed")
  /\ MarkFailed(Visit(a), run[a].code)
  /\ Leave(a, IF Rejects("mark_failed", Visit(a)) THEN "failure"
                                                  ELSE run[a].outcome)
  /\ UNCHANGED <<arq, obscore>>

\* A transaction fails for good, or its commit succeeds and is reported as
\* failed.  Inside the try block that is one more exception to record.
DatabaseError(a) ==
  /\ \/ /\ run[a].pc \in {"mark_executing", "mark_completed", "committed"}
        /\ Fail(a, "EnrichmentFailure", "failure")
     \/ At(a, "mark_failed") /\ Leave(a, "failure")
  /\ UNCHANGED <<job, arq, obscore>>
-----------------------------------------------------------------------------
(* CancelledError arrives at the await in progress.  Inside the try block it *)
(* is recorded as an abort whoever asked for it; before the block (the task  *)
(* has not begun, or has no session yet), in an except clause, where it      *)
(* interrupts mark_failed, and in the finally clause it is all arq sees.  A  *)
(* run is cancelled once.                                                    *)

Cancelled(a) == run[a].outcome \in Cancellations

Cancel(a, why) ==
  /\ ~Cancelled(a)
  /\ \/ run[a].pc \in TryBlock /\ Fail(a, "JobAborted", why)
     \/ run[a].pc \in {"mark_executing", "mark_failed", "finally"} /\ Leave(a, why)
  /\ IF why = "abort"
       THEN arq[a].abort /\ arq' = [arq EXCEPT ![a].abort = FALSE]
       ELSE UNCHANGED arq
  /\ UNCHANGED <<job, obscore>>

\* What arq does with the job once the function has been left.
Settle(a, outcome) ==
  CASE outcome = "return"  -> Completed(a, "success")
    [] outcome = "abort"   -> Completed(a, "cancelled")
    [] outcome = "timeout" -> Completed(a, "timed_out")
    [] outcome = "failure" -> Completed(a, "failure")
    [] outcome \in {"retry", "shutdown"} -> PutBack(a)

Finish(a) ==
  /\ At(a, "finally")
  /\ Settle(a, run[a].outcome)
  /\ run' = [run EXCEPT ![a] = NoRun]
  /\ UNCHANGED <<job, obscore>>

\* The process dies; the in-progress key outlives it, then expires.
WorkerCrash(a) ==
  /\ ~At(a, "none")
  /\ run' = [run EXCEPT ![a] = NoRun]
  /\ UNCHANGED <<job, arq, obscore>>

InProgressExpires(a) ==
  /\ arq[a].status = "in_progress"
  /\ At(a, "none")
  /\ PutBack(a)
  /\ UNCHANGED <<job, run, obscore>>

Expire(a) == ResultExpires(a) /\ UNCHANGED <<job, run, obscore>>
=============================================================================
