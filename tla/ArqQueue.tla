------------------------------ MODULE ArqQueue ------------------------------
(***************************************************************************)
(* The arq queue in Redis, as EnrichmentQueueStore                         *)
(* (src/obsforge/storage/arq.py) and WorkerSettings                        *)
(* (src/obsforge/worker/main.py) use it.  arq and Safir are libraries: the *)
(* behaviour below is that of arq 0.28 in production mode with             *)
(* allow_abort_jobs, max_tries and the default retry_jobs.                 *)
(*                                                                         *)
(* arq[a] is what Redis holds about arq job a: "unknown" when nothing (never *)
(* enqueued, or its result has expired), "queued", "in_progress" while its *)
(* in-progress key lives, and "complete" while its result is kept.         *)
(***************************************************************************)
EXTENDS Identities, Naturals

CONSTANT MaxTries  \* enrichment_max_tries

VARIABLE arq

\* "cancelled" is a stored CancelledError, "timed_out" a stored TimeoutError,
\* "failure" any other exception.
Results == {"success", "cancelled", "timed_out", "failure"}

ASSUME ArqAssumption == MaxTries \in Nat \ {0} /\ None \notin Results

ArqJob == [status : {"unknown", "queued", "in_progress", "complete"},
           visit  : Visits \cup {None},
           tries  : 0 .. MaxTries,
           abort  : BOOLEAN,
           result : Results \cup {None}]

Unknown == [status |-> "unknown", visit |-> None, tries |-> 0,
            abort |-> FALSE, result |-> None]

ArqTypeOK == arq \in [ArqIds -> ArqJob]

ArqInit == arq = [a \in ArqIds |-> Unknown]
-----------------------------------------------------------------------------
(* The operations of ArqQueue that the service calls.                       *)

EnqueueJob(a, v) ==
  /\ arq[a].status = "unknown"
  /\ arq' = [arq EXCEPT ![a] = [Unknown EXCEPT !.status = "queued",
                                               !.visit = v]]

\* abort_job first records the request; the worker acts on it later.
FlagAbort(a) ==
  arq' = IF arq[a].status \in {"queued", "in_progress"}
         THEN [arq EXCEPT ![a].abort = TRUE]
         ELSE arq

\* abort_job then polls for the result.  A CancelledError, or nothing left to
\* wait for, is an abort; success means the job was not aborted; any other
\* stored exception is raised in the caller, where a TimeoutError reads as the
\* five seconds being over.
\* Mutant: a job back in the queue with the request counts as aborted.
AbortTrustsQueue(a) ==
  CASE arq[a].status \in {"unknown", "queued"} -> "True"
    [] arq[a].result = "cancelled" -> "True"
    [] arq[a].result \in {"success", "timed_out"} -> "False"
    [] arq[a].result = "failure"   -> "raises"
    [] OTHER                       -> "pending"

AbortAnswer(a) ==
  CASE arq[a].status = "unknown"   -> "True"
    [] arq[a].result = "cancelled" -> "True"
    [] arq[a].result \in {"success", "timed_out"} -> "False"
    [] arq[a].result = "failure"   -> "raises"
    [] OTHER                       -> "pending"
-----------------------------------------------------------------------------
(* What the arq worker does around the job function.                        *)

Completed(a, result) ==
  arq' = [arq EXCEPT ![a].status = "complete", ![a].abort = FALSE,
                     ![a].result = result]

\* An aborted job, or one started more than max_tries times, is failed by arq
\* without calling the job function.
StartsAborted(a) == arq[a].abort
\* Mutant: one attempt too many.
StartsExhaustedLate(a) == ~arq[a].abort /\ arq[a].tries > MaxTries
\* Mutant: one attempt too few.
StartsExhaustedEarly(a) == ~arq[a].abort /\ arq[a].tries >= MaxTries - 1
StartsExhausted(a) == ~arq[a].abort /\ arq[a].tries >= MaxTries

Refuse(a) ==
  /\ arq[a].status = "queued"
  /\ \/ StartsAborted(a) /\ Completed(a, "cancelled")
     \/ StartsExhausted(a) /\ Completed(a, "failure")

Start(a) ==
  /\ arq[a].status = "queued"
  /\ ~StartsAborted(a)
  /\ ~StartsExhausted(a)
  /\ arq' = [arq EXCEPT ![a].status = "in_progress", ![a].tries = @ + 1]

\* The job goes back to the queue with the tries it has used: after Retry, after
\* a cancellation nobody asked for (worker shutdown), or when the in-progress
\* key of a dead worker expires.
\* Mutant: the job starts over with all its tries.
PutBackAnew(a) == arq' = [arq EXCEPT ![a].status = "queued", ![a].tries = 0]

PutBack(a) == arq' = [arq EXCEPT ![a].status = "queued"]

\* keep_result has passed.
ResultExpires(a) ==
  /\ arq[a].status = "complete"
  /\ arq' = [arq EXCEPT ![a] = Unknown]
=============================================================================
