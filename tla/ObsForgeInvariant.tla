------------------------- MODULE ObsForgeInvariant --------------------------
(***************************************************************************)
(* The inductive invariant of ObsForge, and what its steps leave of it.    *)
(*                                                                         *)
(* A run, a row and a request each keep an invariant of their own, which   *)
(* the steps of the others cannot break, because rows are never deleted,   *)
(* COMPLETED is final, the obscore table only grows and an arq id is not   *)
(* drawn again while a row or a request knows it.                          *)
(***************************************************************************)
EXTENDS ObsForge, EnrichmentJobStoreProofs

IsCompleted(v) == Exists(v) /\ job[v].phase = "COMPLETED"

\* A run belongs to an arq job in progress for an existing row; it marks the row
\* COMPLETED after publishing, and leaves by "return" after marking it; arq's
\* stored result is what the run left with.
RunInv(a) ==
  /\ run[a].pc # "none" => arq[a].status = "in_progress"
  /\ arq[a].status # "unknown" => Visit(a) \in Visits /\ Exists(Visit(a))
  /\ arq[a].status # "complete" => arq[a].result = None
  /\ run[a].pc \in {"mark_completed", "committed"} => Visit(a) \in obscore
  /\ run[a].pc = "committed" => IsCompleted(Visit(a))
  /\ run[a].outcome = "return" => run[a].pc = "finally" /\ IsCompleted(Visit(a))
  /\ run[a].pc = "mark_failed" => run[a].code \in ErrorCodes /\ run[a].outcome \in Outcomes
  /\ run[a].pc = "finally" => run[a].outcome \in Outcomes
  /\ arq[a].result = "success" => IsCompleted(Visit(a))

\* arq job a, if arq still knows it, was enqueued for visit v.
IsFor(a, v) == arq[a].status # "unknown" => Visit(a) = v

\* A completed row has its records, and a row names only its own arq jobs.
RowInv(v) ==
  /\ IsCompleted(v) => v \in obscore
  /\ v \in obscore => Exists(v)
  /\ Exists(v) /\ job[v].arq_job_id # None => IsFor(job[v].arq_job_id, v)

\* A request in flight holds an existing visit and an arq job of it; a phase it
\* carries is COMPLETED only if the row still is; it confirms only the abort of
\* an arq job that is over.
RequestInv(r) ==
  /\ req[r].pc # "idle" => req[r].visit \in Visits /\ Exists(req[r].visit)
  /\ req[r].pc \notin {"idle", "enqueue"} =>
       req[r].arq \in ArqIds /\ IsFor(req[r].arq, req[r].visit)
  /\ req[r].pc \in {"status", "succeeded"} =>
       /\ req[r].seen \in Phases
       /\ req[r].seen = "COMPLETED" => IsCompleted(req[r].visit)
  /\ req[r].pc = "mark_failed" => ~IsLive(req[r].arq)

IInv ==
  /\ TypeOK
  /\ RowsConsistent
  /\ \A a \in ArqIds : RunInv(a)
  /\ \A v \in Visits : RowInv(v)
  /\ \A r \in Requests : RequestInv(r)
  /\ CompletedAnswerIsTrue
  /\ AbortStopsTheWork
-----------------------------------------------------------------------------
(* What a step owes to the invariants it does not mean to change.            *)

\* Rows stay, and COMPLETED is final.
RowsSurvive ==
  \A v \in Visits : /\ Exists(v) => Exists(v)'
                    /\ IsCompleted(v) => IsCompleted(v)'

\* No row claims more than before: no new COMPLETED, no new arq id.
NoNewClaim(v) ==
  /\ IsCompleted(v)' => IsCompleted(v)
  /\ Exists(v)' /\ job'[v].arq_job_id # None =>
       Exists(v) /\ job'[v].arq_job_id = job[v].arq_job_id

\* arq job a stays with its visit, and does not come back to life.
ArqKeeps(a) ==
  /\ arq'[a].status # "unknown" => arq[a].status # "unknown" /\ arq'[a].visit = arq[a].visit
  /\ ~IsLive(a) => ~IsLive(a)'

(* Every transaction of the store lets rows survive.                         *)
LEMMA StoreStepSurvives ==
  ASSUME StoreInv, StoreNext
  PROVE  RowsSurvive
<1> SUFFICES ASSUME NEW v \in Visits, Exists(v)
             PROVE  /\ Exists(v)'
                    /\ job[v].phase = "COMPLETED" => job'[v] = job[v]
  BY DEF RowsSurvive, IsCompleted
<1>1. job[v] \in Row /\ RowStep(job[v], job'[v])
  BY StoreStepEffect DEF StoreInv, StoreTypeOK, Exists
<1>2. job'[v] \in Row
  BY <1>1, RowStepStays
<1>3. job[v].phase = "COMPLETED" => job'[v] = job[v]
  BY <1>1, RowStepFinal DEF OpenPhases
<1> QED
  BY <1>2, <1>3, NoRowAssumption DEF Exists

LEMMA NothingHappens ==
  ASSUME UNCHANGED job
  PROVE  RowsSurvive /\ \A v \in Visits : NoNewClaim(v)
BY DEF RowsSurvive, NoNewClaim, IsCompleted, Exists

(* The transactions, one by one: typed, surviving rows, and what they claim. *)
LEMMA AddOrGetMoves ==
  ASSUME StoreInv, NEW v \in Visits, AddOrGet(v)
  PROVE  /\ StoreInv' /\ RowsSurvive
         /\ \A u \in Visits : NoNewClaim(u)
         /\ Exists(v)'
<1>1. StoreNext
  BY DEF StoreNext
<1>2. StoreInv' /\ RowsSurvive
  BY <1>1, StoreInvStep, StoreStepSurvives
<1>3. /\ \A u \in Visits \ {v} : job'[u] = job[u]
      /\ job'[v] = AddedOrGot(job[v])
      /\ job'[v] \in Row
  BY AddOrGetEffect DEF StoreInv
<1>4. ASSUME NEW u \in Visits, u # v
      PROVE  NoNewClaim(u)
  BY <1>3, <1>4 DEF NoNewClaim, IsCompleted, Exists
<1>5. NoNewClaim(v)
  <2>1. job[v] \in Row \cup {NoRow}
    BY DEF StoreInv, StoreTypeOK
  <2>2. CASE job[v] = NoRow
    <3>1. job'[v].phase = "PENDING" /\ job'[v].arq_job_id = None
      BY <1>3, <2>2 DEF AddedOrGot, NewRow
    <3> QED
      BY <3>1 DEF NoNewClaim, IsCompleted
  <2>3. CASE job[v] \in Row /\ job[v].phase = "ERROR"
    <3>1. job'[v] = [NewRow EXCEPT !.phase = "QUEUED"]
      BY <1>3, <2>3, NoRowAssumption, RequeuedColumns DEF AddedOrGot
    <3> QED
      BY <3>1, NewRowColumns DEF NoNewClaim, IsCompleted
  <2>4. CASE job[v] \in Row /\ job[v].phase # "ERROR"
    <3>1. job'[v] = job[v]
      BY <1>3, <2>4, NoRowAssumption DEF AddedOrGot
    <3> QED
      BY <3>1, <1>3, NoRowAssumption DEF NoNewClaim, IsCompleted, Exists
  <2> QED
    BY <2>1, <2>2, <2>3, <2>4
<1> QED
  BY <1>2, <1>3, <1>4, <1>5, NoRowAssumption DEF Exists

LEMMA MarkExecutingMoves ==
  ASSUME StoreInv, NEW v \in Visits, Exists(v), MarkExecuting(v)
  PROVE  StoreInv' /\ RowsSurvive /\ \A u \in Visits : NoNewClaim(u)
<1>1. StoreNext
  BY DEF StoreNext
<1>2. StoreInv' /\ RowsSurvive
  BY <1>1, StoreInvStep, StoreStepSurvives
<1>3. job[v] \in Row
  BY DEF StoreInv, StoreTypeOK, Exists
<1>4. /\ \A u \in Visits \ {v} : job'[u] = job[u]
      /\ job'[v] = Executing(job[v]) \/ job'[v] = job[v]
  BY <1>3, ExecutingColumns, TransitionEffect DEF MarkExecuting, StoreInv
<1>5. ASSUME NEW u \in Visits, u # v
      PROVE  NoNewClaim(u)
  BY <1>4, <1>5 DEF NoNewClaim, IsCompleted, Exists
<1>6. NoNewClaim(v)
  BY <1>3, <1>4, ExecutingColumns DEF NoNewClaim, IsCompleted, Exists
<1> QED
  BY <1>2, <1>5, <1>6

LEMMA MarkFailedMoves ==
  ASSUME StoreInv, NEW v \in Visits, Exists(v), NEW code \in ErrorCodes,
         MarkFailed(v, code)
  PROVE  StoreInv' /\ RowsSurvive /\ \A u \in Visits : NoNewClaim(u)
<1>1. StoreNext
  BY DEF StoreNext
<1>2. StoreInv' /\ RowsSurvive
  BY <1>1, StoreInvStep, StoreStepSurvives
<1>3. job[v] \in Row
  BY DEF StoreInv, StoreTypeOK, Exists
<1>4. /\ \A u \in Visits \ {v} : job'[u] = job[u]
      /\ job'[v] = Failed(job[v], code) \/ job'[v] = job[v]
  BY <1>3, FailedColumns, TransitionEffect DEF MarkFailed, StoreInv
<1>5. ASSUME NEW u \in Visits, u # v
      PROVE  NoNewClaim(u)
  BY <1>4, <1>5 DEF NoNewClaim, IsCompleted, Exists
<1>6. NoNewClaim(v)
  <2>1. /\ Failed(job[v], code) \in Row
        /\ Failed(job[v], code).phase = "ERROR"
        /\ Failed(job[v], code).arq_job_id = job[v].arq_job_id
    BY <1>3, FailedColumns
  <2> QED
    BY <1>3, <1>4, <2>1 DEF NoNewClaim, IsCompleted, Exists
<1> QED
  BY <1>2, <1>5, <1>6

LEMMA MarkCompletedMoves ==
  ASSUME StoreInv, NEW v \in Visits, Exists(v), MarkCompleted(v)
  PROVE  /\ StoreInv' /\ RowsSurvive
         /\ \A u \in Visits \ {v} : NoNewClaim(u)
         /\ Exists(v)' /\ job'[v].arq_job_id = job[v].arq_job_id
         /\ ~Rejects("mark_completed", v) => IsCompleted(v)'
         /\ Rejects("mark_completed", v) => UNCHANGED job
<1>1. StoreNext
  BY DEF StoreNext
<1>2. StoreInv' /\ RowsSurvive
  BY <1>1, StoreInvStep, StoreStepSurvives
<1>3. job[v] \in Row
  BY DEF StoreInv, StoreTypeOK, Exists
<1>4. /\ \A u \in Visits \ {v} : job'[u] = job[u]
      /\ job[v].phase = "EXECUTING" => job'[v] = AsCompleted(job[v])
      /\ job[v].phase # "EXECUTING" => job'[v] = job[v]
  BY <1>3, AsCompletedColumns, TransitionEffect, AllowedPhases DEF MarkCompleted, StoreInv
<1>5. ASSUME NEW u \in Visits, u # v
      PROVE  NoNewClaim(u)
  BY <1>4, <1>5 DEF NoNewClaim, IsCompleted, Exists
<1>6. Exists(v)' /\ job'[v].arq_job_id = job[v].arq_job_id
  BY <1>2, <1>3, <1>4, AsCompletedColumns DEF RowsSurvive
<1>7. IdempotentCurrent["mark_completed"] = {"COMPLETED"}
  BY DEF IdempotentCurrent
<1>8. ~Rejects("mark_completed", v) => IsCompleted(v)'
  BY <1>3, <1>4, <1>6, <1>7, AllowedPhases, AsCompletedColumns DEF Rejects, IsCompleted
<1>9. Rejects("mark_completed", v) => UNCHANGED job
  BY DEF Rejects, MarkCompleted, Transition
<1> QED
  BY <1>2, <1>5, <1>6, <1>8, <1>9

LEMMA SetArqJobIdMoves ==
  ASSUME StoreInv, NEW v \in Visits, Exists(v), NEW a \in ArqIds,
         SetArqJobIdAndMarkQueued(v, a)
  PROVE  /\ StoreInv' /\ RowsSurvive
         /\ \A u \in Visits \ {v} : NoNewClaim(u)
         /\ Exists(v)' /\ job'[v].arq_job_id \in {job[v].arq_job_id, a}
         /\ IsCompleted(v)' => IsCompleted(v)
<1>1. StoreNext
  BY DEF StoreNext
<1>2. StoreInv' /\ RowsSurvive
  BY <1>1, StoreInvStep, StoreStepSurvives
<1>3. job[v] \in Row
  BY DEF StoreInv, StoreTypeOK, Exists
<1>4. /\ \A u \in Visits \ {v} : job'[u] = job[u]
      /\ job'[v] = QueuedAs(job[v], a) \/ job'[v] = job[v]
  BY <1>3, QueuedAsColumns, TransitionEffect DEF SetArqJobIdAndMarkQueued, StoreInv
<1>5. ASSUME NEW u \in Visits, u # v
      PROVE  NoNewClaim(u)
  BY <1>4, <1>5 DEF NoNewClaim, IsCompleted, Exists
<1> QED
  BY <1>2, <1>3, <1>4, <1>5, QueuedAsColumns DEF RowsSurvive, IsCompleted, Exists
-----------------------------------------------------------------------------
(* The local steps of a run, a request and an arq job.                      *)
LEMMA GoMoves ==
  ASSUME WorkerTypeOK, NEW a \in ArqIds, NEW pc \in TryBlock, Go(a, pc)
  PROVE  /\ run' \in [ArqIds -> Run]
         /\ \A b \in ArqIds \ {a} : run'[b] = run[b]
         /\ run'[a].pc = pc /\ run'[a].outcome = run[a].outcome
<1>1. run[a] \in Run
  BY DEF WorkerTypeOK
<1>2. [run[a] EXCEPT !.pc = pc] \in Run
  BY <1>1 DEF Run
<1>3. run' = [run EXCEPT ![a] = [run[a] EXCEPT !.pc = pc]]
  BY DEF Go
<1> QED
  BY <1>1, <1>2, <1>3 DEF WorkerTypeOK, Run

LEMMA FailMoves ==
  ASSUME WorkerTypeOK, NEW a \in ArqIds, NEW code \in ErrorCodes,
         NEW outcome \in Outcomes, Fail(a, code, outcome)
  PROVE  /\ run' \in [ArqIds -> Run]
         /\ \A b \in ArqIds \ {a} : run'[b] = run[b]
         /\ run'[a].pc = "mark_failed"
         /\ run'[a].code = code /\ run'[a].outcome = outcome
<1>1. [pc |-> "mark_failed", code |-> code, outcome |-> outcome] \in Run
  BY DEF Run
<1> QED
  BY <1>1 DEF WorkerTypeOK, Fail

LEMMA LeaveMoves ==
  ASSUME WorkerTypeOK, NEW a \in ArqIds, NEW outcome \in Outcomes, Leave(a, outcome)
  PROVE  /\ run' \in [ArqIds -> Run]
         /\ \A b \in ArqIds \ {a} : run'[b] = run[b]
         /\ run'[a].pc = "finally" /\ run'[a].outcome = outcome
<1>1. [pc |-> "finally", code |-> None, outcome |-> outcome] \in Run
  BY DEF Run
<1> QED
  BY <1>1 DEF WorkerTypeOK, Leave

LEMMA StopMoves ==
  ASSUME WorkerTypeOK, NEW a \in ArqIds, run' = [run EXCEPT ![a] = NoRun]
  PROVE  /\ run' \in [ArqIds -> Run]
         /\ \A b \in ArqIds \ {a} : run'[b] = run[b]
         /\ run'[a].pc = "none" /\ run'[a].outcome = None
<1>1. NoRun \in Run
  BY DEF Run, NoRun
<1> QED
  BY <1>1 DEF WorkerTypeOK, NoRun

\* What a step of arq on job a leaves of the other jobs.
ArqMoves(a) ==
  /\ ArqTypeOK'
  /\ \A b \in ArqIds \ {a} : arq'[b] = arq[b]

LEMMA CompletedMoves ==
  ASSUME ArqTypeOK, NEW a \in ArqIds, NEW result \in Results, Completed(a, result)
  PROVE  /\ ArqMoves(a)
         /\ arq'[a].status = "complete" /\ arq'[a].visit = arq[a].visit
         /\ arq'[a].result = result
<1> DEFINE new == [arq[a] EXCEPT !.status = "complete", !.abort = FALSE, !.result = result]
<1>1. arq[a] \in ArqJob
  BY DEF ArqTypeOK
<1>2. new \in ArqJob
  BY <1>1 DEF ArqJob
<1>3. arq' = [arq EXCEPT ![a] = new]
  BY DEF Completed
<1>4. new.status = "complete" /\ new.visit = arq[a].visit /\ new.result = result
  BY <1>1 DEF ArqJob
<1> HIDE DEF new
<1> QED
  BY <1>2, <1>3, <1>4 DEF ArqMoves, ArqTypeOK

LEMMA StartMoves ==
  ASSUME ArqTypeOK, NEW a \in ArqIds, Start(a)
  PROVE  /\ ArqMoves(a)
         /\ arq[a].status = "queued"
         /\ arq'[a].status = "in_progress" /\ arq'[a].visit = arq[a].visit
         /\ arq'[a].result = arq[a].result
<1> DEFINE new == [arq[a] EXCEPT !.status = "in_progress", !.tries = @ + 1]
<1>1. arq[a] \in ArqJob
  BY DEF ArqTypeOK
<1>2. arq[a].tries \in 0 .. MaxTries /\ ~(arq[a].tries >= MaxTries)
  BY <1>1 DEF ArqJob, Start, StartsAborted, StartsExhausted
<1>3. arq[a].tries + 1 \in 0 .. MaxTries
  BY <1>2, ArqAssumption
<1>4. new \in ArqJob
  BY <1>1, <1>3 DEF ArqJob
<1>5. arq' = [arq EXCEPT ![a] = new]
  BY DEF Start
<1>6. new.status = "in_progress" /\ new.visit = arq[a].visit /\ new.result = arq[a].result
  BY <1>1 DEF ArqJob
<1>7. arq[a].status = "queued"
  BY DEF Start
<1> HIDE DEF new
<1> QED
  BY <1>4, <1>5, <1>6, <1>7 DEF ArqMoves, ArqTypeOK

LEMMA PutBackMoves ==
  ASSUME ArqTypeOK, NEW a \in ArqIds, PutBack(a)
  PROVE  /\ ArqMoves(a)
         /\ arq'[a].status = "queued" /\ arq'[a].visit = arq[a].visit
         /\ arq'[a].result = arq[a].result
<1> DEFINE new == [arq[a] EXCEPT !.status = "queued"]
<1>1. arq[a] \in ArqJob
  BY DEF ArqTypeOK
<1>2. new \in ArqJob
  BY <1>1 DEF ArqJob
<1>3. arq' = [arq EXCEPT ![a] = new]
  BY DEF PutBack
<1>4. new.status = "queued" /\ new.visit = arq[a].visit /\ new.result = arq[a].result
  BY <1>1 DEF ArqJob
<1> HIDE DEF new
<1> QED
  BY <1>2, <1>3, <1>4 DEF ArqMoves, ArqTypeOK

LEMMA SetAbortMoves ==
  ASSUME ArqTypeOK, NEW a \in ArqIds, NEW flag \in BOOLEAN,
         arq' = [arq EXCEPT ![a].abort = flag]
  PROVE  /\ ArqMoves(a)
         /\ arq'[a].status = arq[a].status /\ arq'[a].visit = arq[a].visit
         /\ arq'[a].result = arq[a].result
<1> DEFINE new == [arq[a] EXCEPT !.abort = flag]
<1>1. arq[a] \in ArqJob
  BY DEF ArqTypeOK
<1>2. new \in ArqJob
  BY <1>1 DEF ArqJob
<1>3. arq' = [arq EXCEPT ![a] = new]
  OBVIOUS
<1>4. new.status = arq[a].status /\ new.visit = arq[a].visit /\ new.result = arq[a].result
  BY <1>1 DEF ArqJob
<1> HIDE DEF new
<1> QED
  BY <1>2, <1>3, <1>4 DEF ArqMoves, ArqTypeOK

LEMMA EnqueueJobMoves ==
  ASSUME ArqTypeOK, NEW a \in ArqIds, NEW v \in Visits, EnqueueJob(a, v)
  PROVE  /\ ArqMoves(a)
         /\ arq'[a].status = "queued" /\ arq'[a].visit = v /\ arq'[a].result = None
<1> DEFINE new == [Unknown EXCEPT !.status = "queued", !.visit = v]
<1>1. Unknown \in ArqJob
  BY ArqAssumption DEF ArqJob, Unknown
<1>2. new \in ArqJob
  BY <1>1 DEF ArqJob
<1>3. arq' = [arq EXCEPT ![a] = new]
  BY DEF EnqueueJob
<1>4. new.status = "queued" /\ new.visit = v /\ new.result = None
  BY <1>1 DEF ArqJob, Unknown
<1> HIDE DEF new
<1> QED
  BY <1>2, <1>3, <1>4 DEF ArqMoves, ArqTypeOK

LEMMA ResultExpiresMoves ==
  ASSUME ArqTypeOK, NEW a \in ArqIds, ResultExpires(a)
  PROVE  /\ ArqMoves(a)
         /\ arq[a].status = "complete"
         /\ arq'[a].status = "unknown" /\ arq'[a].result = None
<1>1. Unknown \in ArqJob /\ Unknown.status = "unknown" /\ Unknown.result = None
  BY ArqAssumption DEF ArqJob, Unknown
<1>2. arq' = [arq EXCEPT ![a] = Unknown] /\ arq[a].status = "complete"
  BY DEF ResultExpires
<1> QED
  BY <1>1, <1>2 DEF ArqMoves, ArqTypeOK
-----------------------------------------------------------------------------
(* The frames: an actor that a step leaves alone keeps its invariant.        *)

\* What every step owes to all of them.
Harmless ==
  /\ RowsSurvive
  /\ obscore \subseteq obscore'

LEMMA RunFrame ==
  ASSUME ArqTypeOK, NEW b \in ArqIds, RunInv(b), Harmless,
         run'[b] = run[b], arq'[b] = arq[b]
  PROVE  RunInv(b)'
<1>1. arq[b] \in ArqJob
  BY DEF ArqTypeOK
<1>2. /\ run[b].pc # "none" => arq[b].status # "unknown"
      /\ arq[b].status # "unknown" => Visit(b) \in Visits
      /\ arq[b].result = "success" => arq[b].status # "unknown"
      /\ run[b].outcome = "return" => arq[b].status # "unknown"
  BY <1>1, ArqAssumption, WorkerAssumption DEF RunInv, ArqJob, Results, Outcomes
<1>3. CASE arq[b].status = "unknown"
  BY <1>2, <1>3 DEF RunInv
<1>4. CASE arq[b].status # "unknown"
  <2>1. PICK v \in Visits : v = Visit(b)
    BY <1>2, <1>4
  <2>2. /\ Exists(v) => Exists(v)'
        /\ IsCompleted(v) => IsCompleted(v)'
        /\ v \in obscore => v \in obscore'
    BY DEF Harmless, RowsSurvive
  <2>3. Visit(b)' = v
    BY <2>1 DEF Visit
  <2>4. /\ Exists(Visit(b)) => Exists(Visit(b))'
        /\ IsCompleted(Visit(b)) => IsCompleted(Visit(b))'
        /\ Visit(b) \in obscore => (Visit(b) \in obscore)'
        /\ (Visit(b) \in Visits)'
    BY <2>1, <2>2, <2>3 DEF Exists, IsCompleted
  <2> QED
    BY <1>4, <2>4 DEF RunInv
<1> QED
  BY <1>3, <1>4

LEMMA ArqFrame ==
  ASSUME NEW a, ArqKeeps(a), NEW v
  PROVE  /\ IsFor(a, v) => IsFor(a, v)'
         /\ ~IsLive(a) => ~IsLive(a)'
BY DEF ArqKeeps, IsFor, Visit

LEMMA RowFrame ==
  ASSUME ArqTypeOK, NEW v \in Visits, RowInv(v), Harmless, NoNewClaim(v),
         v \in obscore' => v \in obscore \/ Exists(v),
         \A a \in ArqIds : job[v].arq_job_id = a => ArqKeeps(a),
         Exists(v) => job[v] \in Row
  PROVE  RowInv(v)'
<1>1. IsCompleted(v)' => v \in obscore'
  BY DEF RowInv, NoNewClaim, Harmless
<1>2. v \in obscore' => Exists(v)'
  BY DEF RowInv, Harmless, RowsSurvive
<1>3. ASSUME Exists(v)', job'[v].arq_job_id # None
      PROVE  IsFor(job[v].arq_job_id, v)'
  <2>1. Exists(v) /\ job'[v].arq_job_id = job[v].arq_job_id
    BY <1>3 DEF NoNewClaim
  <2>2. job[v].arq_job_id \in ArqIds /\ IsFor(job[v].arq_job_id, v)
    BY <1>3, <2>1 DEF Row, RowInv
  <2>3. PICK a \in ArqIds : a = job[v].arq_job_id
    BY <2>2
  <2>4. IsFor(a, v)'
    BY <2>2, <2>3, ArqFrame
  <2>5. job'[v].arq_job_id = a
    BY <2>1, <2>3
  <2> QED
    BY <2>4, <2>5 DEF IsFor, Visit
<1> QED
  BY <1>1, <1>2, <1>3 DEF RowInv

LEMMA RequestFrame ==
  ASSUME NEW r \in Requests, RequestInv(r), Harmless, req'[r] = req[r],
         \A a \in ArqIds : req[r].arq = a => ArqKeeps(a)
  PROVE  RequestInv(r)'
<1>1. CASE req[r].pc = "idle"
  BY <1>1 DEF RequestInv
<1>2. ASSUME req[r].pc # "idle", NEW v, v = req[r].visit
      PROVE  /\ v \in Visits /\ Exists(v)'
             /\ IsCompleted(v) => IsCompleted(v)'
  BY <1>2 DEF RequestInv, Harmless, RowsSurvive
<1>3. CASE req[r].pc = "enqueue"
  <2>1. req[r].visit \in Visits /\ job'[req[r].visit] # NoRow
    BY <1>2, <1>3 DEF Exists
  <2> QED
    BY <1>3, <2>1 DEF RequestInv, Exists
<1>4. CASE req[r].pc \notin {"idle", "enqueue"}
  <2>1. PICK a \in ArqIds : a = req[r].arq
    BY <1>4 DEF RequestInv
  <2>2. PICK v \in Visits : v = req[r].visit
    BY <1>4 DEF RequestInv
  <2>3. ArqKeeps(a) /\ IsFor(a, v)
    BY <1>4, <2>1, <2>2 DEF RequestInv
  <2>4. /\ Exists(v)' /\ IsFor(a, v)'
        /\ IsCompleted(v) => IsCompleted(v)'
        /\ ~IsLive(a) => ~IsLive(a)'
    BY <1>2, <1>4, <2>2, <2>3, ArqFrame
  <2>5. req'[r].arq = a /\ req'[r].visit = v
    BY <2>1, <2>2
  <2>6. /\ Exists(req[r].visit)' /\ IsFor(req[r].arq, req[r].visit)'
        /\ IsCompleted(req[r].visit) => IsCompleted(req[r].visit)'
        /\ ~IsLive(req[r].arq) => ~IsLive(req[r].arq)'
    BY <2>1, <2>2, <2>4, <2>5 DEF Exists, IsFor, IsCompleted, IsLive, Visit
  <2> QED
    BY <2>1, <2>2, <2>5, <2>6 DEF RequestInv
<1> QED
  BY <1>1, <1>3, <1>4
-----------------------------------------------------------------------------
(* What is left to show of a step of a run, and of a step of a request.      *)

LEMMA StoreInvHolds == IInv => StoreInv
BY DEF IInv, StoreInv, TypeOK

\* The rows when a transaction of the store claims nothing new.
LEMMA RowsKeep ==
  ASSUME IInv, Harmless, \A v \in obscore' : v \in obscore \/ Exists(v),
         \A a \in ArqIds : ArqKeeps(a), NEW v \in Visits, NoNewClaim(v)
  PROVE  RowInv(v)'
<1>1. ArqTypeOK /\ RowInv(v) /\ (Exists(v) => job[v] \in Row)
  BY DEF IInv, TypeOK, StoreTypeOK, Exists
<1> QED
  BY <1>1, RowFrame

LEMMA ArqStill == UNCHANGED arq => \A a \in ArqIds : ArqKeeps(a)
BY DEF ArqKeeps, IsLive

LEMMA RunStep ==
  ASSUME IInv, NEW a \in ArqIds, UNCHANGED req, reply' = NoReply,
         StoreInv', Harmless, obscore' \in SUBSET Visits,
         ArqMoves(a), ArqKeeps(a),
         run' \in [ArqIds -> Run], \A b \in ArqIds \ {a} : run'[b] = run[b],
         RunInv(a)', \A v \in Visits : RowInv(v)'
  PROVE  IInv'
<1>1. TypeOK'
  BY DEF IInv, TypeOK, StoreInv, ArqMoves, WorkerTypeOK, ServiceTypeOK
<1>2. RowsConsistent'
  BY DEF StoreInv
<1>3. ASSUME NEW b \in ArqIds
      PROVE  RunInv(b)'
  <2>1. CASE b = a
    BY <2>1
  <2>2. CASE b # a
    BY <2>2, RunFrame DEF IInv, TypeOK, ArqMoves
  <2> QED
    BY <2>1, <2>2
<1>4. \A b \in ArqIds : ArqKeeps(b)
  BY DEF ArqMoves, ArqKeeps, IsLive
<1>5. ASSUME NEW r \in Requests
      PROVE  RequestInv(r)'
  BY <1>4, RequestFrame DEF IInv
<1>6. CompletedAnswerIsTrue' /\ AbortStopsTheWork'
  BY DEF CompletedAnswerIsTrue, AbortStopsTheWork
<1> QED
  BY <1>1, <1>2, <1>3, <1>5, <1>6 DEF IInv

LEMMA RequestStep ==
  ASSUME IInv, NEW r \in Requests, UNCHANGED <<run, obscore>>,
         StoreInv', Harmless, ArqTypeOK', ServiceTypeOK',
         \A q \in Requests \ {r} : req'[q] = req[q],
         \A q \in Requests \ {r} : \A a \in ArqIds : req[q].arq = a => ArqKeeps(a),
         RequestInv(r)', \A a \in ArqIds : RunInv(a)', \A v \in Visits : RowInv(v)',
         CompletedAnswerIsTrue', AbortStopsTheWork'
  PROVE  IInv'
<1>1. TypeOK'
  BY DEF IInv, TypeOK, StoreInv, WorkerTypeOK
<1>2. RowsConsistent'
  BY DEF StoreInv
<1>3. ASSUME NEW q \in Requests
      PROVE  RequestInv(q)'
  <2>1. CASE q = r
    BY <2>1
  <2>2. CASE q # r
    BY <2>2, RequestFrame DEF IInv
  <2> QED
    BY <2>1, <2>2
<1> QED
  BY <1>1, <1>2, <1>3 DEF IInv

\* A request goes on to its next await, or its answer leaves.
LEMMA AwaitStep ==
  ASSUME IInv, NEW r \in Requests, NEW request \in Request, Await(r, request),
         UNCHANGED <<arq, run, obscore>>,
         StoreInv', RowsSurvive, \A v \in Visits : RowInv(v)', RequestInv(r)'
  PROVE  IInv'
<1>1. ServiceTypeOK' /\ \A q \in Requests \ {r} : req'[q] = req[q]
  BY DEF Await, IInv, TypeOK, ServiceTypeOK
<1>2. Harmless /\ ArqTypeOK' /\ ArqTypeOK
  BY DEF Harmless, IInv, TypeOK, ArqTypeOK
<1>3. \A a \in ArqIds : RunInv(a)'
  BY <1>2, RunFrame DEF IInv
<1>4. CompletedAnswerIsTrue' /\ AbortStopsTheWork'
  BY DEF Await, CompletedAnswerIsTrue, AbortStopsTheWork
<1> QED
  BY <1>1, <1>2, <1>3, <1>4, ArqStill, RequestStep

LEMMA RespondStep ==
  ASSUME IInv, NEW r \in Requests,
         NEW call \in {"register", "get", "abort"}, NEW v \in Visits,
         NEW a \in ArqIds \cup {None}, NEW status \in Statuses,
         Respond(r, call, v, a, status),
         UNCHANGED <<arq, run, obscore>>,
         StoreInv', RowsSurvive, \A u \in Visits : RowInv(u)',
         status = "COMPLETED" => IsCompleted(v)',
         status = "aborted" => ~IsLive(a) /\ At(a, "none")
  PROVE  IInv'
<1>1. Idle \in Request /\ Idle.pc = "idle"
  BY DEF Idle, Request
<1>2. req' \in [Requests -> Request] /\ req'[r] = Idle
      /\ \A q \in Requests \ {r} : req'[q] = req[q]
  BY <1>1 DEF Respond, IInv, TypeOK, ServiceTypeOK
<1>3. /\ reply' \in Reply
      /\ reply'.visit = v /\ reply'.arq = a /\ reply'.status = status
  BY DEF Respond, Reply
<1>4. Harmless /\ ArqTypeOK' /\ ArqTypeOK
  BY DEF Harmless, IInv, TypeOK, ArqTypeOK
<1>5. \A b \in ArqIds : RunInv(b)'
  BY <1>4, RunFrame DEF IInv
<1>6. RequestInv(r)'
  BY <1>1, <1>2 DEF RequestInv
<1>7. CompletedAnswerIsTrue'
  BY <1>3 DEF CompletedAnswerIsTrue, IsCompleted, RowInv
<1>8. AbortStopsTheWork'
  BY <1>3 DEF AbortStopsTheWork, IsLive, At
<1>9. ServiceTypeOK'
  BY <1>2, <1>3 DEF ServiceTypeOK
<1> QED
  BY <1>2, <1>4, <1>5, <1>6, <1>7, <1>8, <1>9, ArqStill, RequestStep
=============================================================================
