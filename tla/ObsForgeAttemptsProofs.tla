----------------------- MODULE ObsForgeAttemptsProofs -----------------------
(***************************************************************************)
(* Who works on a visit.  NoVisitIsLost, OneAttempt and NoVisitIsStranded  *)
(* relate the requests and the runs of a visit to each other, so each      *)
(* needs an invariant of its own on top of IInv, and each holds only for   *)
(* some of the faults: the hypotheses of the theorems say for which.       *)
(***************************************************************************)
EXTENDS ObsForgeProofs
-----------------------------------------------------------------------------
(* Nobody's visit is lost.  While a row is open an actor owns it, and an     *)
(* owner that stops either closes the row or has somebody to hand it to.     *)

\* The faults after which the system goes on by itself.
Recoverable == {"recoverable_crash", "retry"}

\* A DELETE is waiting for the end of arq job a.
Awaited(a) == \E r \in Requests : req[r].pc = "abort_result" /\ req[r].arq = a

\* The run of a died with its worker.
Orphaned(a) == arq[a].status = "in_progress" /\ run[a].pc = "none"

\* Arq job a has the row of its visit still to close, or will be run again.
WorksOn(a) ==
  \/ arq[a].status = "queued"
  \/ Orphaned(a)
  \/ run[a].pc \in {"mark_executing", "enrich", "mark_completed", "mark_failed"}
  \/ run[a].pc = "finally" /\ run[a].outcome \in {"retry", "abort"}

\* Request r will enqueue a job for its visit, or close the row.
SeesToIt(r) ==
  \/ req[r].pc \in {"enqueue", "mark_failed"}
  \/ req[r].pc = "abort_result" /\ AbortAnswer(req[r].arq) = "True"

Owned(v) ==
  \/ \E a \in ArqIds : Visit(a) = v /\ WorksOn(a)
  \/ \E r \in Requests : req[r].visit = v /\ SeesToIt(r)

\* A job that arq will start again has a try left, and whoever asked for an
\* abort waits for it.
AttemptInv(a) ==
  /\ run[a].pc = "none" => run[a].outcome = None
  /\ run[a].outcome = "retry" => run[a].pc = "finally"
  /\ run[a].outcome # "shutdown"
  /\ arq[a].status = "queued" \/ Orphaned(a) \/ run[a].outcome = "retry" =>
       arq[a].tries < MaxTries
  /\ arq[a].abort => IsLive(a)
  /\ arq[a].abort \/ run[a].outcome = "abort" => Awaited(a)

OwnerInv ==
  /\ \A a \in ArqIds : AttemptInv(a)
  /\ \A v \in Visits : IsOpen(v) => Owned(v)

\* Only registering opens a row.
NothingOpens == \A v \in Visits : IsOpen(v)' => IsOpen(v)

LEMMA TransitionOpensNothing ==
  ASSUME StoreInv, NEW v \in Visits, Exists(v), NEW new,
         NEW op \in {"set_arq_job_id", "mark_executing", "mark_completed", "mark_failed"},
         Transition(op, v, new)
  PROVE  NothingOpens
<1>1. job[v].phase \in AllowedCurrent[op] => IsOpen(v)
  BY DEF AllowedCurrent, IsOpen, OpenPhases
<1>2. \A u \in Visits \ {v} : job'[u] = job[u]
  BY DEF Transition, StoreInv, StoreTypeOK
<1>3. job[v].phase \in AllowedCurrent[op] \/ job' = job
  BY DEF Transition
<1> QED
  BY <1>1, <1>2, <1>3 DEF NothingOpens, IsOpen, Exists

LEMMA JobUntouchedOpensNothing == UNCHANGED job => NothingOpens
BY DEF NothingOpens, IsOpen, Exists

\* mark_failed closes the row, whoever calls it.
LEMMA MarkFailedCloses ==
  ASSUME StoreInv, NEW v \in Visits, Exists(v), NEW code \in ErrorCodes, MarkFailed(v, code)
  PROVE  NothingOpens /\ ~IsOpen(v)'
<1>1. NothingOpens
  BY TransitionOpensNothing DEF MarkFailed
<1>2. job[v] \in Row
  BY DEF StoreInv, StoreTypeOK, Exists
<1>3. Failed(job[v], code).phase = "ERROR"
  BY <1>2, FailedColumns
<1>4. IsOpen(v) => job'[v] = Failed(job[v], code)
  BY <1>2, AllowedPhases DEF MarkFailed, Transition, IsOpen, OpenPhases, StoreInv, StoreTypeOK
<1> QED
  BY <1>1, <1>3, <1>4 DEF NothingOpens, IsOpen, OpenPhases

LEMMA LiveIsPending ==
  ASSUME IInv, NEW a \in ArqIds, IsLive(a)
  PROVE  AbortAnswer(a) = "pending"
BY ArqAssumption DEF IInv, RunInv, IsLive, AbortAnswer, Results

LEMMA WorkIsLive ==
  ASSUME IInv, NEW a \in ArqIds, WorksOn(a)
  PROVE  IsLive(a) /\ Visit(a) \in Visits
BY DEF IInv, RunInv, IsLive, WorksOn, Orphaned

LEMMA AttemptFrame ==
  ASSUME NEW a, AttemptInv(a), arq'[a] = arq[a], run'[a] = run[a],
         Awaited(a) => Awaited(a)'
  PROVE  AttemptInv(a)'
BY DEF AttemptInv, Orphaned, IsLive

\* A worker step hands on what job a owned, and takes nothing from the others.
LEMMA RunHandsOn ==
  ASSUME IInv, OwnerInv, NEW a \in ArqIds, UNCHANGED req,
         ArqMoves(a), \A b \in ArqIds \ {a} : run'[b] = run[b],
         NothingOpens, AttemptInv(a)',
         IsLive(a) \/ AbortAnswer(a)' = "True",
         WorksOn(a) => arq'[a].visit = arq[a].visit,
         WorksOn(a) => \/ WorksOn(a)'
                       \/ ~IsOpen(Visit(a))'
                       \/ Awaited(a) /\ AbortAnswer(a)' = "True"
  PROVE  OwnerInv'
<1>1. ASSUME NEW b \in ArqIds
      PROVE  AttemptInv(b)'
  BY AttemptFrame DEF OwnerInv, ArqMoves, Awaited
<1>2. ASSUME NEW r \in Requests, SeesToIt(r)
      PROVE  SeesToIt(r)'
  <2>1. CASE req[r].pc \in {"enqueue", "mark_failed"}
    BY <2>1 DEF SeesToIt
  <2>2. CASE req[r].pc = "abort_result" /\ AbortAnswer(req[r].arq) = "True"
    <3>1. PICK b \in ArqIds : b = req[r].arq
      BY <2>2 DEF IInv, RequestInv
    <3>2. AbortAnswer(b)' = "True"
      BY <2>2, <3>1, LiveIsPending DEF ArqMoves, AbortAnswer
    <3> QED
      BY <2>2, <3>1, <3>2 DEF SeesToIt, AbortAnswer
  <2> QED
    BY <1>2, <2>1, <2>2 DEF SeesToIt
<1>3. ASSUME NEW v \in Visits, IsOpen(v)'
      PROVE  Owned(v)'
  <2>1. Owned(v)
    BY <1>3 DEF OwnerInv, NothingOpens
  <2>2. CASE \E r \in Requests : req[r].visit = v /\ SeesToIt(r)
    BY <1>2, <2>2 DEF Owned
  <2>3. CASE \E b \in ArqIds \ {a} : Visit(b) = v /\ WorksOn(b)
    BY <2>3 DEF Owned, ArqMoves, Visit, WorksOn, Orphaned
  <2>4. CASE Visit(a) = v /\ WorksOn(a)
    <3>1. CASE WorksOn(a)'
      BY <2>4, <3>1 DEF Owned, Visit
    <3>2. CASE Awaited(a) /\ AbortAnswer(a)' = "True"
      <4>1. PICK r \in Requests : req[r].pc = "abort_result" /\ req[r].arq = a
        BY <3>2 DEF Awaited
      <4>2. req[r].visit = v
        BY <2>4, <4>1, WorkIsLive DEF IInv, RequestInv, IsFor, IsLive
      <4>3. SeesToIt(r)'
        BY <3>2, <4>1 DEF SeesToIt, AbortAnswer
      <4> QED
        BY <4>2, <4>3 DEF Owned
    <3>3. ~(~IsOpen(Visit(a))')
      BY <1>3, <2>4 DEF Visit, IsOpen, Exists
    <3> QED
      BY <2>4, <3>1, <3>2, <3>3
  <2> QED
    BY <2>1, <2>2, <2>3, <2>4 DEF Owned
<1> QED
  BY <1>1, <1>3 DEF OwnerInv

\* A step of run a that leaves arq alone, or only takes the abort it asked for.
LEMMA RunGoesOn ==
  ASSUME IInv, OwnerInv, NEW a \in ArqIds, run[a].pc # "none", UNCHANGED req,
         NothingOpens, ArqMoves(a),
         arq'[a].status = arq[a].status, arq'[a].visit = arq[a].visit,
         arq'[a].tries = arq[a].tries,
         arq'[a].abort => arq[a].abort,
         \A b \in ArqIds \ {a} : run'[b] = run[b],
         run'[a].pc # "none",
         run'[a].outcome = "retry" => run'[a].pc = "finally" /\ arq[a].tries < MaxTries,
         run'[a].outcome # "shutdown",
         run'[a].outcome = "abort" => run[a].outcome = "abort" \/ arq[a].abort,
         WorksOn(a) => WorksOn(a)' \/ ~IsOpen(Visit(a))'
  PROVE  OwnerInv'
<1>1. arq[a].status = "in_progress" /\ AttemptInv(a)
  BY DEF IInv, RunInv, OwnerInv
<1>2. AttemptInv(a)'
  BY <1>1 DEF AttemptInv, Orphaned, IsLive, Awaited
<1> QED
  BY <1>1, <1>2, RunHandsOn DEF IsLive

LEMMA RunAlone ==
  ASSUME IInv, NEW a \in ArqIds, UNCHANGED arq
  PROVE  /\ ArqMoves(a)
         /\ arq'[a].status = arq[a].status /\ arq'[a].visit = arq[a].visit
         /\ arq'[a].tries = arq[a].tries /\ arq'[a].abort = arq[a].abort
BY DEF IInv, TypeOK, ArqTypeOK, ArqMoves

LEMMA StartRunHandsOn ==
  ASSUME IInv, OwnerInv, NEW a \in ArqIds, StartRun(a), UNCHANGED req
  PROVE  OwnerInv'
<1>1. /\ ArqMoves(a) /\ arq[a].status = "queued" /\ arq'[a].status = "in_progress"
      /\ arq'[a].visit = arq[a].visit
  BY StartMoves DEF StartRun, IInv, TypeOK
<1>2. ~arq[a].abort /\ arq'[a].abort = arq[a].abort
  BY DEF StartRun, Start, StartsAborted, IInv, TypeOK, ArqTypeOK, ArqJob
<1>3. /\ \A b \in ArqIds \ {a} : run'[b] = run[b]
      /\ run'[a].pc = "mark_executing" /\ run'[a].outcome = run[a].outcome
  BY GoMoves DEF StartRun, TryBlock, IInv, TypeOK
<1>4. AttemptInv(a) /\ run[a].outcome = None /\ None # "retry" /\ None # "abort"
  BY <1>1, WorkerAssumption
  DEF OwnerInv, AttemptInv, IInv, RunInv, TypeOK, WorkerTypeOK, Run, Outcomes, Cancellations
<1>5. AttemptInv(a)'
  BY <1>1, <1>2, <1>3, <1>4 DEF AttemptInv, Orphaned
<1>6. WorksOn(a)' /\ NothingOpens
  BY <1>3, JobUntouchedOpensNothing DEF StartRun, WorksOn
<1> QED
  BY <1>1, <1>3, <1>5, <1>6, RunHandsOn DEF IsLive

\* arq refuses only a job whose abort somebody is waiting for: no job runs out
\* of tries.
LEMMA RefuseRunHandsOn ==
  ASSUME IInv, OwnerInv, NEW a \in ArqIds, RefuseRun(a), UNCHANGED req
  PROVE  OwnerInv'
<1>1. arq[a].status = "queued" /\ UNCHANGED <<job, run, obscore>>
  BY DEF RefuseRun, Refuse
<1>2. AttemptInv(a) /\ arq[a] \in ArqJob /\ run[a].pc = "none"
  BY <1>1 DEF OwnerInv, IInv, TypeOK, ArqTypeOK, RunInv
<1>3. arq[a].tries < MaxTries /\ arq[a].tries \in Nat /\ MaxTries \in Nat
  BY <1>1, <1>2, ArqAssumption DEF AttemptInv, ArqJob
<1>4. arq[a].abort /\ Completed(a, "cancelled")
  BY <1>3 DEF RefuseRun, Refuse, StartsExhausted, StartsAborted
<1>5. /\ ArqMoves(a) /\ arq'[a].status = "complete" /\ arq'[a].visit = arq[a].visit
      /\ arq'[a].result = "cancelled"
  BY <1>4, CompletedMoves DEF IInv, TypeOK, Results
<1>6. arq'[a].abort = FALSE
  BY <1>2, <1>4 DEF Completed, ArqJob, IInv, TypeOK, ArqTypeOK
<1>7. Awaited(a) /\ AbortAnswer(a)' = "True"
  BY <1>2, <1>4, <1>5 DEF AttemptInv, AbortAnswer
<1>8. run'[a] = run[a] /\ run[a].outcome = None /\ None \notin {"retry", "abort"}
  BY <1>1, <1>2, WorkerAssumption DEF AttemptInv, Outcomes, Cancellations
<1>9. AttemptInv(a)'
  BY <1>2, <1>5, <1>6, <1>8 DEF AttemptInv, Orphaned
<1> QED
  BY <1>1, <1>5, <1>7, <1>9, RunHandsOn, JobUntouchedOpensNothing

LEMMA InProgressExpiresHandsOn ==
  ASSUME IInv, OwnerInv, NEW a \in ArqIds, InProgressExpires(a), UNCHANGED req
  PROVE  OwnerInv'
<1>1. /\ arq[a].status = "in_progress" /\ run[a].pc = "none" /\ PutBack(a)
      /\ UNCHANGED <<job, run>>
  BY DEF InProgressExpires, At
<1>2. /\ ArqMoves(a) /\ arq'[a].status = "queued" /\ arq'[a].visit = arq[a].visit
      /\ arq'[a].tries = arq[a].tries /\ arq'[a].abort = arq[a].abort
  BY <1>1, PutBackMoves DEF IInv, TypeOK, ArqTypeOK, ArqJob, PutBack
<1>3. AttemptInv(a) /\ Orphaned(a)
  BY <1>1 DEF OwnerInv, Orphaned
<1>4. AttemptInv(a)' /\ WorksOn(a)'
  BY <1>1, <1>2, <1>3 DEF AttemptInv, WorksOn, IsLive, Awaited
<1> QED
  BY <1>1, <1>2, <1>4, RunHandsOn, JobUntouchedOpensNothing DEF IsLive

LEMMA ExpireHandsOn ==
  ASSUME IInv, OwnerInv, NEW a \in ArqIds, Expire(a), UNCHANGED req
  PROVE  OwnerInv'
<1>1. /\ arq[a].status = "complete" /\ arq' = [arq EXCEPT ![a] = Unknown]
      /\ ResultExpires(a) /\ UNCHANGED <<job, run>>
  BY DEF Expire, ResultExpires
<1>2. ArqMoves(a) /\ arq'[a] = Unknown
  BY <1>1, ResultExpiresMoves DEF IInv, TypeOK, ArqTypeOK
<1>3. run[a].pc = "none" /\ ~WorksOn(a)
  BY <1>1 DEF IInv, RunInv, WorksOn, Orphaned
<1>4. run[a].outcome = None /\ None \notin {"retry", "abort", "shutdown"}
  BY <1>3, WorkerAssumption DEF OwnerInv, AttemptInv, Outcomes, Cancellations
<1>5. run'[a] = run[a] /\ arq'[a].status = "unknown" /\ arq'[a].abort = FALSE
  BY <1>1, <1>2 DEF Unknown
<1>6. AttemptInv(a)'
  BY <1>4, <1>5 DEF AttemptInv, Orphaned
<1>7. AbortAnswer(a)' = "True"
  BY <1>2, <1>5, ArqAssumption DEF AbortAnswer, Unknown, Results
<1>8. NothingOpens /\ \A b \in ArqIds \ {a} : run'[b] = run[b]
  BY <1>1, JobUntouchedOpensNothing
<1> QED
  BY <1>2, <1>3, <1>6, <1>7, <1>8, RunHandsOn

\* An exception that will be recorded keeps the row owned by its run.
LEMMA FailHandsOn ==
  ASSUME IInv, OwnerInv, NEW a \in ArqIds, run[a].pc # "none",
         NEW code \in ErrorCodes, NEW outcome \in {"failure", "abort"},
         Fail(a, code, outcome), UNCHANGED <<arq, req>>, NothingOpens,
         outcome = "abort" => arq[a].abort
  PROVE  OwnerInv'
<1>1. /\ \A b \in ArqIds \ {a} : run'[b] = run[b]
      /\ run'[a].pc = "mark_failed" /\ run'[a].outcome = outcome
  BY FailMoves DEF IInv, TypeOK, Outcomes, Cancellations
<1>2. WorksOn(a)'
  BY <1>1 DEF WorksOn
<1> QED
  BY <1>1, <1>2, RunAlone, RunGoesOn

LEMMA RunMarkExecutingHandsOn ==
  ASSUME IInv, OwnerInv, NEW a \in ArqIds, RunMarkExecuting(a), UNCHANGED req
  PROVE  OwnerInv'
<1>1. /\ run[a].pc = "mark_executing" /\ MarkExecuting(Visit(a)) /\ UNCHANGED arq
      /\ Fail(a, "InvalidTransition", "failure") \/ Go(a, "enrich")
  BY DEF RunMarkExecuting, At
<1>2. NothingOpens
  BY <1>1, RunningFor, TransitionOpensNothing DEF MarkExecuting
<1>3. CASE Fail(a, "InvalidTransition", "failure")
  BY <1>1, <1>2, <1>3, FailHandsOn DEF ErrorCodes
<1>4. CASE Go(a, "enrich")
  <2>1. /\ \A b \in ArqIds \ {a} : run'[b] = run[b]
        /\ run'[a].pc = "enrich" /\ run'[a].outcome = run[a].outcome
    BY <1>4, GoMoves DEF IInv, TypeOK, TryBlock
  <2>2. WorksOn(a)' /\ run[a].outcome \notin {"retry", "shutdown"}
    BY <1>1, <2>1 DEF WorksOn, OwnerInv, AttemptInv
  <2> QED
    BY <1>1, <1>2, <2>1, <2>2, RunAlone, RunGoesOn
<1> QED
  BY <1>1, <1>3, <1>4

LEMMA EnrichHandsOn ==
  ASSUME IInv, OwnerInv, NEW a \in ArqIds, Enrich(a), UNCHANGED req
  PROVE  OwnerInv'
<1>1. run[a].pc = "enrich" /\ Go(a, "mark_completed") /\ UNCHANGED <<job, arq>>
  BY DEF Enrich, At
<1>2. /\ \A b \in ArqIds \ {a} : run'[b] = run[b]
      /\ run'[a].pc = "mark_completed" /\ run'[a].outcome = run[a].outcome
  BY <1>1, GoMoves DEF IInv, TypeOK, TryBlock
<1>3. WorksOn(a)' /\ run[a].outcome \notin {"retry", "shutdown"} /\ NothingOpens
  BY <1>1, <1>2, JobUntouchedOpensNothing DEF WorksOn, OwnerInv, AttemptInv
<1> QED
  BY <1>1, <1>2, <1>3, RunAlone, RunGoesOn

LEMMA EnrichFailsHandsOn ==
  ASSUME IInv, OwnerInv, NEW a \in ArqIds, EnrichFails(a), UNCHANGED req
  PROVE  OwnerInv'
BY FailHandsOn, JobUntouchedOpensNothing DEF EnrichFails, At, ErrorCodes

\* A run that asks for another try has one left.
LEMMA EnrichRetriesHandsOn ==
  ASSUME IInv, OwnerInv, NEW a \in ArqIds, EnrichRetries(a), UNCHANGED req
  PROVE  OwnerInv'
<1>1. run[a].pc = "enrich" /\ UNCHANGED <<job, arq>> /\ NothingOpens
  BY JobUntouchedOpensNothing DEF EnrichRetries, At
<1>2. CASE Fail(a, "RetriesExhausted", "failure")
  BY <1>1, <1>2, FailHandsOn DEF ErrorCodes
<1>3. CASE Leave(a, "retry") /\ arq[a].tries < MaxTries
  <2>1. /\ \A b \in ArqIds \ {a} : run'[b] = run[b]
        /\ run'[a].pc = "finally" /\ run'[a].outcome = "retry"
    BY <1>3, LeaveMoves DEF IInv, TypeOK, Outcomes
  <2>2. WorksOn(a)'
    BY <2>1 DEF WorksOn
  <2> QED
    BY <1>1, <1>3, <2>1, <2>2, RunAlone, RunGoesOn
<1> QED
  BY <1>2, <1>3 DEF EnrichRetries

\* mark_completed closes the row or is recorded as a failure.
LEMMA RunMarkCompletedHandsOn ==
  ASSUME IInv, OwnerInv, NEW a \in ArqIds, RunMarkCompleted(a), UNCHANGED req
  PROVE  OwnerInv'
<1>1. PICK v \in Visits : v = Visit(a)
  BY RunningFor DEF RunMarkCompleted, At
<1>2. /\ run[a].pc = "mark_completed" /\ MarkCompleted(v) /\ UNCHANGED arq
      /\ \/ Fail(a, "InvalidTransition", "failure")
         \/ Go(a, "committed") /\ ~Rejects("mark_completed", v)
  BY <1>1 DEF RunMarkCompleted, At
<1>3. StoreInv /\ Exists(v)
  BY <1>1, <1>2, RunningFor
<1>4. NothingOpens
  BY <1>2, <1>3, TransitionOpensNothing DEF MarkCompleted
<1>5. CASE Fail(a, "InvalidTransition", "failure")
  BY <1>2, <1>4, <1>5, FailHandsOn DEF ErrorCodes
<1>6. CASE Go(a, "committed") /\ ~Rejects("mark_completed", v)
  <2>1. /\ \A b \in ArqIds \ {a} : run'[b] = run[b]
        /\ run'[a].pc = "committed" /\ run'[a].outcome = run[a].outcome
    BY <1>6, GoMoves DEF IInv, TypeOK, TryBlock
  <2>2. ~IsOpen(v)'
    BY <1>2, <1>3, <1>6, MarkCompletedMoves DEF IsCompleted, IsOpen, OpenPhases
  <2>3. ~IsOpen(Visit(a))'
    BY <1>1, <1>2, <2>2 DEF Visit, IsOpen, Exists
  <2>4. run[a].outcome \notin {"retry", "shutdown"}
    BY <1>2 DEF OwnerInv, AttemptInv
  <2> QED
    BY <1>2, <1>4, <2>1, <2>3, <2>4, RunAlone, RunGoesOn
<1> QED
  BY <1>2, <1>5, <1>6

LEMMA ReturnHandsOn ==
  ASSUME IInv, OwnerInv, NEW a \in ArqIds, Return(a), UNCHANGED req
  PROVE  OwnerInv'
<1>1. run[a].pc = "committed" /\ Leave(a, "return") /\ UNCHANGED <<job, arq>> /\ NothingOpens
  BY JobUntouchedOpensNothing DEF Return, At
<1>2. /\ \A b \in ArqIds \ {a} : run'[b] = run[b]
      /\ run'[a].pc = "finally" /\ run'[a].outcome = "return"
  BY <1>1, LeaveMoves DEF IInv, TypeOK, Outcomes
<1>3. ~WorksOn(a)
  BY <1>1 DEF IInv, RunInv, WorksOn, Orphaned
<1> QED
  BY <1>1, <1>2, <1>3, RunAlone, RunGoesOn

LEMMA RunMarkFailedHandsOn ==
  ASSUME IInv, OwnerInv, NEW a \in ArqIds, RunMarkFailed(a), UNCHANGED req
  PROVE  OwnerInv'
<1>1. PICK v \in Visits : v = Visit(a)
  BY RunningFor DEF RunMarkFailed, At
<1>2. /\ run[a].pc = "mark_failed" /\ MarkFailed(v, run[a].code) /\ UNCHANGED arq
      /\ Leave(a, "failure") \/ Leave(a, run[a].outcome)
  BY <1>1 DEF RunMarkFailed, At
<1>3. StoreInv /\ Exists(v) /\ run[a].code \in ErrorCodes /\ run[a].outcome \in Outcomes
  BY <1>1, <1>2, RunningFor DEF RunInv
<1>4. NothingOpens /\ ~IsOpen(v)'
  BY <1>2, <1>3, MarkFailedCloses
<1>5. ~IsOpen(Visit(a))'
  BY <1>1, <1>2, <1>4 DEF Visit, IsOpen, Exists
<1>6. /\ \A b \in ArqIds \ {a} : run'[b] = run[b]
      /\ run'[a].pc = "finally" /\ run'[a].outcome \in {"failure", run[a].outcome}
  BY <1>2, <1>3, LeaveMoves DEF IInv, TypeOK, Outcomes
<1>7. run[a].outcome \notin {"retry", "shutdown"}
  BY <1>2 DEF OwnerInv, AttemptInv
<1> QED
  BY <1>2, <1>4, <1>5, <1>6, <1>7, RunAlone, RunGoesOn

\* The run hands the row to the DELETE that aborted it.
LEMMA CancelHandsOn ==
  ASSUME IInv, OwnerInv, NEW a \in ArqIds, Cancel(a, "abort"), UNCHANGED req
  PROVE  OwnerInv'
<1>1. /\ run[a].pc # "none" /\ UNCHANGED job /\ NothingOpens
      /\ Fail(a, "JobAborted", "abort") \/ Leave(a, "abort")
      /\ arq[a].abort /\ arq' = [arq EXCEPT ![a].abort = FALSE]
  BY JobUntouchedOpensNothing DEF Cancel, At, TryBlock
<1>2. /\ ArqMoves(a) /\ arq'[a].status = arq[a].status /\ arq'[a].visit = arq[a].visit
      /\ arq'[a].tries = arq[a].tries /\ arq'[a].abort = FALSE
  BY <1>1, SetAbortMoves DEF IInv, TypeOK, ArqTypeOK, ArqJob
<1>3. "JobAborted" \in ErrorCodes /\ "abort" \in Outcomes
  BY DEF ErrorCodes, Outcomes, Cancellations
<1>4. /\ \A b \in ArqIds \ {a} : run'[b] = run[b]
      /\ run'[a].pc \in {"mark_failed", "finally"} /\ run'[a].outcome = "abort"
  BY <1>1, <1>3, FailMoves, LeaveMoves DEF IInv, TypeOK
<1>5. WorksOn(a)'
  BY <1>4 DEF WorksOn
<1> QED
  BY <1>1, <1>2, <1>4, <1>5, RunGoesOn

\* A run that ends has closed its row, goes back to the queue, or was aborted.
LEMMA FinishHandsOn ==
  ASSUME IInv, OwnerInv, NEW a \in ArqIds, Finish(a), UNCHANGED req
  PROVE  OwnerInv'
<1>1. /\ run[a].pc = "finally" /\ Settle(a, run[a].outcome)
      /\ run' = [run EXCEPT ![a] = NoRun] /\ UNCHANGED job /\ NothingOpens
  BY JobUntouchedOpensNothing DEF Finish, At
<1>2. /\ WorkerTypeOK /\ ArqTypeOK /\ arq[a] \in ArqJob /\ IsLive(a)
      /\ arq[a].status = "in_progress" /\ run[a].outcome \in Outcomes
  BY <1>1, RunningFor DEF ArqTypeOK, RunInv, IsLive
<1>3. /\ \A b \in ArqIds \ {a} : run'[b] = run[b]
      /\ run'[a].pc = "none" /\ run'[a].outcome = None
      /\ None \notin {"retry", "shutdown", "abort"}
  BY <1>1, <1>2, StopMoves, WorkerAssumption DEF Outcomes, Cancellations
<1>4. AttemptInv(a)
  BY DEF OwnerInv
<1>5. CASE run[a].outcome = "retry"
  <2>1. PutBack(a)
    BY <1>1, <1>5 DEF Settle
  <2>2. /\ ArqMoves(a) /\ arq'[a].status = "queued" /\ arq'[a].visit = arq[a].visit
        /\ arq'[a].tries = arq[a].tries /\ arq'[a].abort = arq[a].abort
    BY <1>2, <2>1, PutBackMoves DEF PutBack, ArqTypeOK, ArqJob
  <2>3. AttemptInv(a)' /\ WorksOn(a)'
    BY <1>3, <1>4, <1>5, <2>2 DEF AttemptInv, WorksOn, IsLive, Awaited
  <2> QED
    BY <1>1, <1>2, <1>3, <2>2, <2>3, RunHandsOn
<1>6. CASE run[a].outcome # "retry"
  <2>1. PICK result \in Results :
          /\ Completed(a, result)
          /\ run[a].outcome = "abort" => result = "cancelled"
    BY <1>1, <1>2, <1>4, <1>6 DEF Settle, Outcomes, Cancellations, Results, AttemptInv
  <2>2. /\ ArqMoves(a) /\ arq'[a].status = "complete" /\ arq'[a].visit = arq[a].visit
        /\ arq'[a].result = result /\ arq'[a].abort = FALSE
    BY <1>2, <2>1, CompletedMoves DEF Completed, ArqTypeOK, ArqJob
  <2>3. AttemptInv(a)'
    BY <1>3, <2>2 DEF AttemptInv, Orphaned
  <2>4. WorksOn(a) => Awaited(a) /\ AbortAnswer(a)' = "True"
    BY <1>1, <1>2, <1>4, <1>6, <2>1, <2>2 DEF WorksOn, Orphaned, AttemptInv, AbortAnswer
  <2> QED
    BY <1>1, <1>2, <1>3, <2>2, <2>3, <2>4, RunHandsOn
<1> QED
  BY <1>5, <1>6

LEMMA RecoverableCrashHandsOn ==
  ASSUME IInv, OwnerInv, NEW a \in ArqIds, arq[a].tries < MaxTries, WorkerCrash(a),
         UNCHANGED req
  PROVE  OwnerInv'
<1>1. /\ run[a].pc # "none" /\ run' = [run EXCEPT ![a] = NoRun]
      /\ UNCHANGED <<job, arq>> /\ NothingOpens
  BY JobUntouchedOpensNothing DEF WorkerCrash, At
<1>2. /\ \A b \in ArqIds \ {a} : run'[b] = run[b]
      /\ run'[a].pc = "none" /\ run'[a].outcome = None
      /\ None \notin {"retry", "shutdown", "abort"}
  BY <1>1, StopMoves, WorkerAssumption DEF IInv, TypeOK, Outcomes, Cancellations
<1>3. arq[a].status = "in_progress" /\ AttemptInv(a)
  BY <1>1 DEF IInv, RunInv, OwnerInv
<1>4. AttemptInv(a)' /\ WorksOn(a)'
  BY <1>1, <1>2, <1>3 DEF AttemptInv, WorksOn, Orphaned, IsLive, Awaited
<1> QED
  BY <1>1, <1>2, <1>3, <1>4, RunAlone, RunHandsOn DEF IsLive

LEMMA WorkerHandsOn ==
  ASSUME Faults \subseteq Recoverable,
         IInv, OwnerInv, NEW a \in ArqIds, WorkerStep(a), UNCHANGED req
  PROVE  OwnerInv'
<1>1. CASE Proceed(a)
  BY <1>1, RunMarkExecutingHandsOn, EnrichHandsOn, RunMarkCompletedHandsOn, ReturnHandsOn,
     RunMarkFailedHandsOn, FinishHandsOn DEF Proceed
<1>2. CASE Dispatch(a)
  BY <1>2, StartRunHandsOn, RefuseRunHandsOn, InProgressExpiresHandsOn, ExpireHandsOn
  DEF Dispatch
<1>3. CASE Cancel(a, "abort")
  BY <1>3, CancelHandsOn
<1>4. CASE RunFault(a)
  BY <1>4, EnrichFailsHandsOn, EnrichRetriesHandsOn, RecoverableCrashHandsOn
  DEF RunFault, Recoverable
<1> QED
  BY <1>1, <1>2, <1>3, <1>4 DEF WorkerStep

\* A step of request r owes this to the rows and to the jobs.
LEMMA RequestHandsOn ==
  ASSUME OwnerInv, NEW r \in Requests,
         \A q \in Requests \ {r} : req'[q] = req[q],
         \A q \in Requests \ {r} : SeesToIt(q) => SeesToIt(q)',
         \A a \in ArqIds : WorksOn(a) => WorksOn(a)' /\ arq'[a].visit = arq[a].visit,
         \A a \in ArqIds : AttemptInv(a)',
         \A v \in Visits : IsOpen(v)' => IsOpen(v) \/ Owned(v)',
         \A v \in Visits : SeesToIt(r) /\ req[r].visit = v /\ IsOpen(v)' => Owned(v)'
  PROVE  OwnerInv'
<1>1. ASSUME NEW v \in Visits, IsOpen(v)', IsOpen(v)
      PROVE  Owned(v)'
  <2>1. CASE \E a \in ArqIds : Visit(a) = v /\ WorksOn(a)
    BY <2>1 DEF Owned, Visit
  <2>2. CASE \E q \in Requests \ {r} : req[q].visit = v /\ SeesToIt(q)
    BY <2>2 DEF Owned
  <2>3. CASE req[r].visit = v /\ SeesToIt(r)
    BY <1>1, <2>3
  <2> QED
    BY <1>1, <2>1, <2>2, <2>3 DEF OwnerInv, Owned
<1> QED
  BY <1>1 DEF OwnerInv

\* A request that has stopped waiting for a job has seen its end.
LEMMA AttemptsKeep ==
  ASSUME IInv, OwnerInv, NEW r \in Requests, UNCHANGED <<arq, run>>,
         \A q \in Requests \ {r} : req'[q] = req[q],
         req[r].pc = "abort_result" => ~IsLive(req[r].arq),
         NEW a \in ArqIds
  PROVE  AttemptInv(a)'
<1>1. AttemptInv(a)
  BY DEF OwnerInv
<1>2. CASE IsLive(a)
  <2>1. Awaited(a) => Awaited(a)'
    BY <1>2 DEF Awaited
  <2> QED
    BY <1>1, <2>1, AttemptFrame
<1>3. CASE ~IsLive(a)
  <2>1. run[a].pc = "none" /\ ~arq[a].abort
    BY <1>1, <1>3 DEF IInv, RunInv, IsLive, AttemptInv
  <2>2. run[a].outcome = None /\ None # "abort"
    BY <1>1, <2>1, WorkerAssumption DEF AttemptInv, Outcomes, Cancellations
  <2> QED
    BY <1>1, <2>1, <2>2 DEF AttemptInv, Orphaned, IsLive
<1> QED
  BY <1>2, <1>3

\* A step on the database, or one that only reads.
LEMMA RequestGoesOn ==
  ASSUME IInv, OwnerInv, NEW r \in Requests, UNCHANGED <<arq, run>>,
         \A q \in Requests \ {r} : req'[q] = req[q],
         req[r].pc = "abort_result" => ~IsLive(req[r].arq),
         \A v \in Visits : IsOpen(v)' => IsOpen(v) \/ Owned(v)',
         \A v \in Visits : SeesToIt(r) /\ req[r].visit = v /\ IsOpen(v)' => Owned(v)'
  PROVE  OwnerInv'
<1>1. \A a \in ArqIds : AttemptInv(a)'
  BY AttemptsKeep
<1>2. \A q \in Requests \ {r} : SeesToIt(q) => SeesToIt(q)'
  BY DEF SeesToIt, AbortAnswer
<1>3. \A a \in ArqIds : WorksOn(a) => WorksOn(a)' /\ arq'[a].visit = arq[a].visit
  BY DEF WorksOn, Orphaned
<1> QED
  BY <1>1, <1>2, <1>3, RequestHandsOn

\* The other requests stay where they are.
LEMMA OthersWait ==
  ASSUME IInv, NEW r \in Requests, NEW request, req' = [req EXCEPT ![r] = request]
  PROVE  req'[r] = request /\ \A q \in Requests \ {r} : req'[q] = req[q]
BY DEF IInv, TypeOK, ServiceTypeOK

\* A request that owns nothing moves on, and opens nothing.
LEMMA BystanderMovesOn ==
  ASSUME IInv, OwnerInv, NEW r \in Requests, UNCHANGED <<arq, run>>, NothingOpens,
         ~SeesToIt(r), req[r].pc = "abort_result" => ~IsLive(req[r].arq),
         NEW request, req' = [req EXCEPT ![r] = request]
  PROVE  OwnerInv'
BY OthersWait, RequestGoesOn DEF NothingOpens

\* Registering opens a row only if it goes on to enqueue a job for it.
LEMMA RegisterHandsOn ==
  ASSUME IInv, OwnerInv, NEW r \in Requests, NEW v \in Visits, Register(r, v), UNCHANGED run
  PROVE  OwnerInv'
<1> DEFINE row == AddedOrGot(job[v])
<1>1. /\ req[r].pc = "idle" /\ UNCHANGED arq /\ AddOrGet(v) /\ StoreInv
      /\ IF ShouldEnqueue(row)
           THEN req' = [req EXCEPT ![r] = [Idle EXCEPT !.pc = "enqueue", !.visit = v]]
           ELSE req' = [req EXCEPT ![r] = Idle]
  BY StoreInvHolds DEF Register, IsIdle, Waiting, Await, Respond
<1>2. job'[v] = row /\ \A u \in Visits \ {v} : job'[u] = job[u]
  BY <1>1, AddOrGetEffect DEF StoreInv
<1>3. \A q \in Requests \ {r} : req'[q] = req[q]
  BY <1>1, OthersWait
<1>4. ~SeesToIt(r)
  BY <1>1 DEF SeesToIt
<1>5. ASSUME IsOpen(v)', ~IsOpen(v)
      PROVE  Owned(v)'
  <2>1. ShouldEnqueue(row)
    <3>1. CASE job[v] = NoRow
      BY <3>1 DEF AddedOrGot, NewRow, ShouldEnqueue
    <3>2. CASE job[v] \in Row
      <4>1. job[v].phase = "ERROR"
        BY <1>2, <1>5, <3>2, NoRowAssumption DEF AddedOrGot, IsOpen, Exists
      <4> QED
        BY <3>2, <4>1, NoRowAssumption, RequeuedColumns DEF AddedOrGot, ShouldEnqueue, NewRow
    <3> QED
      BY <1>1, <3>1, <3>2 DEF StoreInv, StoreTypeOK
  <2>2. req' = [req EXCEPT ![r] = [Idle EXCEPT !.pc = "enqueue", !.visit = v]]
    BY <1>1, <2>1
  <2>3. req'[r] = [Idle EXCEPT !.pc = "enqueue", !.visit = v]
    BY <2>2, OthersWait
  <2>4. req'[r].pc = "enqueue" /\ req'[r].visit = v
    BY <2>3 DEF Idle
  <2> QED
    BY <2>4 DEF Owned, SeesToIt
<1>6. ASSUME NEW u \in Visits, IsOpen(u)'
      PROVE  IsOpen(u) \/ Owned(u)'
  BY <1>2, <1>5, <1>6 DEF IsOpen, Exists
<1> QED
  BY <1>1, <1>3, <1>4, <1>6, RequestGoesOn

\* The job that a request enqueues owns its visit from now on.
LEMMA EnqueueHandsOn ==
  ASSUME IInv, OwnerInv, NEW r \in Requests, Enqueue(r), UNCHANGED run
  PROVE  OwnerInv'
<1>1. PICK a \in ArqIds :
        /\ Fresh(a) /\ EnqueueJob(a, req[r].visit)
        /\ req' = [req EXCEPT ![r] = [req[r] EXCEPT !.pc = "set_arq_job_id", !.arq = a]]
  BY DEF Enqueue, Await
<1>2. req[r].pc = "enqueue" /\ UNCHANGED job /\ NothingOpens
  BY JobUntouchedOpensNothing DEF Enqueue, Waiting
<1>3. PICK v \in Visits : v = req[r].visit
  BY <1>2, InFlight
<1>4. ArqMoves(a) /\ arq'[a].status = "queued" /\ arq'[a].visit = v
  BY <1>1, <1>3, EnqueueJobMoves DEF IInv, TypeOK
<1>5. arq'[a].tries = 0 /\ arq'[a].abort = FALSE
  BY <1>1 DEF EnqueueJob, Unknown, IInv, TypeOK, ArqTypeOK
<1>6. arq[a].status = "unknown" /\ \A q \in Requests : req[q].arq # a
  BY <1>1 DEF Fresh, Unknown
<1>7. \A q \in Requests \ {r} : req'[q] = req[q]
  BY <1>1, OthersWait
<1>8. ASSUME NEW q \in Requests \ {r}, SeesToIt(q)
      PROVE  SeesToIt(q)'
  <2>1. CASE req[q].pc = "abort_result"
    <3>1. PICK b \in ArqIds : b = req[q].arq
      BY <2>1 DEF IInv, RequestInv
    <3>2. arq'[b] = arq[b]
      BY <1>4, <1>6, <3>1 DEF ArqMoves
    <3> QED
      BY <1>7, <1>8, <3>1, <3>2 DEF SeesToIt, AbortAnswer
  <2> QED
    BY <1>7, <1>8, <2>1 DEF SeesToIt
<1>9. ASSUME NEW b \in ArqIds, WorksOn(b)
      PROVE  WorksOn(b)' /\ arq'[b].visit = arq[b].visit
  <2>1. b # a
    BY <1>6, <1>9, WorkIsLive DEF IsLive
  <2> QED
    BY <1>4, <1>9, <2>1 DEF ArqMoves, WorksOn, Orphaned
<1>10. ASSUME NEW b \in ArqIds
       PROVE  AttemptInv(b)'
  <2>1. AttemptInv(b)
    BY DEF OwnerInv
  <2>2. CASE b = a
    <3>1. run'[a] = run[a] /\ run[a].pc = "none"
      BY <1>6 DEF IInv, RunInv
    <3>2. run[a].outcome = None /\ None \notin {"retry", "shutdown", "abort"}
      BY <2>1, <2>2, <3>1, WorkerAssumption DEF AttemptInv, Outcomes, Cancellations
    <3>3. 0 < MaxTries
      BY ArqAssumption
    <3> QED
      BY <1>4, <1>5, <2>2, <3>1, <3>2, <3>3 DEF AttemptInv
  <2>3. CASE b # a
    <3>1. Awaited(b) => Awaited(b)'
      BY <1>2, <1>7 DEF Awaited
    <3> QED
      BY <1>4, <2>1, <2>3, <3>1, AttemptFrame DEF ArqMoves
  <2> QED
    BY <2>2, <2>3
<1>11. Owned(v)'
  BY <1>4 DEF Owned, WorksOn, Visit
<1>12. \A u \in Visits : SeesToIt(r) /\ req[r].visit = u /\ IsOpen(u)' => Owned(u)'
  BY <1>3, <1>11
<1> QED
  BY <1>2, <1>7, <1>8, <1>9, <1>10, <1>12, RequestHandsOn DEF NothingOpens

LEMMA SetArqJobIdHandsOn ==
  ASSUME IInv, OwnerInv, NEW r \in Requests, SetArqJobId(r), UNCHANGED run
  PROVE  OwnerInv'
<1>1. /\ req[r].pc = "set_arq_job_id" /\ UNCHANGED arq /\ req' = [req EXCEPT ![r] = Idle]
      /\ SetArqJobIdAndMarkQueued(req[r].visit, req[r].arq)
  BY DEF SetArqJobId, Waiting, Answer, Respond
<1>2. NothingOpens
  BY <1>1, InFlight, TransitionOpensNothing DEF SetArqJobIdAndMarkQueued
<1> QED
  BY <1>1, <1>2, BystanderMovesOn DEF SeesToIt

LEMMA GetHandsOn ==
  ASSUME IInv, OwnerInv, NEW r \in Requests, NEW v \in Visits, Get(r, v), UNCHANGED run
  PROVE  OwnerInv'
<1>1. req[r].pc = "idle" /\ UNCHANGED <<job, arq>>
  BY DEF Get, IsIdle, Waiting
<1>2. \/ \E call, a, status : Respond(r, call, v, a, status)
      \/ \E request : Await(r, request)
  BY DEF Get
<1>3. \E request : req' = [req EXCEPT ![r] = request]
  BY <1>2 DEF Respond, Await
<1> QED
  BY <1>1, <1>3, BystanderMovesOn, JobUntouchedOpensNothing DEF SeesToIt

LEMMA GetStatusHandsOn ==
  ASSUME IInv, OwnerInv, NEW r \in Requests, GetStatus(r), UNCHANGED run
  PROVE  OwnerInv'
<1>1. /\ req[r].pc = "status" /\ UNCHANGED <<job, arq>>
      /\ \E request : req' = [req EXCEPT ![r] = request]
  BY DEF GetStatus, Waiting, Answer, Respond, Await
<1> QED
  BY <1>1, BystanderMovesOn, JobUntouchedOpensNothing DEF SeesToIt

LEMMA GetSucceededHandsOn ==
  ASSUME IInv, OwnerInv, NEW r \in Requests, GetSucceeded(r), UNCHANGED run
  PROVE  OwnerInv'
<1>1. /\ req[r].pc = "succeeded" /\ UNCHANGED <<job, arq>>
      /\ req' = [req EXCEPT ![r] = Idle]
  BY DEF GetSucceeded, Waiting, Answer, Respond
<1> QED
  BY <1>1, BystanderMovesOn, JobUntouchedOpensNothing DEF SeesToIt

LEMMA AbortHandsOn ==
  ASSUME IInv, OwnerInv, NEW r \in Requests, NEW v \in Visits, Abort(r, v), UNCHANGED run
  PROVE  OwnerInv'
<1>1. req[r].pc = "idle" /\ UNCHANGED <<job, arq>>
  BY DEF Abort, IsIdle, Waiting
<1>2. \/ \E call, a, status : Respond(r, call, v, a, status)
      \/ \E request : Await(r, request)
  BY DEF Abort
<1>3. \E request : req' = [req EXCEPT ![r] = request]
  BY <1>2 DEF Respond, Await
<1> QED
  BY <1>1, <1>3, BystanderMovesOn, JobUntouchedOpensNothing DEF SeesToIt

\* Whoever asks for the abort of a live job waits for it.
LEMMA AbortRequestHandsOn ==
  ASSUME IInv, OwnerInv, NEW r \in Requests, AbortRequest(r), UNCHANGED run
  PROVE  OwnerInv'
<1>1. PICK a \in ArqIds : a = req[r].arq
  BY InFlight DEF AbortRequest, Waiting
<1>2. /\ req[r].pc = "abort" /\ FlagAbort(a) /\ UNCHANGED job /\ NothingOpens
      /\ req' = [req EXCEPT ![r] = [req[r] EXCEPT !.pc = "abort_result"]]
  BY <1>1, JobUntouchedOpensNothing DEF AbortRequest, Waiting, Await
<1>3. ~SeesToIt(r)
  BY <1>2 DEF SeesToIt
<1>4. CASE UNCHANGED arq
  BY <1>2, <1>3, <1>4, BystanderMovesOn
<1>5. CASE IsLive(a) /\ arq' = [arq EXCEPT ![a].abort = TRUE]
  <2>1. /\ ArqMoves(a) /\ arq'[a].status = arq[a].status /\ arq'[a].visit = arq[a].visit
        /\ arq'[a].result = arq[a].result /\ arq'[a].tries = arq[a].tries
    BY <1>5, SetAbortMoves DEF IInv, TypeOK, ArqTypeOK, ArqJob
  <2>2. /\ req'[r] = [req[r] EXCEPT !.pc = "abort_result"]
        /\ \A q \in Requests \ {r} : req'[q] = req[q]
    BY <1>2, OthersWait
  <2>3. req'[r].pc = "abort_result" /\ req'[r].arq = a
    BY <1>1, <2>2, InFlight DEF Request
  <2>4. ASSUME NEW b \in ArqIds
        PROVE  AttemptInv(b)'
    <3>1. AttemptInv(b) /\ (Awaited(b) => Awaited(b)')
      BY <1>2, <2>2 DEF OwnerInv, Awaited
    <3>2. CASE b # a
      BY <2>1, <3>1, <3>2, AttemptFrame DEF ArqMoves
    <3>3. CASE b = a
      <4>1. Awaited(a)' /\ IsLive(a)'
        BY <1>5, <2>1, <2>3 DEF Awaited, IsLive
      <4> QED
        BY <2>1, <3>1, <3>3, <4>1 DEF AttemptInv, Orphaned
    <3> QED
      BY <3>2, <3>3
  <2>5. ASSUME NEW b \in ArqIds
        PROVE  /\ AbortAnswer(b)' = AbortAnswer(b)
               /\ WorksOn(b) => WorksOn(b)' /\ arq'[b].visit = arq[b].visit
    BY <2>1 DEF ArqMoves, AbortAnswer, WorksOn, Orphaned
  <2>6. ASSUME NEW q \in Requests \ {r}, SeesToIt(q)
        PROVE  SeesToIt(q)'
    <3>1. CASE req[q].pc = "abort_result"
      <4>1. PICK b \in ArqIds : b = req[q].arq
        BY <3>1 DEF IInv, RequestInv
      <4> QED
        BY <2>2, <2>5, <2>6, <4>1 DEF SeesToIt, AbortAnswer
    <3> QED
      BY <2>2, <2>6, <3>1 DEF SeesToIt
  <2> QED
    BY <1>2, <1>3, <2>2, <2>4, <2>5, <2>6, RequestHandsOn DEF NothingOpens
<1> QED
  BY <1>2, <1>4, <1>5 DEF FlagAbort, IsLive

\* A confirmed abort is recorded next.
LEMMA AbortResultHandsOn ==
  ASSUME IInv, OwnerInv, NEW r \in Requests, AbortResult(r), UNCHANGED run
  PROVE  OwnerInv'
<1>1. /\ req[r].pc = "abort_result" /\ UNCHANGED <<job, arq>> /\ NothingOpens
      /\ AbortAnswer(req[r].arq) \in {"True", "False", "raises"}
  BY JobUntouchedOpensNothing DEF AbortResult, Waiting
<1>2. PICK a \in ArqIds : a = req[r].arq
  BY <1>1, InFlight
<1>3. ~IsLive(req[r].arq)
  BY <1>1, <1>2, LiveIsPending
<1>4. CASE /\ AbortAnswer(req[r].arq) # "True"
           /\ req' = [req EXCEPT ![r] = Idle]
  <2>1. ~SeesToIt(r)
    BY <1>1, <1>4 DEF SeesToIt
  <2> QED
    BY <1>1, <1>3, <1>4, <2>1, BystanderMovesOn
<1>5. CASE req' = [req EXCEPT ![r] = [req[r] EXCEPT !.pc = "mark_failed"]]
  <2>1. /\ req'[r] = [req[r] EXCEPT !.pc = "mark_failed"]
        /\ \A q \in Requests \ {r} : req'[q] = req[q]
    BY <1>5, OthersWait
  <2>2. req'[r].pc = "mark_failed" /\ req'[r].visit = req[r].visit
    BY <2>1, InFlight DEF Request
  <2>3. \A v \in Visits : req[r].visit = v => Owned(v)'
    BY <2>2 DEF Owned, SeesToIt
  <2> QED
    BY <1>1, <1>3, <2>1, <2>3, RequestGoesOn DEF NothingOpens
<1> QED
  BY <1>4, <1>5 DEF AbortResult, Await, Answer, Respond

LEMMA AbortMarkFailedHandsOn ==
  ASSUME IInv, OwnerInv, NEW r \in Requests, AbortMarkFailed(r), UNCHANGED run
  PROVE  OwnerInv'
<1>1. /\ req[r].pc = "mark_failed" /\ UNCHANGED arq /\ req' = [req EXCEPT ![r] = Idle]
      /\ MarkFailed(req[r].visit, "JobAborted")
  BY DEF AbortMarkFailed, Waiting, Answer, Respond
<1>2. PICK v \in Visits : v = req[r].visit
  BY <1>1, InFlight
<1>3. NothingOpens /\ ~IsOpen(v)'
  BY <1>1, <1>2, InFlight, MarkFailedCloses DEF ErrorCodes
<1> QED
  BY <1>1, <1>2, <1>3, OthersWait, RequestGoesOn DEF NothingOpens

LEMMA ApiHandsOn ==
  ASSUME Faults \subseteq Recoverable, IInv, OwnerInv, NEW r \in Requests, Api(ApiStep(r))
  PROVE  OwnerInv'
<1>1. UNCHANGED run
  BY DEF Api
<1>2. CASE \E v \in Visits : Arrive(r, v)
  BY <1>1, <1>2, RegisterHandsOn, GetHandsOn, AbortHandsOn DEF Arrive
<1>3. CASE Continue(r)
  BY <1>1, <1>3, EnqueueHandsOn, SetArqJobIdHandsOn, GetStatusHandsOn, GetSucceededHandsOn,
     AbortRequestHandsOn, AbortResultHandsOn, AbortMarkFailedHandsOn DEF Continue
<1>4. ~RequestFault(r)
  BY DEF RequestFault, Recoverable
<1> QED
  BY <1>2, <1>3, <1>4 DEF Api, ApiStep

LEMMA OwnerInvInit == Init => OwnerInv
<1> SUFFICES ASSUME Init
             PROVE  OwnerInv
  OBVIOUS
<1>1. ASSUME NEW a \in ArqIds
      PROVE  AttemptInv(a)
  <2>1. arq[a] = Unknown /\ run[a] = NoRun
    BY DEF Init, ArqInit, WorkerInit
  <2>2. None \notin {"retry", "shutdown", "abort"}
    BY WorkerAssumption DEF Outcomes, Cancellations
  <2> QED
    BY <2>1, <2>2 DEF AttemptInv, Orphaned, Unknown, NoRun
<1>2. \A v \in Visits : ~IsOpen(v)
  BY DEF Init, StoreInit, IsOpen, Exists
<1> QED
  BY <1>1, <1>2 DEF OwnerInv

LEMMA OwnerInvStep ==
  ASSUME Faults \subseteq Recoverable
  PROVE  IInv /\ OwnerInv /\ [Next]_vars => OwnerInv'
<1> SUFFICES ASSUME IInv, OwnerInv, [Next]_vars
             PROVE  OwnerInv'
  OBVIOUS
<1>1. CASE UNCHANGED vars
  BY <1>1 DEF vars, OwnerInv, AttemptInv, Owned, SeesToIt, WorksOn, Orphaned, Awaited,
     IsLive, IsOpen, Exists, Visit, AbortAnswer
<1>2. ASSUME NEW r \in Requests, Api(ApiStep(r))
      PROVE  OwnerInv'
  BY <1>2, ApiHandsOn
<1>3. ASSUME NEW a \in ArqIds, WorkerStep(a), UNCHANGED req
      PROVE  OwnerInv'
  BY <1>3, WorkerHandsOn
<1> QED
  BY <1>1, <1>2, <1>3 DEF Next

(* Unless something fails that neither arq nor the handlers make good, no    *)
(* open visit is forgotten: whichever requests and runs race, an arq job     *)
(* will still work on it, or a request is about to enqueue one or to record  *)
(* its abort.                                                                *)
THEOREM VisitsStayOwned ==
  ASSUME Faults \subseteq Recoverable
  PROVE  Spec => []NoVisitIsLost
<1>1. IInv /\ OwnerInv => NoVisitIsLost
  <2> SUFFICES ASSUME IInv, OwnerInv, NEW v \in Visits, IsOpen(v)
               PROVE  \/ \E a \in ArqIds : IsLive(a) /\ Visit(a) = v
                      \/ \E r \in Requests :
                           /\ req[r].visit = v
                           /\ req[r].pc \in {"enqueue", "abort_result", "mark_failed"}
    BY DEF NoVisitIsLost
  <2>1. Owned(v)
    BY DEF OwnerInv
  <2> QED
    BY <2>1, WorkIsLive DEF Owned, SeesToIt
<1>2. IInv /\ OwnerInv /\ [Next]_vars => OwnerInv'
  BY OwnerInvStep
<1> QED
  BY <1>1, <1>2, OwnerInvInit, InvariantHolds, PTL DEF Spec
-----------------------------------------------------------------------------
(* One writer, one attempt.  When nobody else is registering or aborting the *)
(* visit, no crash or shutdown starts a job again behind its back, and no    *)
(* POST that fails leaves a job behind whose id no row has, a job is         *)
(* enqueued only for a visit that nothing works on, and the arq id in a row, *)
(* once there, is that of the only attempt.                                  *)

\* The faults that end an attempt or let it go on, and leave no job that its row
\* does not name.
Ending == AllFaults \ {"worker_crash", "recoverable_crash", "shutdown",
                       "api_crash", "enqueue_unanswered", "id_not_recorded"}

\* An attempt that may still write the row of its visit or be made again.
IsBusy(a) ==
  \/ arq[a].status = "queued"
  \/ run[a].pc \in TryBlock \cup {"mark_failed"}
  \/ run[a].pc = "finally" /\ run[a].outcome = "retry"

NoneBusy(v) == \A a \in ArqIds : Visit(a) = v => ~IsBusy(a)

OnlyBusy(v, b) == \A a \in ArqIds : Visit(a) = v /\ IsBusy(a) => a = b

\* No job is put back but for its own Retry.
UprightInv(a) ==
  /\ arq[a].status = "in_progress" => run[a].pc # "none"
  /\ run[a].outcome = "retry" => run[a].pc = "finally"
  /\ run[a].outcome # "shutdown"

Registers(r, v) == req[r].pc \in {"enqueue", "set_arq_job_id"} /\ req[r].visit = v

\* What a row says of the attempts at its visit.
SoleInv(v) ==
  /\ \A a, b \in ArqIds : Visit(a) = v /\ IsBusy(a) /\ Visit(b) = v /\ IsBusy(b) => a = b
  /\ Exists(v) =>
       /\ job[v].phase = "ERROR" => NoneBusy(v)
       /\ job[v].arq_job_id # None => OnlyBusy(v, job[v].arq_job_id)
       /\ ShouldEnqueue(job[v]) /\ (\A r \in Requests : ~Registers(r, v)) => NoneBusy(v)

\* What the client knows of the attempts at the visit of its request.
ClientInv(r) ==
  /\ req[r].pc = "enqueue" =>
       ShouldEnqueue(job[req[r].visit]) /\ NoneBusy(req[r].visit)
  /\ req[r].pc = "set_arq_job_id" =>
       job[req[r].visit].arq_job_id = None /\ OnlyBusy(req[r].visit, req[r].arq)
  /\ req[r].pc \in {"abort", "abort_result", "mark_failed"} =>
       OnlyBusy(req[r].visit, req[r].arq)

SoleAttemptInv ==
  /\ \A a \in ArqIds : UprightInv(a)
  /\ \A v \in Visits : SoleInv(v)
  /\ \A r \in Requests : ClientInv(r)

LEMMA BusyIsLive ==
  ASSUME IInv, NEW a \in ArqIds, IsBusy(a)
  PROVE  IsLive(a) /\ Visit(a) \in Visits /\ Exists(Visit(a))
BY DEF IInv, RunInv, IsLive, IsBusy, TryBlock

\* What a run may do to the row of its visit: it keeps the arq id, takes the row
\* out of the waiting phases if it changes it, and records a failure as it ends.
RowAdvances(a, v) ==
  /\ Exists(v) /\ Exists(v)'
  /\ job'[v].arq_job_id = job[v].arq_job_id
  /\ job'[v].phase \notin {"PENDING", "QUEUED"}
  /\ job'[v].phase = "ERROR" => ~IsBusy(a)'

\* It changes no other row.
RunWrites(a) ==
  \A v \in Visits : job'[v] = job[v] \/ (Visit(a) = v /\ RowAdvances(a, v))

LEMMA WritesNothing ==
  ASSUME UNCHANGED job, NEW a \in ArqIds
  PROVE  RunWrites(a)
BY DEF RunWrites

\* A step of the worker starts no attempt, and moves only the row it works on.
LEMMA RunLeaves ==
  ASSUME IInv, SoleAttemptInv, NEW a \in ArqIds, UNCHANGED req,
         ArqMoves(a), \A b \in ArqIds \ {a} : run'[b] = run[b],
         UprightInv(a)',
         IsBusy(a)' => IsBusy(a) /\ arq'[a].visit = arq[a].visit,
         RunWrites(a), UNCHANGED job \/ IsBusy(a)
  PROVE  SoleAttemptInv'
<1>. \A v \in Visits : \/ job'[v] = job[v]
                       \/ IsBusy(a) /\ Visit(a) = v /\ RowAdvances(a, v)
  BY DEF RunWrites
<1>1. ASSUME NEW b \in ArqIds, b # a
      PROVE  /\ IsBusy(b)' <=> IsBusy(b)
             /\ Visit(b)' = Visit(b)
             /\ UprightInv(b)'
  BY <1>1 DEF SoleAttemptInv, UprightInv, IsBusy, ArqMoves, Visit
<1>2. ASSUME NEW b \in ArqIds, IsBusy(b)'
      PROVE  IsBusy(b) /\ Visit(b)' = Visit(b)
  BY <1>1, <1>2 DEF Visit
<1>3. ASSUME NEW v
      PROVE  /\ NoneBusy(v) => NoneBusy(v)'
             /\ \A id : OnlyBusy(v, id) =>
                  \A b \in ArqIds : Visit(b)' = v /\ IsBusy(b)' => b = id
  BY <1>2 DEF NoneBusy, OnlyBusy
<1>4. ASSUME NEW v \in Visits
      PROVE  SoleInv(v)'
  <2>1. SoleInv(v)
    BY DEF SoleAttemptInv
  <2>2. ASSUME NEW b \in ArqIds, NEW c \in ArqIds,
               Visit(b)' = v, IsBusy(b)', Visit(c)' = v, IsBusy(c)'
        PROVE  b = c
    <3>1. Visit(b) = v /\ IsBusy(b) /\ Visit(c) = v /\ IsBusy(c)
      BY <1>2, <2>2
    <3> QED
      BY <2>1, <3>1 DEF SoleInv
  <2>3. CASE job'[v] = job[v]
    <3>1. ASSUME Exists(v)', job'[v].phase = "ERROR"
          PROVE  NoneBusy(v)'
      <4>1. NoneBusy(v)
        BY <2>1, <2>3, <3>1 DEF SoleInv, Exists
      <4> QED
        BY <1>3, <4>1
    <3>2. ASSUME Exists(v)', job'[v].arq_job_id # None
          PROVE  OnlyBusy(v, job[v].arq_job_id)'
      <4>1. PICK id : id = job[v].arq_job_id
        OBVIOUS
      <4>2. OnlyBusy(v, id)
        BY <2>1, <2>3, <3>2, <4>1 DEF SoleInv, Exists
      <4>3. \A b \in ArqIds : Visit(b)' = v /\ IsBusy(b)' => b = id
        BY <1>3, <4>2
      <4> QED
        BY <2>3, <4>1, <4>3 DEF OnlyBusy
    <3>3. ASSUME Exists(v)', ShouldEnqueue(job[v])',
                 \A r \in Requests : ~Registers(r, v)'
          PROVE  NoneBusy(v)'
      <4>1. ShouldEnqueue(job[v]) /\ Exists(v)
        BY <2>3, <3>3 DEF ShouldEnqueue, Exists
      <4>2. \A r \in Requests : ~Registers(r, v)
        BY <3>3 DEF Registers
      <4>3. NoneBusy(v)
        BY <2>1, <4>1, <4>2 DEF SoleInv
      <4> QED
        BY <1>3, <4>3
    <3> QED
      BY <2>2, <3>1, <3>2, <3>3 DEF SoleInv
  <2>4. CASE IsBusy(a) /\ Visit(a) = v /\ RowAdvances(a, v)
    <3>1. ASSUME NEW b \in ArqIds, Visit(b)' = v, IsBusy(b)'
          PROVE  b = a
      <4>1. Visit(b) = v /\ IsBusy(b)
        BY <1>2, <3>1
      <4> QED
        BY <2>1, <2>4, <4>1 DEF SoleInv
    <3>2. ASSUME job'[v].phase = "ERROR"
          PROVE  NoneBusy(v)'
      BY <2>4, <3>1, <3>2 DEF RowAdvances, NoneBusy
    <3>3. ASSUME job'[v].arq_job_id # None
          PROVE  OnlyBusy(v, job[v].arq_job_id)'
      <4>1. a = job[v].arq_job_id
        BY <2>1, <2>4, <3>3 DEF SoleInv, RowAdvances, OnlyBusy
      <4>2. a = job'[v].arq_job_id
        BY <2>4, <4>1 DEF RowAdvances
      <4> QED
        BY <3>1, <4>2 DEF OnlyBusy
    <3>4. ~ShouldEnqueue(job[v])'
      BY <2>4 DEF RowAdvances, ShouldEnqueue
    <3> QED
      BY <2>2, <3>2, <3>3, <3>4 DEF SoleInv
  <2> QED
    BY <2>3, <2>4
<1>5. ASSUME NEW r \in Requests
      PROVE  ClientInv(r)'
  <2>1. ClientInv(r)
    BY DEF SoleAttemptInv
  <2>2. CASE req[r].pc = "enqueue"
    <3>1. PICK v \in Visits : v = req[r].visit
      BY <2>2, InFlight
    <3>2. NoneBusy(v) /\ ShouldEnqueue(job[v])
      BY <2>1, <2>2, <3>1 DEF ClientInv
    <3>3. job'[v] = job[v]
      BY <3>2 DEF NoneBusy
    <3>4. NoneBusy(v)'
      BY <1>3, <3>2
    <3> QED
      BY <2>2, <3>1, <3>2, <3>3, <3>4 DEF ClientInv, ShouldEnqueue, NoneBusy
  <2>3. CASE req[r].pc = "set_arq_job_id"
    <3>1. PICK v \in Visits : v = req[r].visit
      BY <2>3, InFlight
    <3>2. job[v].arq_job_id = None /\ OnlyBusy(v, req[r].arq)
      BY <2>1, <2>3, <3>1 DEF ClientInv
    <3>3. job'[v].arq_job_id = None
      BY <3>2 DEF RowAdvances
    <3>4. \A b \in ArqIds : Visit(b)' = v /\ IsBusy(b)' => b = req[r].arq
      BY <1>3, <3>2
    <3> QED
      BY <2>3, <3>1, <3>3, <3>4 DEF ClientInv, OnlyBusy
  <2>4. CASE req[r].pc \in {"abort", "abort_result", "mark_failed"}
    <3>1. \A b \in ArqIds : Visit(b)' = req[r].visit /\ IsBusy(b)' => b = req[r].arq
      BY <1>3, <2>1, <2>4 DEF ClientInv
    <3> QED
      BY <2>4, <3>1 DEF ClientInv, OnlyBusy
  <2> QED
    BY <2>2, <2>3, <2>4 DEF ClientInv
<1> QED
  BY <1>1, <1>4, <1>5 DEF SoleAttemptInv

\* A step of a run that goes on leaves the others alone, and the rows too unless
\* it says how it writes its own.
LEMMA RunAdvances ==
  ASSUME IInv, SoleAttemptInv, NEW a \in ArqIds, run[a].pc # "none", UNCHANGED req,
         ArqMoves(a), arq'[a].status = arq[a].status, arq'[a].visit = arq[a].visit,
         \A b \in ArqIds \ {a} : run'[b] = run[b],
         run'[a].pc # "none",
         run'[a].outcome = "retry" => run'[a].pc = "finally",
         run'[a].outcome # "shutdown",
         IsBusy(a)' => IsBusy(a),
         RunWrites(a), UNCHANGED job \/ IsBusy(a)
  PROVE  SoleAttemptInv'
<1>1. UprightInv(a)'
  BY DEF UprightInv
<1> QED
  BY <1>1, RunLeaves

\* mark_executing and mark_completed take an open row forward.
LEMMA WritesForward ==
  ASSUME StoreInv, NEW v \in Visits, Exists(v), MarkExecuting(v) \/ MarkCompleted(v),
         NEW a \in ArqIds, v = Visit(a)
  PROVE  RunWrites(a)
<1>1. job[v] \in Row
  BY DEF StoreInv, StoreTypeOK, Exists
<1>2. job' = job \/ job' = [job EXCEPT ![v] = Executing(job[v])]
                 \/ job' = [job EXCEPT ![v] = AsCompleted(job[v])]
  BY DEF MarkExecuting, MarkCompleted, Transition
<1>3. /\ \A u \in Visits \ {v} : job'[u] = job[u]
      /\ job'[v] \in {job[v], Executing(job[v]), AsCompleted(job[v])}
  BY <1>2 DEF StoreInv, StoreTypeOK
<1>4. ASSUME job'[v] # job[v]
      PROVE  /\ job'[v] \in Row /\ job'[v].arq_job_id = job[v].arq_job_id
             /\ job'[v].phase \in {"EXECUTING", "COMPLETED"}
  BY <1>1, <1>3, <1>4, ExecutingColumns, AsCompletedColumns
<1> QED
  BY <1>3, <1>4, NoRowAssumption DEF RunWrites, RowAdvances, Exists

\* mark_failed records the end of a run.
LEMMA WritesFailure ==
  ASSUME StoreInv, NEW v \in Visits, Exists(v), NEW code \in ErrorCodes,
         MarkFailed(v, code), NEW a \in ArqIds, v = Visit(a), ~IsBusy(a)'
  PROVE  RunWrites(a)
<1>1. job[v] \in Row
  BY DEF StoreInv, StoreTypeOK, Exists
<1>2. /\ \A u \in Visits \ {v} : job'[u] = job[u]
      /\ job'[v] \in {job[v], Failed(job[v], code)}
  BY DEF MarkFailed, Transition, StoreInv, StoreTypeOK
<1>3. ASSUME job'[v] # job[v]
      PROVE  /\ job'[v] \in Row /\ job'[v].arq_job_id = job[v].arq_job_id
             /\ job'[v].phase = "ERROR"
  <2>1. /\ Failed(job[v], code) \in Row
        /\ Failed(job[v], code).phase = "ERROR"
        /\ Failed(job[v], code).arq_job_id = job[v].arq_job_id
    BY <1>1, FailedColumns
  <2> QED
    BY <1>2, <1>3, <2>1
<1> QED
  BY <1>2, <1>3, NoRowAssumption DEF RunWrites, RowAdvances, Exists

LEMMA StartRunLeaves ==
  ASSUME IInv, SoleAttemptInv, NEW a \in ArqIds, StartRun(a), UNCHANGED req
  PROVE  SoleAttemptInv'
<1>1. /\ ArqMoves(a) /\ arq[a].status = "queued" /\ arq'[a].visit = arq[a].visit
  BY StartMoves DEF StartRun, IInv, TypeOK
<1>2. /\ \A b \in ArqIds \ {a} : run'[b] = run[b]
      /\ run'[a].pc = "mark_executing" /\ run'[a].outcome = run[a].outcome
  BY GoMoves DEF StartRun, TryBlock, IInv, TypeOK
<1>3. IsBusy(a) /\ run[a].pc = "none" /\ UNCHANGED job
  BY <1>1 DEF IsBusy, IInv, RunInv, StartRun
<1>4. UprightInv(a)'
  BY <1>2, <1>3 DEF UprightInv, SoleAttemptInv
<1> QED
  BY <1>1, <1>2, <1>3, <1>4, WritesNothing, RunLeaves

LEMMA RefuseRunLeaves ==
  ASSUME IInv, SoleAttemptInv, NEW a \in ArqIds, RefuseRun(a), UNCHANGED req
  PROVE  SoleAttemptInv'
<1>1. PICK result \in Results : Completed(a, result)
  BY DEF RefuseRun, Refuse, Results
<1>2. arq[a].status = "queued" /\ UNCHANGED <<job, run>>
  BY DEF RefuseRun, Refuse
<1>3. ArqMoves(a) /\ arq'[a].status = "complete" /\ arq'[a].visit = arq[a].visit
  BY <1>1, CompletedMoves DEF IInv, TypeOK
<1>4. IsBusy(a) /\ UprightInv(a)'
  BY <1>2, <1>3 DEF IsBusy, UprightInv, SoleAttemptInv
<1> QED
  BY <1>2, <1>3, <1>4, WritesNothing, RunLeaves

LEMMA ExpireLeaves ==
  ASSUME IInv, SoleAttemptInv, NEW a \in ArqIds, Expire(a), UNCHANGED req
  PROVE  SoleAttemptInv'
<1>1. ResultExpires(a) /\ UNCHANGED <<job, run>>
  BY DEF Expire
<1>2. /\ ArqMoves(a) /\ arq[a].status = "complete" /\ arq'[a].status = "unknown"
  BY <1>1, ResultExpiresMoves DEF IInv, TypeOK
<1>3. run'[a] = run[a] /\ run[a].pc = "none"
  BY <1>1, <1>2 DEF IInv, RunInv
<1>4. ~IsBusy(a)'
  BY <1>2, <1>3 DEF IsBusy, TryBlock
<1>5. UprightInv(a)'
  BY <1>2, <1>3 DEF UprightInv, SoleAttemptInv
<1>6. \A b \in ArqIds \ {a} : run'[b] = run[b]
  BY <1>1
<1> QED
  BY <1>1, <1>2, <1>4, <1>5, <1>6, WritesNothing, RunLeaves

\* An exception about to be recorded.
LEMMA FailLeaves ==
  ASSUME IInv, SoleAttemptInv, NEW a \in ArqIds, run[a].pc \in TryBlock,
         NEW code \in ErrorCodes, NEW outcome \in {"failure", "abort", "timeout"},
         Fail(a, code, outcome), UNCHANGED req,
         ArqMoves(a), arq'[a].status = arq[a].status, arq'[a].visit = arq[a].visit,
         RunWrites(a)
  PROVE  SoleAttemptInv'
<1>1. /\ \A b \in ArqIds \ {a} : run'[b] = run[b]
      /\ run'[a].pc = "mark_failed" /\ run'[a].outcome = outcome
  BY FailMoves DEF IInv, TypeOK, Outcomes, Cancellations
<1>2. IsBusy(a) /\ run[a].pc # "none"
  BY DEF IsBusy, TryBlock
<1> QED
  BY <1>1, <1>2, RunAdvances

\* The function is about to be left, with nothing more to try.
LEMMA LeaveLeaves ==
  ASSUME IInv, SoleAttemptInv, NEW a \in ArqIds, run[a].pc # "none",
         NEW outcome \in {"return", "failure", "abort", "timeout"},
         Leave(a, outcome), UNCHANGED <<job, req>>,
         ArqMoves(a), arq'[a].status = arq[a].status, arq'[a].visit = arq[a].visit
  PROVE  SoleAttemptInv'
<1>1. /\ \A b \in ArqIds \ {a} : run'[b] = run[b]
      /\ run'[a].pc = "finally" /\ run'[a].outcome = outcome
  BY LeaveMoves DEF IInv, TypeOK, Outcomes, Cancellations
<1>2. ~IsBusy(a)'
  <2>1. arq'[a].status = "in_progress"
    BY DEF IInv, RunInv
  <2> QED
    BY <1>1, <2>1 DEF IsBusy, TryBlock
<1> QED
  BY <1>1, <1>2, WritesNothing, RunAdvances

LEMMA RunMarkExecutingLeaves ==
  ASSUME IInv, SoleAttemptInv, NEW a \in ArqIds, RunMarkExecuting(a), UNCHANGED req
  PROVE  SoleAttemptInv'
<1>1. PICK v \in Visits : v = Visit(a)
  BY RunningFor DEF RunMarkExecuting, At
<1>2. /\ run[a].pc = "mark_executing" /\ MarkExecuting(v) /\ UNCHANGED arq
      /\ Fail(a, "InvalidTransition", "failure") \/ Go(a, "enrich")
  BY <1>1 DEF RunMarkExecuting, At
<1>3. StoreInv /\ Exists(v)
  BY <1>1, <1>2, RunningFor
<1>4. RunWrites(a)
  BY <1>1, <1>2, <1>3, WritesForward
<1>5. CASE Fail(a, "InvalidTransition", "failure")
  BY <1>2, <1>4, <1>5, RunAlone, WritesNothing, FailLeaves DEF ErrorCodes, TryBlock
<1>6. CASE Go(a, "enrich")
  <2>1. /\ \A b \in ArqIds \ {a} : run'[b] = run[b]
        /\ run'[a].pc = "enrich" /\ run'[a].outcome = run[a].outcome
    BY <1>6, GoMoves DEF IInv, TypeOK, TryBlock
  <2>2. IsBusy(a) /\ run[a].outcome \notin {"retry", "shutdown"}
    BY <1>2 DEF IsBusy, TryBlock, SoleAttemptInv, UprightInv
  <2> QED
    BY <1>2, <1>4, <2>1, <2>2, RunAlone, RunAdvances
<1> QED
  BY <1>2, <1>5, <1>6

LEMMA EnrichLeaves ==
  ASSUME IInv, SoleAttemptInv, NEW a \in ArqIds, Enrich(a), UNCHANGED req
  PROVE  SoleAttemptInv'
<1>1. run[a].pc = "enrich" /\ Go(a, "mark_completed") /\ UNCHANGED <<job, arq>>
  BY DEF Enrich, At
<1>2. /\ \A b \in ArqIds \ {a} : run'[b] = run[b]
      /\ run'[a].pc = "mark_completed" /\ run'[a].outcome = run[a].outcome
  BY <1>1, GoMoves DEF IInv, TypeOK, TryBlock
<1>3. IsBusy(a) /\ run[a].outcome \notin {"retry", "shutdown"}
  BY <1>1 DEF IsBusy, TryBlock, SoleAttemptInv, UprightInv
<1> QED
  BY <1>1, <1>2, <1>3, RunAlone, WritesNothing, RunAdvances

LEMMA RunMarkCompletedLeaves ==
  ASSUME IInv, SoleAttemptInv, NEW a \in ArqIds, RunMarkCompleted(a), UNCHANGED req
  PROVE  SoleAttemptInv'
<1>1. PICK v \in Visits : v = Visit(a)
  BY RunningFor DEF RunMarkCompleted, At
<1>2. /\ run[a].pc = "mark_completed" /\ MarkCompleted(v) /\ UNCHANGED arq
      /\ Fail(a, "InvalidTransition", "failure") \/ Go(a, "committed")
  BY <1>1 DEF RunMarkCompleted, At
<1>3. StoreInv /\ Exists(v)
  BY <1>1, <1>2, RunningFor
<1>4. RunWrites(a)
  BY <1>1, <1>2, <1>3, WritesForward
<1>5. CASE Fail(a, "InvalidTransition", "failure")
  BY <1>2, <1>4, <1>5, RunAlone, WritesNothing, FailLeaves DEF ErrorCodes, TryBlock
<1>6. CASE Go(a, "committed")
  <2>1. /\ \A b \in ArqIds \ {a} : run'[b] = run[b]
        /\ run'[a].pc = "committed" /\ run'[a].outcome = run[a].outcome
    BY <1>6, GoMoves DEF IInv, TypeOK, TryBlock
  <2>2. IsBusy(a) /\ run[a].outcome \notin {"retry", "shutdown"}
    BY <1>2 DEF IsBusy, TryBlock, SoleAttemptInv, UprightInv
  <2> QED
    BY <1>2, <1>4, <2>1, <2>2, RunAlone, RunAdvances
<1> QED
  BY <1>2, <1>5, <1>6

\* The run that records its failure was the only one busy with the row.
LEMMA RunMarkFailedLeaves ==
  ASSUME IInv, SoleAttemptInv, NEW a \in ArqIds, RunMarkFailed(a), UNCHANGED req
  PROVE  SoleAttemptInv'
<1>1. PICK v \in Visits : v = Visit(a)
  BY RunningFor DEF RunMarkFailed, At
<1>2. /\ run[a].pc = "mark_failed" /\ MarkFailed(v, run[a].code) /\ UNCHANGED arq
      /\ Leave(a, "failure") \/ Leave(a, run[a].outcome)
  BY <1>1 DEF RunMarkFailed, At
<1>3. /\ StoreInv /\ Exists(v) /\ run[a].code \in ErrorCodes /\ run[a].outcome \in Outcomes
      /\ arq[a].status = "in_progress"
  BY <1>1, <1>2, RunningFor DEF RunInv
<1>4. run[a].outcome \notin {"retry", "shutdown"} /\ IsBusy(a)
  BY <1>2 DEF IsBusy, SoleAttemptInv, UprightInv
<1>5. /\ \A b \in ArqIds \ {a} : run'[b] = run[b]
      /\ run'[a].pc = "finally" /\ run'[a].outcome \in {"failure", run[a].outcome}
  BY <1>2, <1>3, LeaveMoves DEF IInv, TypeOK, Outcomes
<1>6. ~IsBusy(a)'
  BY <1>2, <1>3, <1>4, <1>5 DEF IsBusy, TryBlock
<1>7. RunWrites(a)
  BY <1>1, <1>2, <1>3, <1>6, WritesFailure
<1> QED
  BY <1>2, <1>4, <1>5, <1>6, <1>7, RunAlone, RunAdvances

LEMMA FinishLeaves ==
  ASSUME IInv, SoleAttemptInv, NEW a \in ArqIds, Finish(a), UNCHANGED req
  PROVE  SoleAttemptInv'
<1>1. /\ run[a].pc = "finally" /\ Settle(a, run[a].outcome)
      /\ run' = [run EXCEPT ![a] = NoRun] /\ UNCHANGED job
  BY DEF Finish, At
<1>2. /\ WorkerTypeOK /\ ArqTypeOK /\ run[a].outcome \in Outcomes
      /\ run[a].outcome # "shutdown"
  BY <1>1, RunningFor DEF RunInv, SoleAttemptInv, UprightInv
<1>3. /\ \A b \in ArqIds \ {a} : run'[b] = run[b]
      /\ run'[a].pc = "none" /\ run'[a].outcome = None
      /\ None \notin {"retry", "shutdown"}
  BY <1>1, <1>2, StopMoves, WorkerAssumption DEF Outcomes, Cancellations
<1>4. CASE run[a].outcome = "retry"
  <2>1. PutBack(a) /\ IsBusy(a)
    BY <1>1, <1>4 DEF Settle, IsBusy
  <2>2. ArqMoves(a) /\ arq'[a].status = "queued" /\ arq'[a].visit = arq[a].visit
    BY <1>2, <2>1, PutBackMoves
  <2>3. UprightInv(a)'
    BY <1>3, <2>2 DEF UprightInv
  <2> QED
    BY <1>1, <1>3, <2>1, <2>2, <2>3, WritesNothing, RunLeaves
<1>5. CASE run[a].outcome # "retry"
  <2>1. PICK result \in Results : Completed(a, result)
    BY <1>1, <1>2, <1>5 DEF Settle, Outcomes, Cancellations, Results
  <2>2. ArqMoves(a) /\ arq'[a].status = "complete"
    BY <1>2, <2>1, CompletedMoves
  <2>3. UprightInv(a)' /\ ~IsBusy(a)'
    BY <1>3, <2>2 DEF UprightInv, IsBusy, TryBlock
  <2> QED
    BY <1>1, <1>3, <2>2, <2>3, WritesNothing, RunLeaves
<1> QED
  BY <1>4, <1>5

LEMMA EnrichRetriesLeaves ==
  ASSUME IInv, SoleAttemptInv, NEW a \in ArqIds, EnrichRetries(a), UNCHANGED req
  PROVE  SoleAttemptInv'
<1>1. run[a].pc = "enrich" /\ UNCHANGED <<job, arq>>
  BY DEF EnrichRetries, At
<1>2. CASE Fail(a, "RetriesExhausted", "failure")
  BY <1>1, <1>2, RunAlone, WritesNothing, FailLeaves DEF ErrorCodes, TryBlock
<1>3. CASE Leave(a, "retry")
  <2>1. /\ \A b \in ArqIds \ {a} : run'[b] = run[b]
        /\ run'[a].pc = "finally" /\ run'[a].outcome = "retry"
    BY <1>3, LeaveMoves DEF IInv, TypeOK, Outcomes
  <2>2. IsBusy(a)
    BY <1>1 DEF IsBusy, TryBlock
  <2> QED
    BY <1>1, <2>1, <2>2, RunAlone, WritesNothing, RunAdvances
<1> QED
  BY <1>2, <1>3 DEF EnrichRetries

LEMMA CancelLeaves ==
  ASSUME IInv, SoleAttemptInv, NEW a \in ArqIds, NEW why \in {"abort", "timeout"},
         Cancel(a, why), UNCHANGED req
  PROVE  SoleAttemptInv'
<1>1. /\ UNCHANGED job
      /\ UNCHANGED arq \/ arq' = [arq EXCEPT ![a].abort = FALSE]
      /\ \/ run[a].pc \in TryBlock /\ Fail(a, "JobAborted", why)
         \/ run[a].pc # "none" /\ Leave(a, why)
  BY DEF Cancel, At
<1>2. ArqMoves(a) /\ arq'[a].status = arq[a].status /\ arq'[a].visit = arq[a].visit
  BY <1>1, RunAlone, SetAbortMoves DEF IInv, TypeOK
<1> QED
  BY <1>1, <1>2, WritesNothing, FailLeaves, LeaveLeaves DEF ErrorCodes

LEMMA WorkerLeaves ==
  ASSUME Faults \subseteq Ending,
         IInv, SoleAttemptInv, NEW a \in ArqIds, WorkerStep(a), UNCHANGED req
  PROVE  SoleAttemptInv'
<1>1. CASE Proceed(a)
  <2>1. CASE Return(a)
    BY <2>1, RunAlone, LeaveLeaves DEF Return, At
  <2> QED
    BY <1>1, <2>1, RunMarkExecutingLeaves, EnrichLeaves, RunMarkCompletedLeaves,
       RunMarkFailedLeaves, FinishLeaves DEF Proceed
<1>2. CASE Dispatch(a)
  <2>1. ~InProgressExpires(a)
    BY DEF InProgressExpires, At, SoleAttemptInv, UprightInv
  <2> QED
    BY <1>2, <2>1, StartRunLeaves, RefuseRunLeaves, ExpireLeaves DEF Dispatch
<1>3. CASE \E why \in {"abort", "timeout"} : Cancel(a, why)
  BY <1>3, CancelLeaves
<1>4. CASE EnrichFails(a)
  BY <1>4, RunAlone, WritesNothing, FailLeaves DEF EnrichFails, At, ErrorCodes, TryBlock
<1>5. CASE EnrichRetries(a)
  BY <1>5, EnrichRetriesLeaves
<1>6. CASE DatabaseError(a)
  BY <1>6, RunAlone, WritesNothing, FailLeaves, LeaveLeaves DEF DatabaseError, At, ErrorCodes, TryBlock
<1> QED
  BY <1>1, <1>2, <1>3, <1>4, <1>5, <1>6 DEF WorkerStep, RunFault, Ending

\* A request that leaves the jobs where they are does not touch the attempts.
LEMMA AttemptsStay ==
  ASSUME SoleAttemptInv, UNCHANGED run,
         \A a \in ArqIds : arq'[a].status = arq[a].status /\ arq'[a].visit = arq[a].visit
  PROVE  /\ \A a \in ArqIds : UprightInv(a)'
         /\ \A v \in Visits : NoneBusy(v)' <=> NoneBusy(v)
         /\ \A v \in Visits, b \in ArqIds : OnlyBusy(v, b)' <=> OnlyBusy(v, b)
         /\ \A a \in ArqIds : Visit(a)' = Visit(a) /\ (IsBusy(a)' <=> IsBusy(a))
<1>1. ASSUME NEW a \in ArqIds
      PROVE  /\ IsBusy(a)' <=> IsBusy(a)
             /\ Visit(a)' = Visit(a)
             /\ UprightInv(a)'
  BY DEF SoleAttemptInv, UprightInv, IsBusy, Visit
<1>2. ASSUME NEW v \in Visits
      PROVE  NoneBusy(v)' <=> NoneBusy(v)
  BY <1>1 DEF NoneBusy
<1>3. ASSUME NEW v \in Visits, NEW b \in ArqIds
      PROVE  OnlyBusy(v, b)' <=> OnlyBusy(v, b)
  BY <1>1 DEF OnlyBusy
<1> QED
  BY <1>1, <1>2, <1>3

\* No row that another request is to write has changed, unless it was requeued.
WritersKeep(r) ==
  \A q \in Requests \ {r} :
    /\ req'[q] = req[q]
    /\ IsWriting(q) => LET old == job[req[q].visit]
                           new == job'[req[q].visit]
                       IN new = old \/ (old.phase = "ERROR" /\ new.arq_job_id = None)

LEMMA OnlyItsOwnRow ==
  ASSUME OneWriterEach, IInv, NEW r \in Requests, IsWriting(r),
         \A q \in Requests \ {r} : req'[q] = req[q],
         \A v \in Visits \ {req[r].visit} : job'[v] = job[v]
  PROVE  WritersKeep(r)
<1> SUFFICES ASSUME NEW q \in Requests \ {r}, IsWriting(q)
             PROVE  job'[req[q].visit] = job[req[q].visit]
  BY DEF WritersKeep
<1>1. req[q].visit # req[r].visit
  BY DEF OneWriterEach
<1>2. req[q].visit \in Visits
  BY InFlight DEF IsWriting
<1> QED
  BY <1>1, <1>2

\* The invariant after a step that leaves the attempts alone.
LEMMA ClientLeaves ==
  ASSUME IInv, SoleAttemptInv, NEW r \in Requests, UNCHANGED run, WritersKeep(r),
         \A a \in ArqIds : arq'[a].status = arq[a].status /\ arq'[a].visit = arq[a].visit,
         StoreInv',
         \A v \in Visits : Exists(v)' /\ job'[v].phase = "ERROR" => NoneBusy(v),
         \A v \in Visits : Exists(v)' /\ job'[v].arq_job_id # None =>
                             OnlyBusy(v, job'[v].arq_job_id),
         \A v \in Visits :
           Exists(v)' /\ ShouldEnqueue(job'[v]) /\ (\A q \in Requests : ~Registers(q, v)') =>
             NoneBusy(v),
         ClientInv(r)'
  PROVE  SoleAttemptInv'
<1>1. ASSUME NEW v \in Visits, Exists(v)', job'[v].arq_job_id # None
      PROVE  OnlyBusy(v, job[v].arq_job_id)'
  <2>1. PICK b \in ArqIds : b = job'[v].arq_job_id
    BY <1>1 DEF StoreInv, StoreTypeOK, Exists, Row
  <2>2. OnlyBusy(v, b)'
    BY <1>1, <2>1, AttemptsStay
  <2> QED
    BY <2>1, <2>2 DEF OnlyBusy
<1>2. ASSUME NEW v \in Visits
      PROVE  SoleInv(v)'
  <2>1. ASSUME NEW a \in ArqIds, NEW b \in ArqIds,
               Visit(a)' = v, IsBusy(a)', Visit(b)' = v, IsBusy(b)'
        PROVE  a = b
    <3>1. Visit(a) = v /\ IsBusy(a) /\ Visit(b) = v /\ IsBusy(b)
      BY <2>1, AttemptsStay
    <3> QED
      BY <3>1 DEF SoleAttemptInv, SoleInv
  <2>2. Exists(v)' /\ job'[v].phase = "ERROR" => NoneBusy(v)'
    BY AttemptsStay
  <2>3. Exists(v)' /\ ShouldEnqueue(job[v])' /\ (\A q \in Requests : ~Registers(q, v)') =>
          NoneBusy(v)'
    BY AttemptsStay DEF ShouldEnqueue
  <2> QED
    BY <1>1, <2>1, <2>2, <2>3 DEF SoleInv
<1>3. ASSUME NEW q \in Requests \ {r}
      PROVE  ClientInv(q)'
  <2>1. CASE ~IsWriting(q)
    BY <2>1 DEF WritersKeep, IsWriting, ClientInv
  <2>2. CASE IsWriting(q)
    <3>1. PICK v \in Visits : v = req[q].visit
      BY <2>2, InFlight DEF IsWriting
    <3>2. /\ req'[q] = req[q] /\ ClientInv(q)
          /\ job'[v] = job[v] \/ (job[v].phase = "ERROR" /\ job'[v].arq_job_id = None)
          /\ req[q].pc # "enqueue" => req[q].arq \in ArqIds
      BY <2>2, <3>1, InFlight DEF WritersKeep, IsWriting, SoleAttemptInv
    <3>3. NoneBusy(v) => NoneBusy(v)'
      BY AttemptsStay
    <3>4. \A a \in ArqIds : OnlyBusy(v, a) => OnlyBusy(v, a)'
      BY AttemptsStay
    <3> QED
      BY <3>1, <3>2, <3>3, <3>4 DEF ClientInv, ShouldEnqueue, NoneBusy, OnlyBusy
  <2> QED
    BY <2>1, <2>2
<1> QED
  BY <1>2, <1>3, AttemptsStay DEF SoleAttemptInv

\* The invariant after a step that only reads, or gives up before the enqueue.
LEMMA ReaderLeaves ==
  ASSUME IInv, SoleAttemptInv, NEW r \in Requests, UNCHANGED <<job, run>>,
         \A a \in ArqIds : arq'[a].status = arq[a].status /\ arq'[a].visit = arq[a].visit,
         NEW request, req' = [req EXCEPT ![r] = request],
         req[r].pc # "set_arq_job_id", ClientInv(r)'
  PROVE  SoleAttemptInv'
<1>1. StoreInv'
  BY StoreInvHolds DEF StoreInv, StoreTypeOK, RowsConsistent, Exists
<1>2. ASSUME NEW v \in Visits, Exists(v)'
      PROVE  /\ job'[v] = job[v] /\ Exists(v) /\ SoleInv(v)
  BY <1>2 DEF Exists, SoleAttemptInv
<1>3. ASSUME NEW v \in Visits, Exists(v), ShouldEnqueue(job[v]),
             \A q \in Requests : ~Registers(q, v)'
      PROVE  NoneBusy(v)
  <2>1. CASE Registers(r, v)
    BY <2>1 DEF Registers, SoleAttemptInv, ClientInv
  <2>2. CASE ~Registers(r, v)
    <3>1. \A q \in Requests : ~Registers(q, v)
      BY <1>3, <2>2, OthersWait DEF Registers
    <3> QED
      BY <1>3, <3>1 DEF SoleAttemptInv, SoleInv
  <2> QED
    BY <2>1, <2>2
<1>4. \A v \in Visits : Exists(v)' /\ job'[v].phase = "ERROR" => NoneBusy(v)
  BY <1>2 DEF SoleInv
<1>5. \A v \in Visits : Exists(v)' /\ job'[v].arq_job_id # None =>
                          OnlyBusy(v, job'[v].arq_job_id)
  BY <1>2 DEF SoleInv
<1>6. \A v \in Visits :
        Exists(v)' /\ ShouldEnqueue(job'[v]) /\ (\A q \in Requests : ~Registers(q, v)') =>
          NoneBusy(v)
  BY <1>2, <1>3
<1>7. WritersKeep(r)
  BY OthersWait DEF WritersKeep
<1> QED
  BY <1>1, <1>4, <1>5, <1>6, <1>7, ClientLeaves

LEMMA AnsweredIsIdle ==
  ASSUME IInv, NEW r \in Requests, req' = [req EXCEPT ![r] = Idle]
  PROVE  req'[r].pc = "idle"
<1>1. req'[r] = Idle
  BY OthersWait
<1> QED
  BY <1>1 DEF Idle

\* An answer, or a GET, knows nothing of the attempts.
LEMMA ForgetfulLeaves ==
  ASSUME IInv, SoleAttemptInv, NEW r \in Requests, UNCHANGED <<job, arq, run>>,
         NEW request, req' = [req EXCEPT ![r] = request],
         req[r].pc # "set_arq_job_id",
         req'[r].pc \in {"idle", "status", "succeeded"}
  PROVE  SoleAttemptInv'
<1>1. ClientInv(r)'
  BY DEF ClientInv
<1> QED
  BY <1>1, ReaderLeaves

\* Nobody else registers or aborts the visit of a client that goes on to enqueue, and
\* only a row without an attempt is enqueued.
LEMMA RegisterLeaves ==
  ASSUME OneWriterEach', IInv, SoleAttemptInv, NEW r \in Requests, NEW v \in Visits,
         Register(r, v), UNCHANGED run
  PROVE  SoleAttemptInv'
<1> DEFINE row == AddedOrGot(job[v])
<1>1. /\ req[r].pc = "idle" /\ UNCHANGED arq /\ AddOrGet(v) /\ StoreInv
      /\ IF ShouldEnqueue(row)
           THEN req' = [req EXCEPT ![r] = [Idle EXCEPT !.pc = "enqueue", !.visit = v]]
           ELSE req' = [req EXCEPT ![r] = Idle]
  BY StoreInvHolds DEF Register, IsIdle, Waiting, Await, Respond
<1>2. StoreInv' /\ job'[v] = row /\ \A u \in Visits \ {v} : job'[u] = job[u]
  BY <1>1, AddOrGetMoves, AddOrGetEffect DEF StoreInv
<1>3. ASSUME NEW u \in Visits, Exists(u), ShouldEnqueue(job[u]),
             \A q \in Requests \ {r} : ~Registers(q, u)
      PROVE  NoneBusy(u)
  <2>1. \A q \in Requests : ~Registers(q, u)
    BY <1>1, <1>3 DEF Registers
  <2> QED
    BY <1>3, <2>1 DEF SoleAttemptInv, SoleInv
<1>4. \A q \in Requests \ {r} : req'[q] = req[q]
  BY <1>1, OthersWait
<1>5. ASSUME ShouldEnqueue(row), NEW q \in Requests \ {r}, IsWriting(q)
      PROVE  req[q].visit # v
  <2>1. req'[r] = [Idle EXCEPT !.pc = "enqueue", !.visit = v]
    BY <1>1, <1>5, OthersWait
  <2>2. IsWriting(r)' /\ req'[r].visit = v
    BY <2>1 DEF IsWriting, Idle
  <2>3. IsWriting(q)' /\ req'[q].visit = req[q].visit
    BY <1>4, <1>5 DEF IsWriting
  <2> QED
    BY <2>2, <2>3 DEF OneWriterEach
<1>6. WritersKeep(r)
  <2> SUFFICES ASSUME NEW q \in Requests \ {r}, IsWriting(q)
               PROVE  job'[req[q].visit] = job[req[q].visit]
    BY <1>4 DEF WritersKeep
  <2>1. req[q].visit \in Visits /\ Exists(req[q].visit)
    BY InFlight DEF IsWriting
  <2>2. CASE req[q].visit # v
    BY <1>2, <2>1, <2>2
  <2>3. CASE req[q].visit = v
    <3>1. ~ShouldEnqueue(row)
      BY <1>5, <2>3
    <3>2. job[v].phase # "ERROR"
      BY <2>1, <2>3, <3>1, <1>1, NoRowAssumption, RequeuedColumns
      DEF AddedOrGot, Exists, StoreInv, StoreTypeOK, ShouldEnqueue, NewRow
    <3> QED
      BY <1>2, <2>1, <2>3, <3>2 DEF AddedOrGot, Exists
  <2> QED
    BY <2>2, <2>3
<1>7. /\ row.phase # "ERROR"
      /\ row.arq_job_id # None => Exists(v) /\ row = job[v]
      /\ ShouldEnqueue(row) => NoneBusy(v)
  <2>1. CASE job[v] = NoRow
    <3>1. row = NewRow /\ ~Exists(v)
      BY <2>1 DEF AddedOrGot, Exists
    <3>2. NoneBusy(v)
      BY <3>1, BusyIsLive DEF NoneBusy
    <3> QED
      BY <3>1, <3>2 DEF NewRow
  <2>2. CASE job[v] \in Row /\ job[v].phase = "ERROR"
    <3>1. row = [NewRow EXCEPT !.phase = "QUEUED"] /\ Exists(v)
      BY <2>2, NoRowAssumption, RequeuedColumns DEF AddedOrGot, Exists
    <3>2. NoneBusy(v)
      BY <2>2, <3>1 DEF SoleAttemptInv, SoleInv
    <3> QED
      BY <3>1, <3>2 DEF NewRow
  <2>3. CASE job[v] \in Row /\ job[v].phase # "ERROR"
    <3>1. row = job[v] /\ Exists(v)
      BY <2>3, NoRowAssumption DEF AddedOrGot, Exists
    <3>2. ShouldEnqueue(row) => \A q \in Requests \ {r} : ~Registers(q, v)
      BY <1>5 DEF Registers, IsWriting
    <3> QED
      BY <1>3, <2>3, <3>1, <3>2
  <2> QED
    BY <1>1, <2>1, <2>2, <2>3 DEF StoreInv, StoreTypeOK
<1> HIDE DEF row
<1>8. ClientInv(r)'
  <2>1. CASE ShouldEnqueue(row)
    <3>1. req'[r] = [Idle EXCEPT !.pc = "enqueue", !.visit = v]
      BY <1>1, <2>1, OthersWait
    <3>2. req'[r].pc = "enqueue" /\ req'[r].visit = v
      BY <3>1 DEF Idle
    <3>3. NoneBusy(v)'
      BY <1>1, <1>7, <2>1, AttemptsStay
    <3> QED
      BY <1>2, <2>1, <3>2, <3>3 DEF ClientInv, NoneBusy, ShouldEnqueue
  <2>2. CASE ~ShouldEnqueue(row)
    <3>1. req'[r].pc = "idle"
      BY <1>1, <2>2, OthersWait DEF Idle
    <3> QED
      BY <3>1 DEF ClientInv
  <2> QED
    BY <2>1, <2>2
<1>9. ASSUME NEW u \in Visits, Exists(u)'
      PROVE  /\ job'[u].phase = "ERROR" => NoneBusy(u)
             /\ job'[u].arq_job_id # None => OnlyBusy(u, job'[u].arq_job_id)
             /\ ShouldEnqueue(job'[u]) /\ (\A q \in Requests : ~Registers(q, u)') =>
                  NoneBusy(u)
  <2>1. CASE u = v
    BY <1>2, <1>7, <2>1 DEF SoleAttemptInv, SoleInv
  <2>2. CASE u # v
    <3>1. job'[u] = job[u] /\ Exists(u) /\ SoleInv(u)
      BY <1>2, <1>9, <2>2 DEF SoleAttemptInv, Exists
    <3>2. (\A q \in Requests : ~Registers(q, u)') => \A q \in Requests \ {r} : ~Registers(q, u)
      BY <1>4 DEF Registers
    <3> QED
      BY <1>3, <3>1, <3>2 DEF SoleInv
  <2> QED
    BY <2>1, <2>2
<1> QED
  BY <1>1, <1>2, <1>6, <1>8, <1>9, ClientLeaves

\* A registration that fails leaves the row as it was, or requeued or added with
\* nothing that works on it, whoever else is at the visit.
LEMMA RegisterUnansweredLeaves ==
  ASSUME IInv, SoleAttemptInv, NEW r \in Requests, NEW v \in Visits,
         RegisterUnanswered(r, v), UNCHANGED run
  PROVE  SoleAttemptInv'
<1> DEFINE row == AddedOrGot(job[v])
<1>1. /\ req[r].pc = "idle" /\ UNCHANGED arq /\ AddOrGet(v) /\ StoreInv
      /\ req' = [req EXCEPT ![r] = Idle]
  BY StoreInvHolds DEF RegisterUnanswered, IsIdle, Waiting, Respond
<1>2. StoreInv' /\ job'[v] = row /\ \A u \in Visits \ {v} : job'[u] = job[u]
  BY <1>1, AddOrGetMoves, AddOrGetEffect DEF StoreInv
<1>3. req'[r].pc = "idle" /\ \A q \in Requests \ {r} : req'[q] = req[q]
  BY <1>1, AnsweredIsIdle, OthersWait
<1>4. \/ Exists(v) /\ row = job[v]
      \/ Exists(v) /\ job[v].phase = "ERROR" /\ row = [NewRow EXCEPT !.phase = "QUEUED"]
      \/ ~Exists(v) /\ row = NewRow
  <2>1. CASE job[v] = NoRow
    BY <2>1 DEF AddedOrGot, Exists
  <2>2. CASE job[v] \in Row /\ job[v].phase = "ERROR"
    BY <2>2, NoRowAssumption, RequeuedColumns DEF AddedOrGot, Exists
  <2>3. CASE job[v] \in Row /\ job[v].phase # "ERROR"
    BY <2>3, NoRowAssumption DEF AddedOrGot, Exists
  <2> QED
    BY <1>1, <2>1, <2>2, <2>3 DEF StoreInv, StoreTypeOK
<1> HIDE DEF row
<1>5. WritersKeep(r)
  <2> SUFFICES ASSUME NEW q \in Requests \ {r}, IsWriting(q)
               PROVE  \/ job'[req[q].visit] = job[req[q].visit]
                      \/ /\ job[req[q].visit].phase = "ERROR"
                         /\ job'[req[q].visit].arq_job_id = None
    BY <1>3 DEF WritersKeep
  <2>1. req[q].visit \in Visits /\ Exists(req[q].visit)
    BY InFlight DEF IsWriting
  <2> QED
    BY <1>2, <1>4, <2>1 DEF NewRow
<1>6. ASSUME NEW u \in Visits, Exists(u)'
      PROVE  /\ job'[u].phase = "ERROR" => NoneBusy(u)
             /\ job'[u].arq_job_id # None => OnlyBusy(u, job'[u].arq_job_id)
             /\ ShouldEnqueue(job'[u]) /\ (\A q \in Requests : ~Registers(q, u)') =>
                  NoneBusy(u)
  <2>1. (\A q \in Requests : ~Registers(q, u)') => \A q \in Requests : ~Registers(q, u)
    BY <1>1, <1>3 DEF Registers
  <2>2. SoleInv(u)
    BY DEF SoleAttemptInv
  <2>3. CASE job'[u] = job[u]
    BY <1>6, <2>1, <2>2, <2>3 DEF SoleInv, Exists
  <2>4. CASE u = v /\ job'[u] # job[u]
    <3>1. job'[u].phase # "ERROR" /\ job'[u].arq_job_id = None
      BY <1>2, <1>4, <2>4 DEF NewRow
    <3>2. NoneBusy(u)
      BY <1>2, <1>4, <2>2, <2>4, BusyIsLive DEF SoleInv, NoneBusy
    <3> QED
      BY <3>1, <3>2
  <2> QED
    BY <1>2, <2>3, <2>4
<1>7. ClientInv(r)'
  BY <1>3 DEF ClientInv
<1> QED
  BY <1>1, <1>2, <1>5, <1>6, <1>7, ClientLeaves

\* The new attempt is the only one.
LEMMA EnqueueLeaves ==
  ASSUME OneWriterEach, IInv, SoleAttemptInv, NEW r \in Requests, Enqueue(r), UNCHANGED run
  PROVE  SoleAttemptInv'
<1>1. PICK a \in ArqIds :
        /\ Fresh(a) /\ EnqueueJob(a, req[r].visit)
        /\ req' = [req EXCEPT ![r] = [req[r] EXCEPT !.pc = "set_arq_job_id", !.arq = a]]
  BY DEF Enqueue, Await
<1>2. req[r].pc = "enqueue" /\ UNCHANGED job
  BY DEF Enqueue, Waiting
<1>3. PICK v \in Visits : v = req[r].visit
  BY <1>2, InFlight
<1>4. ArqMoves(a) /\ arq'[a].status = "queued" /\ arq'[a].visit = v
  BY <1>1, <1>3, EnqueueJobMoves DEF IInv, TypeOK
<1>5. /\ ShouldEnqueue(job[v]) /\ NoneBusy(v)
  BY <1>2, <1>3 DEF SoleAttemptInv, ClientInv
<1>6. /\ req'[r].pc = "set_arq_job_id" /\ req'[r].visit = v /\ req'[r].arq = a
  <2>1. req'[r] = [req[r] EXCEPT !.pc = "set_arq_job_id", !.arq = a]
    BY <1>1, OthersWait
  <2> QED
    BY <1>3, <2>1, InFlight DEF Request
<1>7. ASSUME NEW b \in ArqIds, b # a
      PROVE  Visit(b)' = Visit(b) /\ (IsBusy(b)' <=> IsBusy(b))
  BY <1>4, <1>7 DEF ArqMoves, Visit, IsBusy
<1>8. ASSUME NEW b \in ArqIds
      PROVE  UprightInv(b)'
  BY <1>4 DEF SoleAttemptInv, UprightInv, ArqMoves
<1>9. ASSUME NEW b \in ArqIds, Visit(b)' = v, IsBusy(b)'
      PROVE  b = a
  BY <1>5, <1>7, <1>9 DEF NoneBusy
<1>10. ASSUME NEW q \in Requests
       PROVE  ClientInv(q)'
  <2>1. CASE q = r
    <3>1. job'[v].arq_job_id = None
      BY <1>2, <1>5 DEF ShouldEnqueue
    <3>2. OnlyBusy(v, a)'
      BY <1>9 DEF OnlyBusy
    <3> QED
      BY <1>6, <2>1, <3>1, <3>2 DEF ClientInv, OnlyBusy
  <2>2. CASE q # r /\ ~IsWriting(q)
    BY <1>1, <2>2, OthersWait DEF IsWriting, ClientInv
  <2>3. CASE q # r /\ IsWriting(q)
    <3>1. req'[q] = req[q] /\ ClientInv(q)
      BY <1>1, <2>3, OthersWait DEF SoleAttemptInv
    <3>2. PICK u \in Visits : u = req[q].visit
      BY <2>3, InFlight DEF IsWriting
    <3>3. u # v
      BY <1>2, <1>3, <2>3, <3>2 DEF OneWriterEach, IsWriting
    <3>4. ASSUME NEW b \in ArqIds, Visit(b)' = u, IsBusy(b)'
          PROVE  Visit(b) = u /\ IsBusy(b)
      <4>1. b # a
        BY <1>4, <3>3, <3>4 DEF Visit
      <4> QED
        BY <1>7, <3>4, <4>1
    <3>5. NoneBusy(u) => NoneBusy(u)'
      BY <3>4 DEF NoneBusy
    <3>6. \A id : OnlyBusy(u, id) => \A b \in ArqIds : Visit(b)' = u /\ IsBusy(b)' => b = id
      BY <3>4 DEF OnlyBusy
    <3> QED
      BY <1>2, <3>1, <3>2, <3>5, <3>6 DEF ClientInv, OnlyBusy, NoneBusy, ShouldEnqueue
  <2> QED
    BY <2>1, <2>2, <2>3
<1>11. ASSUME NEW u \in Visits
       PROVE  SoleInv(u)'
  <2>1. CASE u = v
    <3>1. job'[v] = job[v] /\ job[v].phase # "ERROR" /\ job[v].arq_job_id = None
      BY <1>2, <1>5 DEF ShouldEnqueue
    <3>2. ~(\A q \in Requests : ~Registers(q, v)')
      BY <1>6 DEF Registers
    <3>3. ASSUME NEW b \in ArqIds, NEW c \in ArqIds,
                 Visit(b)' = v, IsBusy(b)', Visit(c)' = v, IsBusy(c)'
          PROVE  b = c
      BY <1>9, <3>3
    <3> QED
      BY <2>1, <3>1, <3>2, <3>3 DEF SoleInv
  <2>2. CASE u # v
    <3>1. ASSUME NEW b \in ArqIds, Visit(b)' = u, IsBusy(b)'
          PROVE  Visit(b) = u /\ IsBusy(b)
      <4>1. b # a
        BY <1>4, <2>2, <3>1 DEF Visit
      <4> QED
        BY <1>7, <3>1, <4>1
    <3>2. SoleInv(u)
      BY DEF SoleAttemptInv
    <3>3. ASSUME NEW b \in ArqIds, NEW c \in ArqIds,
                 Visit(b)' = u, IsBusy(b)', Visit(c)' = u, IsBusy(c)'
          PROVE  b = c
      BY <3>1, <3>2, <3>3 DEF SoleInv
    <3>4. NoneBusy(u) => NoneBusy(u)'
      BY <3>1 DEF NoneBusy
    <3>5. OnlyBusy(u, job[u].arq_job_id) => OnlyBusy(u, job[u].arq_job_id)'
      <4>1. PICK id : id = job[u].arq_job_id
        OBVIOUS
      <4>2. OnlyBusy(u, id) => OnlyBusy(u, id)'
        BY <3>1 DEF OnlyBusy
      <4>3. job'[u].arq_job_id = id
        BY <1>2, <4>1
      <4> QED
        BY <4>1, <4>2, <4>3 DEF OnlyBusy
    <3>6. \A q \in Requests : Registers(q, u)' <=> Registers(q, u)
      BY <1>1, <1>2, <1>3, <1>6, <2>2, OthersWait DEF Registers
    <3>7. (Exists(u)' <=> Exists(u)) /\ (ShouldEnqueue(job[u])' <=> ShouldEnqueue(job[u]))
      BY <1>2 DEF Exists, ShouldEnqueue
    <3> QED
      BY <1>2, <3>2, <3>3, <3>4, <3>5, <3>6, <3>7 DEF SoleInv
  <2> QED
    BY <2>1, <2>2
<1> QED
  BY <1>8, <1>10, <1>11 DEF SoleAttemptInv

LEMMA EnqueueErrorLeaves ==
  ASSUME IInv, SoleAttemptInv, NEW r \in Requests, EnqueueError(r), UNCHANGED run
  PROVE  SoleAttemptInv'
<1>1. /\ req[r].pc = "enqueue" /\ UNCHANGED <<job, arq>>
      /\ req' = [req EXCEPT ![r] = Idle]
  BY DEF EnqueueError, Waiting, Fails, Answer, Respond
<1>2. req'[r].pc = "idle"
  BY <1>1, AnsweredIsIdle
<1> QED
  BY <1>1, <1>2, ForgetfulLeaves

\* The row takes the id of the only attempt, or has been worked on already.
LEMMA SetArqJobIdLeaves ==
  ASSUME OneWriterEach, IInv, SoleAttemptInv, NEW r \in Requests,
         SetArqJobId(r) \/ SetArqJobIdUnanswered(r), UNCHANGED run
  PROVE  SoleAttemptInv'
<1>1. /\ req[r].pc = "set_arq_job_id" /\ UNCHANGED arq
      /\ req' = [req EXCEPT ![r] = Idle]
      /\ SetArqJobIdAndMarkQueued(req[r].visit, req[r].arq)
  BY DEF SetArqJobId, SetArqJobIdUnanswered, Waiting, Fails, Answer, Respond
<1>2. PICK v \in Visits, a \in ArqIds : v = req[r].visit /\ a = req[r].arq
  BY <1>1, InFlight
<1>3. /\ StoreInv /\ Exists(v) /\ job[v] \in Row
  BY <1>1, <1>2, InFlight DEF StoreInv, StoreTypeOK, Exists
<1>4. StoreInv' /\ Exists(v)'
  BY <1>1, <1>2, <1>3, SetArqJobIdMoves
<1>5. job[v].arq_job_id = None /\ OnlyBusy(v, a)
  BY <1>1, <1>2 DEF SoleAttemptInv, ClientInv
<1>6. /\ \A u \in Visits \ {v} : job'[u] = job[u]
      /\ \/ job'[v] = QueuedAs(job[v], a)
         \/ job'[v] = job[v] /\ job[v].phase \notin {"PENDING", "QUEUED"}
  BY <1>1, <1>2, <1>3 DEF SetArqJobIdAndMarkQueued, Transition, AllowedCurrent, StoreInv, StoreTypeOK
<1>7. /\ job'[v].phase = "ERROR" => NoneBusy(v)
      /\ job'[v].arq_job_id # None => OnlyBusy(v, job'[v].arq_job_id)
      /\ ~ShouldEnqueue(job'[v])
  <2>1. CASE job'[v] = QueuedAs(job[v], a)
    <3>1. job'[v].phase = "QUEUED" /\ job'[v].arq_job_id = a /\ a # None
      BY <1>3, <2>1, QueuedAsColumns, IdentitiesAssumption
    <3> QED
      BY <1>5, <3>1 DEF ShouldEnqueue
  <2>2. CASE job'[v] = job[v] /\ job[v].phase \notin {"PENDING", "QUEUED"}
    BY <1>3, <1>5, <2>2 DEF SoleAttemptInv, SoleInv, ShouldEnqueue
  <2> QED
    BY <1>6, <2>1, <2>2
<1>8. ASSUME NEW u \in Visits, Exists(u)'
      PROVE  /\ job'[u].phase = "ERROR" => NoneBusy(u)
             /\ job'[u].arq_job_id # None => OnlyBusy(u, job'[u].arq_job_id)
             /\ ShouldEnqueue(job'[u]) /\ (\A q \in Requests : ~Registers(q, u)') =>
                  NoneBusy(u)
  <2>1. CASE u = v
    BY <1>7, <2>1
  <2>2. CASE u # v
    <3>1. job'[u] = job[u] /\ Exists(u) /\ SoleInv(u)
      BY <1>6, <1>8, <2>2 DEF Exists, SoleAttemptInv
    <3>2. \A q \in Requests : Registers(q, u) => Registers(q, u)'
      BY <1>1, <1>2, <2>2, OthersWait DEF Registers
    <3> QED
      BY <3>1, <3>2 DEF SoleInv
  <2> QED
    BY <2>1, <2>2
<1>9. ClientInv(r)'
  <2>1. req'[r].pc = "idle"
    BY <1>1, AnsweredIsIdle
  <2> QED
    BY <2>1 DEF ClientInv
<1>10. WritersKeep(r)
  BY <1>1, <1>2, <1>6, OthersWait, OnlyItsOwnRow DEF IsWriting
<1> QED
  BY <1>1, <1>4, <1>8, <1>9, <1>10, ClientLeaves

LEMMA GetLeaves ==
  ASSUME IInv, SoleAttemptInv, NEW r \in Requests, NEW v \in Visits, Get(r, v),
         UNCHANGED run
  PROVE  SoleAttemptInv'
<1>1. /\ req[r].pc = "idle" /\ UNCHANGED <<job, arq>>
      /\ \/ req' = [req EXCEPT ![r] = Idle]
         \/ req' = [req EXCEPT ![r] = [pc |-> "status", visit |-> v,
                                       arq |-> job[v].arq_job_id, seen |-> job[v].phase]]
  BY DEF Get, IsIdle, Waiting, Respond, Await
<1>2. req'[r].pc \in {"idle", "status"}
  BY <1>1, OthersWait DEF Idle
<1> QED
  BY <1>1, <1>2, ForgetfulLeaves

LEMMA GetStatusLeaves ==
  ASSUME IInv, SoleAttemptInv, NEW r \in Requests, GetStatus(r), UNCHANGED run
  PROVE  SoleAttemptInv'
<1>1. /\ req[r].pc = "status" /\ UNCHANGED <<job, arq>>
      /\ \/ req' = [req EXCEPT ![r] = Idle]
         \/ req' = [req EXCEPT ![r] = [req[r] EXCEPT !.pc = "succeeded"]]
  BY DEF GetStatus, Waiting, Answer, Respond, Await
<1>2. req'[r].pc \in {"idle", "succeeded"}
  BY <1>1, OthersWait, InFlight DEF Idle, Request
<1> QED
  BY <1>1, <1>2, ForgetfulLeaves

LEMMA GetSucceededLeaves ==
  ASSUME IInv, SoleAttemptInv, NEW r \in Requests, GetSucceeded(r), UNCHANGED run
  PROVE  SoleAttemptInv'
<1>1. /\ req[r].pc = "succeeded" /\ UNCHANGED <<job, arq>>
      /\ req' = [req EXCEPT ![r] = Idle]
  BY DEF GetSucceeded, Waiting, Answer, Respond
<1>2. req'[r].pc = "idle"
  BY <1>1, AnsweredIsIdle
<1> QED
  BY <1>1, <1>2, ForgetfulLeaves

LEMMA GetErrorLeaves ==
  ASSUME IInv, SoleAttemptInv, NEW r \in Requests, GetError(r), UNCHANGED run
  PROVE  SoleAttemptInv'
<1>1. /\ req[r].pc \in {"status", "succeeded"} /\ UNCHANGED <<job, arq>>
      /\ req' = [req EXCEPT ![r] = Idle]
  BY DEF GetError, Fails, Answer, Respond
<1>2. req'[r].pc = "idle"
  BY <1>1, AnsweredIsIdle
<1> QED
  BY <1>1, <1>2, ForgetfulLeaves

\* DELETE aborts the only attempt.
LEMMA AbortLeaves ==
  ASSUME IInv, SoleAttemptInv, NEW r \in Requests, NEW v \in Visits, Abort(r, v),
         UNCHANGED run
  PROVE  SoleAttemptInv'
<1>1. req[r].pc = "idle" /\ UNCHANGED <<job, arq>>
  BY DEF Abort, IsIdle, Waiting
<1>2. CASE req' = [req EXCEPT ![r] = Idle]
  <2>1. req'[r].pc = "idle"
    BY <1>2, AnsweredIsIdle
  <2> QED
    BY <1>1, <1>2, <2>1, ForgetfulLeaves
<1>3. CASE /\ Exists(v) /\ job[v].arq_job_id # None
           /\ req' = [req EXCEPT ![r] = [Idle EXCEPT !.pc = "abort", !.visit = v,
                                                     !.arq = job[v].arq_job_id]]
  <2>1. PICK a \in ArqIds : a = job[v].arq_job_id
    BY <1>3, StoreInvHolds DEF StoreInv, StoreTypeOK, Exists, Row
  <2>2. OnlyBusy(v, a)
    BY <1>3, <2>1 DEF SoleAttemptInv, SoleInv
  <2>3. OnlyBusy(v, a)'
    BY <1>1, <2>2, AttemptsStay
  <2>4. req'[r].pc = "abort" /\ req'[r].visit = v /\ req'[r].arq = a
    <3>1. req'[r] = [Idle EXCEPT !.pc = "abort", !.visit = v, !.arq = job[v].arq_job_id]
      BY <1>3, OthersWait
    <3> QED
      BY <2>1, <3>1 DEF Idle
  <2>5. ClientInv(r)'
    BY <2>3, <2>4 DEF ClientInv, OnlyBusy
  <2> QED
    BY <1>1, <1>3, <2>5, ReaderLeaves
<1> QED
  BY <1>2, <1>3 DEF Abort, Respond, Await

\* It carries the same attempt along while it waits for the answer.
LEMMA CarriesOn ==
  ASSUME IInv, SoleAttemptInv, NEW r \in Requests, UNCHANGED <<job, run>>,
         \A a \in ArqIds : arq'[a].status = arq[a].status /\ arq'[a].visit = arq[a].visit,
         req[r].pc \in {"abort", "abort_result"}, NEW pc \in {"abort_result", "mark_failed"},
         req' = [req EXCEPT ![r] = [req[r] EXCEPT !.pc = pc]]
  PROVE  SoleAttemptInv'
<1>1. PICK v \in Visits, a \in ArqIds : v = req[r].visit /\ a = req[r].arq
  BY InFlight
<1>2. OnlyBusy(v, a)'
  <2>1. OnlyBusy(v, a)
    BY <1>1 DEF SoleAttemptInv, ClientInv
  <2> QED
    BY <2>1, AttemptsStay
<1>3. req'[r].pc = pc /\ req'[r].visit = v /\ req'[r].arq = a
  <2>1. req'[r] = [req[r] EXCEPT !.pc = pc]
    BY OthersWait
  <2> QED
    BY <1>1, <2>1, InFlight DEF Request
<1>4. ClientInv(r)'
  BY <1>2, <1>3 DEF ClientInv, OnlyBusy
<1> QED
  BY <1>4, ReaderLeaves

\* The flag of an abort moves no job.
LEMMA FlagLeavesJobs ==
  ASSUME IInv, NEW b \in ArqIds, FlagAbort(b), NEW a \in ArqIds
  PROVE  arq'[a].status = arq[a].status /\ arq'[a].visit = arq[a].visit
<1>1. CASE UNCHANGED arq
  BY <1>1
<1>2. CASE arq' = [arq EXCEPT ![b].abort = TRUE]
  BY <1>2, SetAbortMoves DEF IInv, TypeOK, ArqMoves
<1> QED
  BY <1>1, <1>2 DEF FlagAbort

LEMMA AbortRequestLeaves ==
  ASSUME IInv, SoleAttemptInv, NEW r \in Requests, AbortRequest(r), UNCHANGED run
  PROVE  SoleAttemptInv'
<1>1. /\ req[r].pc = "abort" /\ UNCHANGED job /\ FlagAbort(req[r].arq)
      /\ req' = [req EXCEPT ![r] = [req[r] EXCEPT !.pc = "abort_result"]]
  BY DEF AbortRequest, Waiting, Await
<1>2. req[r].arq \in ArqIds
  BY <1>1, InFlight
<1> QED
  BY <1>1, <1>2, FlagLeavesJobs, CarriesOn

LEMMA AbortErrorLeaves ==
  ASSUME IInv, SoleAttemptInv, NEW r \in Requests, AbortError(r), UNCHANGED run
  PROVE  SoleAttemptInv'
<1>1. /\ req[r].pc \in {"abort", "abort_result"} /\ UNCHANGED job
      /\ UNCHANGED arq \/ FlagAbort(req[r].arq)
      /\ req' = [req EXCEPT ![r] = Idle]
  BY DEF AbortError, Waiting, Fails, Answer, Respond
<1>2. req[r].arq \in ArqIds
  BY <1>1, InFlight
<1>3. \A a \in ArqIds : arq'[a].status = arq[a].status /\ arq'[a].visit = arq[a].visit
  BY <1>1, <1>2, FlagLeavesJobs
<1>4. ClientInv(r)'
  <2>1. req'[r].pc = "idle"
    BY <1>1, AnsweredIsIdle
  <2> QED
    BY <2>1 DEF ClientInv
<1> QED
  BY <1>1, <1>3, <1>4, ReaderLeaves

LEMMA AbortResultLeaves ==
  ASSUME IInv, SoleAttemptInv, NEW r \in Requests, AbortResult(r), UNCHANGED run
  PROVE  SoleAttemptInv'
<1>1. req[r].pc = "abort_result" /\ UNCHANGED <<job, arq>>
  BY DEF AbortResult, Waiting
<1>2. CASE req' = [req EXCEPT ![r] = Idle]
  <2>1. req'[r].pc = "idle"
    BY <1>2, AnsweredIsIdle
  <2> QED
    BY <1>1, <1>2, <2>1, ForgetfulLeaves
<1>3. CASE req' = [req EXCEPT ![r] = [req[r] EXCEPT !.pc = "mark_failed"]]
  BY <1>1, <1>3, CarriesOn
<1> QED
  BY <1>2, <1>3 DEF AbortResult, Await, Answer, Respond

LEMMA AbortTimeoutLeaves ==
  ASSUME IInv, SoleAttemptInv, NEW r \in Requests, AbortTimeout(r), UNCHANGED run
  PROVE  SoleAttemptInv'
<1>1. /\ req[r].pc = "abort_result" /\ UNCHANGED <<job, arq>>
      /\ req' = [req EXCEPT ![r] = Idle]
  BY DEF AbortTimeout, Waiting, Answer, Respond
<1>2. req'[r].pc = "idle"
  BY <1>1, AnsweredIsIdle
<1> QED
  BY <1>1, <1>2, ForgetfulLeaves

\* The abort is recorded once its attempt, the only one, is over.
LEMMA AbortRecordedLeaves ==
  ASSUME OneWriterEach, IInv, SoleAttemptInv, NEW r \in Requests, UNCHANGED <<arq, run>>,
         req[r].pc = "mark_failed", req' = [req EXCEPT ![r] = Idle],
         MarkFailed(req[r].visit, "JobAborted")
  PROVE  SoleAttemptInv'
<1>1. /\ req[r].pc = "mark_failed" /\ UNCHANGED arq /\ req' = [req EXCEPT ![r] = Idle]
      /\ MarkFailed(req[r].visit, "JobAborted")
  OBVIOUS
<1>2. PICK v \in Visits, a \in ArqIds : v = req[r].visit /\ a = req[r].arq
  BY <1>1, InFlight
<1>3. /\ StoreInv /\ Exists(v) /\ job[v] \in Row
  BY <1>1, <1>2, InFlight DEF StoreInv, StoreTypeOK, Exists
<1>4. StoreInv'
  BY <1>1, <1>2, <1>3, MarkFailedMoves DEF ErrorCodes
<1>5. NoneBusy(v)
  <2>1. ~IsBusy(a)
    BY <1>1, <1>2, InFlight, BusyIsLive DEF RequestInv
  <2>2. OnlyBusy(v, a)
    BY <1>1, <1>2 DEF SoleAttemptInv, ClientInv
  <2> QED
    BY <2>1, <2>2 DEF OnlyBusy, NoneBusy
<1>6. \A u \in Visits \ {v} : job'[u] = job[u]
  BY <1>1, <1>2, <1>3 DEF MarkFailed, Transition, StoreInv, StoreTypeOK
<1>7. ASSUME NEW u \in Visits, Exists(u)'
      PROVE  /\ job'[u].phase = "ERROR" => NoneBusy(u)
             /\ job'[u].arq_job_id # None => OnlyBusy(u, job'[u].arq_job_id)
             /\ ShouldEnqueue(job'[u]) /\ (\A q \in Requests : ~Registers(q, u)') =>
                  NoneBusy(u)
  <2>1. CASE u = v
    BY <1>5, <2>1 DEF NoneBusy, OnlyBusy
  <2>2. CASE u # v
    <3>1. job'[u] = job[u] /\ Exists(u) /\ SoleInv(u)
      BY <1>6, <1>7, <2>2 DEF Exists, SoleAttemptInv
    <3>2. \A q \in Requests : Registers(q, u) => Registers(q, u)'
      BY <1>1, OthersWait DEF Registers
    <3> QED
      BY <3>1, <3>2 DEF SoleInv
  <2> QED
    BY <2>1, <2>2
<1>8. ClientInv(r)'
  <2>1. req'[r].pc = "idle"
    BY <1>1, AnsweredIsIdle
  <2> QED
    BY <2>1 DEF ClientInv
<1>9. WritersKeep(r)
  BY <1>1, <1>2, <1>6, OthersWait, OnlyItsOwnRow DEF IsWriting
<1> QED
  BY <1>1, <1>4, <1>7, <1>8, <1>9, ClientLeaves

LEMMA AbortMarkFailedLeaves ==
  ASSUME OneWriterEach, IInv, SoleAttemptInv, NEW r \in Requests,
         AbortMarkFailed(r) \/ AbortMarkFailedError(r), UNCHANGED run
  PROVE  SoleAttemptInv'
<1>1. /\ req[r].pc = "mark_failed" /\ UNCHANGED arq /\ req' = [req EXCEPT ![r] = Idle]
      /\ MarkFailed(req[r].visit, "JobAborted") \/ UNCHANGED job
  BY DEF AbortMarkFailed, AbortMarkFailedError, Waiting, Fails, Answer, Respond
<1>2. CASE UNCHANGED job
  <2>1. req'[r].pc = "idle"
    BY <1>1, AnsweredIsIdle
  <2> QED
    BY <1>1, <1>2, <2>1, ForgetfulLeaves
<1> QED
  BY <1>1, <1>2, AbortRecordedLeaves

LEMMA ApiLeaves ==
  ASSUME OneWriterEach, OneWriterEach', Faults \subseteq Ending,
         IInv, SoleAttemptInv, NEW r \in Requests, Api(ApiStep(r))
  PROVE  SoleAttemptInv'
<1>1. UNCHANGED run
  BY DEF Api
<1>2. CASE \E v \in Visits : Arrive(r, v)
  BY <1>1, <1>2, RegisterLeaves, GetLeaves, AbortLeaves DEF Arrive
<1>3. CASE Continue(r)
  BY <1>1, <1>3, EnqueueLeaves, SetArqJobIdLeaves, GetStatusLeaves, GetSucceededLeaves,
     AbortRequestLeaves, AbortResultLeaves, AbortMarkFailedLeaves DEF Continue
<1>4. CASE RequestFault(r)
  <2>1. CASE RequestDatabaseError(r)
    BY <1>1, <2>1, RegisterUnansweredLeaves, SetArqJobIdLeaves, AbortMarkFailedLeaves
    DEF RequestDatabaseError
  <2> QED
    BY <1>1, <1>4, <2>1, EnqueueErrorLeaves, AbortTimeoutLeaves, GetErrorLeaves,
       AbortErrorLeaves DEF RequestFault, Ending
<1> QED
  BY <1>2, <1>3, <1>4 DEF Api, ApiStep

LEMMA SoleAttemptInvInit == Init => SoleAttemptInv
<1> SUFFICES ASSUME Init
             PROVE  SoleAttemptInv
  OBVIOUS
<1>1. ASSUME NEW a \in ArqIds
      PROVE  UprightInv(a) /\ ~IsBusy(a)
  <2>1. arq[a] = Unknown /\ run[a] = NoRun
    BY DEF Init, ArqInit, WorkerInit
  <2>2. None \notin {"retry", "shutdown"}
    BY WorkerAssumption DEF Outcomes, Cancellations
  <2> QED
    BY <2>1, <2>2 DEF UprightInv, IsBusy, TryBlock, Unknown, NoRun
<1>2. \A v \in Visits : SoleInv(v)
  BY <1>1 DEF SoleInv, NoneBusy, OnlyBusy
<1>3. \A r \in Requests : ClientInv(r)
  BY DEF Init, ServiceInit, Idle, ClientInv
<1> QED
  BY <1>1, <1>2, <1>3 DEF SoleAttemptInv

LEMMA SoleAttemptInvStep ==
  ASSUME Faults \subseteq Ending
  PROVE  IInv /\ OneWriterEach /\ SoleAttemptInv /\ [Next /\ OneWriterEach']_vars =>
           OneWriterEach' /\ SoleAttemptInv'
<1> SUFFICES ASSUME IInv, OneWriterEach, SoleAttemptInv, [Next /\ OneWriterEach']_vars
             PROVE  OneWriterEach' /\ SoleAttemptInv'
  OBVIOUS
<1>1. CASE UNCHANGED vars
  BY <1>1 DEF vars, SoleAttemptInv, UprightInv, SoleInv, ClientInv, Registers, NoneBusy,
     OnlyBusy, IsBusy, Exists, Visit, OneWriterEach, IsWriting
<1>2. ASSUME NEW r \in Requests, Api(ApiStep(r)), OneWriterEach'
      PROVE  SoleAttemptInv'
  BY <1>2, ApiLeaves
<1>3. ASSUME NEW a \in ArqIds, WorkerStep(a), UNCHANGED req
      PROVE  SoleAttemptInv'
  BY <1>3, WorkerLeaves
<1> QED
  BY <1>1, <1>2, <1>3 DEF Next

\* Taking turns restricts what the clients do, not the system.
LEMMA SerialInvariant ==
  ASSUME Faults \subseteq Ending
  PROVE  SerialSpec => [](IInv /\ SoleAttemptInv)
<1>1. SerialSpec => Spec
  BY PTL DEF SerialSpec, Spec
<1>2. Init => OneWriterEach
  BY DEF Init, ServiceInit, Idle, OneWriterEach, IsWriting
<1>3. IInv /\ OneWriterEach /\ SoleAttemptInv /\ [Next /\ OneWriterEach']_vars =>
        OneWriterEach' /\ SoleAttemptInv'
  BY SoleAttemptInvStep
<1> QED
  BY <1>1, <1>2, <1>3, SoleAttemptInvInit, InvariantHolds, PTL DEF SerialSpec

(* Clients that take turns at a visit never have two attempts at it under    *)
(* way, whatever they ask about it and register besides, whichever of their  *)
(* requests fail in the database, at Redis or by timeout, as long as no job  *)
(* is started again by a crash or a shutdown and none is left behind without *)
(* its row knowing its id (by a POST that fails or dies once Redis has the   *)
(* job): the worker writes its row before or after the request records the   *)
(* id, and neither order loses the attempt.                                  *)
THEOREM OneAttemptEach ==
  ASSUME Faults \subseteq Ending
  PROVE  SerialSpec => []OneAttempt
<1>1. SoleAttemptInv => OneAttempt
  BY DEF SoleAttemptInv, SoleInv, OneAttempt, Attempts, IsBusy
<1> QED
  BY <1>1, SerialInvariant, PTL

(* Under the same hypotheses GET never takes the failure of an old attempt   *)
(* for that of the visit: the job an open row names is the one being worked  *)
(* on, and a job with a result is not.                                       *)
THEOREM OverlayTellsTheLiveAttempt ==
  ASSUME Faults \subseteq Ending
  PROVE  SerialSpec => []OverlayIsLive
<1>1. IInv /\ SoleAttemptInv => OverlayIsLive
  <2> SUFFICES ASSUME IInv, SoleAttemptInv, NEW v \in Visits, IsOpen(v),
                      job[v].arq_job_id # None,
                      arq[job[v].arq_job_id].result \notin {None, "success"},
                      NEW a \in Attempts(v)
               PROVE  FALSE
    BY DEF OverlayIsLive
  <2>1. a \in ArqIds /\ Visit(a) = v /\ IsBusy(a)
    BY DEF Attempts, IsBusy
  <2>2. a = job[v].arq_job_id
    BY <2>1 DEF SoleAttemptInv, SoleInv, OnlyBusy, IsOpen
  <2>3. IsLive(a)
    BY <2>1, BusyIsLive
  <2> QED
    BY <2>1, <2>2, <2>3, ArqAssumption DEF IInv, RunInv, IsLive, Results
<1> QED
  BY <1>1, SerialInvariant, PTL
-----------------------------------------------------------------------------
(* Nobody's visit is stranded.  A row that has no arq job id and that POST   *)
(* will not enqueue is worked on by a job that no DELETE can have found: no  *)
(* row names it, so nobody can ask for its abort.                            *)

\* A POST whose enqueue fails leaves a requeued row to whatever stale run takes it,
\* which a DELETE may still abort: one of the two must be ruled out.
Survivable ==
  {"recoverable_crash", "retry", "enqueue_unanswered", "id_not_recorded",
   "abort_timeout", "redis_error"}
  \cup (IF "abort" \in Calls THEN {} ELSE {"enqueue_error", "api_crash"})

\* Where a row without an arq job id needs somebody that works on it.
NeedsCare(v) ==
  /\ Exists(v) /\ job[v].arq_job_id = None
  /\ job[v].phase \in (IF "abort" \in Calls THEN OpenPhases ELSE {"EXECUTING"})

\* Nobody has asked, or is about to ask, for the abort of arq job a.
Unaborted(a) ==
  ~arq[a].abort /\ \A r \in Requests : ~(req[r].pc = "abort" /\ req[r].arq = a)

\* Arq job a is about to close the row of its visit, or has a try left to do so.
WillClose(a) ==
  \/ (arq[a].status = "queued" \/ Orphaned(a)) /\ arq[a].tries < MaxTries
  \/ run[a].pc \in {"mark_executing", "enrich", "mark_completed", "mark_failed"}
  \/ run[a].pc = "finally" /\ run[a].outcome = "retry" /\ arq[a].tries < MaxTries

Toils(a) == Unaborted(a) /\ WillClose(a)

Cared(v) ==
  \/ \E a \in ArqIds : Visit(a) = v /\ Toils(a)
  \/ "abort" \in Calls /\ \E r \in Requests : req[r].pc = "enqueue" /\ req[r].visit = v

NoDelete ==
  "abort" \notin Calls =>
    /\ \A a \in ArqIds : ~arq[a].abort
    /\ \A r \in Requests : req[r].pc \notin {"abort", "abort_result", "mark_failed"}

CareInv == NoDelete /\ \A v \in Visits : NeedsCare(v) => Cared(v)

LEMMA ClosingIsLive ==
  ASSUME IInv, NEW a \in ArqIds, WillClose(a)
  PROVE  IsLive(a) /\ Visit(a) \in Visits
BY DEF IInv, RunInv, IsLive, WillClose, Orphaned

\* Only registering, or the run that takes the row, makes a row need care.
NeedsNothing == \A v \in Visits : NeedsCare(v)' => NeedsCare(v)

LEMMA UntouchedNeedsNothing == UNCHANGED job => NeedsNothing
BY DEF NeedsNothing, NeedsCare, Exists

LEMMA MarkExecutingNeeds ==
  ASSUME StoreInv, NEW v \in Visits, Exists(v), MarkExecuting(v), NEW u \in Visits,
         NeedsCare(u)'
  PROVE  NeedsCare(u) \/ (u = v /\ "abort" \notin Calls)
<1>1. job[v] \in Row
  BY DEF StoreInv, StoreTypeOK, Exists
<1>2. \/ job' = job
      \/ /\ job' = [job EXCEPT ![v] = Executing(job[v])]
         /\ job[v].phase \in {"PENDING", "QUEUED"}
  BY AllowedPhases DEF MarkExecuting, Transition
<1>3. CASE u = v /\ job' # job
  <2>1. job'[v].arq_job_id = job[v].arq_job_id /\ job[v].phase \in OpenPhases
    BY <1>1, <1>2, <1>3, ExecutingColumns DEF StoreInv, StoreTypeOK, OpenPhases
  <2> QED
    BY <1>3, <2>1 DEF NeedsCare
<1>4. CASE u # v \/ job' = job
  <2>1. job'[u] = job[u]
    BY <1>2, <1>4 DEF StoreInv, StoreTypeOK
  <2> QED
    BY <2>1 DEF NeedsCare, Exists
<1> QED
  BY <1>3, <1>4

LEMMA MarkCompletedNeeds ==
  ASSUME StoreInv, NEW v \in Visits, Exists(v), MarkCompleted(v)
  PROVE  NeedsNothing
<1>1. job[v] \in Row
  BY DEF StoreInv, StoreTypeOK, Exists
<1>2. job' = job \/ job' = [job EXCEPT ![v] = AsCompleted(job[v])]
  BY DEF MarkCompleted, Transition
<1>3. AsCompleted(job[v]).phase = "COMPLETED"
  BY <1>1, AsCompletedColumns
<1>4. \A u \in Visits : job'[u] = job[u] \/ job'[u].phase = "COMPLETED"
  BY <1>2, <1>3 DEF StoreInv, StoreTypeOK
<1> QED
  BY <1>4 DEF NeedsNothing, NeedsCare, Exists, OpenPhases

LEMMA MarkFailedNeeds ==
  ASSUME StoreInv, NEW v \in Visits, Exists(v), NEW code \in ErrorCodes, MarkFailed(v, code)
  PROVE  NeedsNothing /\ ~NeedsCare(v)'
<1>1. ~IsOpen(v)'
  BY MarkFailedCloses
<1>2. \A u \in Visits \ {v} : job'[u] = job[u]
  BY DEF MarkFailed, Transition, StoreInv, StoreTypeOK
<1>3. ~NeedsCare(v)'
  BY <1>1 DEF NeedsCare, IsOpen, OpenPhases, Exists
<1> QED
  BY <1>2, <1>3 DEF NeedsNothing, NeedsCare, Exists

LEMMA SetArqJobIdNeeds ==
  ASSUME StoreInv, NEW v \in Visits, Exists(v), NEW a \in ArqIds,
         SetArqJobIdAndMarkQueued(v, a)
  PROVE  NeedsNothing
<1>1. job[v] \in Row
  BY DEF StoreInv, StoreTypeOK, Exists
<1>2. job' = job \/ job' = [job EXCEPT ![v] = QueuedAs(job[v], a)]
  BY DEF SetArqJobIdAndMarkQueued, Transition
<1>3. QueuedAs(job[v], a).arq_job_id # None
  BY <1>1, QueuedAsColumns, IdentitiesAssumption
<1>4. \A u \in Visits : job'[u] = job[u] \/ job'[u].arq_job_id # None
  BY <1>2, <1>3 DEF StoreInv, StoreTypeOK
<1> QED
  BY <1>4 DEF NeedsNothing, NeedsCare, Exists

LEMMA AddOrGetNeeds ==
  ASSUME StoreInv, NEW v \in Visits, AddOrGet(v), NEW u \in Visits, NeedsCare(u)'
  PROVE  \/ NeedsCare(u)
         \/ u = v /\ "abort" \in Calls /\ ShouldEnqueue(AddedOrGot(job[v]))
<1> DEFINE row == AddedOrGot(job[v])
<1>1. job'[v] = row /\ \A w \in Visits \ {v} : job'[w] = job[w]
  BY AddOrGetEffect DEF StoreInv
<1>2. \/ row = job[v] /\ Exists(v)
      \/ ShouldEnqueue(row)
  <2>1. CASE job[v] = NoRow
    BY <2>1 DEF AddedOrGot, NewRow, ShouldEnqueue
  <2>2. CASE job[v] \in Row /\ job[v].phase = "ERROR"
    <3>1. row = [NewRow EXCEPT !.phase = "QUEUED"]
      BY <2>2, NoRowAssumption, RequeuedColumns DEF AddedOrGot
    <3> QED
      BY <3>1 DEF NewRow, ShouldEnqueue
  <2>3. CASE job[v] \in Row /\ job[v].phase # "ERROR"
    BY <2>3, NoRowAssumption DEF AddedOrGot, Exists
  <2> QED
    BY <2>1, <2>2, <2>3 DEF StoreInv, StoreTypeOK
<1> HIDE DEF row
<1>3. CASE u # v
  BY <1>1, <1>3 DEF NeedsCare, Exists
<1>4. CASE u = v /\ row = job[v] /\ Exists(v)
  BY <1>1, <1>4 DEF NeedsCare, Exists
<1>5. CASE u = v /\ ShouldEnqueue(row)
  <2>1. "abort" \in Calls
    BY <1>1, <1>5 DEF NeedsCare, ShouldEnqueue
  <2> QED
    BY <1>5, <2>1 DEF row
<1> QED
  BY <1>2, <1>3, <1>4, <1>5

\* A step of the worker with job a leaves the rows cared for.
LEMMA RunCares ==
  ASSUME IInv, CareInv, NEW a \in ArqIds, UNCHANGED req, ArqMoves(a),
         \A b \in ArqIds \ {a} : run'[b] = run[b],
         arq'[a].abort => arq[a].abort,
         \A v \in Visits :
           NeedsCare(v)' => \/ NeedsCare(v)
                            \/ /\ "abort" \notin Calls
                               /\ arq'[a].visit = v /\ WillClose(a)',
         \A v \in Visits :
           NeedsCare(v)' /\ Visit(a) = v /\ Toils(a) => arq'[a].visit = v /\ WillClose(a)'
  PROVE  CareInv'
<1>1. NoDelete'
  BY DEF CareInv, NoDelete, ArqMoves
<1>2. Unaborted(a) => Unaborted(a)'
  BY DEF Unaborted
<1>3. ASSUME NEW b \in ArqIds \ {a}, Toils(b)
      PROVE  Toils(b)' /\ Visit(b)' = Visit(b)
  BY <1>3 DEF Toils, Unaborted, WillClose, Orphaned, ArqMoves, Visit
<1>4. ASSUME NEW v \in Visits, NeedsCare(v)'
      PROVE  Cared(v)'
  <2>1. CASE "abort" \notin Calls /\ arq'[a].visit = v /\ WillClose(a)'
    <3>1. Unaborted(a)
      BY <2>1 DEF CareInv, NoDelete, Unaborted
    <3> QED
      BY <1>2, <2>1, <3>1 DEF Cared, Toils, Visit
  <2>2. CASE NeedsCare(v)
    <3>1. Cared(v)
      BY <2>2 DEF CareInv
    <3>2. CASE \E b \in ArqIds \ {a} : Visit(b) = v /\ Toils(b)
      BY <1>3, <3>2 DEF Cared
    <3>3. CASE Visit(a) = v /\ Toils(a)
      <4>1. arq'[a].visit = v /\ WillClose(a)'
        BY <1>4, <3>3
      <4> QED
        BY <1>2, <3>3, <4>1 DEF Cared, Toils, Visit
    <3>4. CASE "abort" \in Calls /\ \E r \in Requests : req[r].pc = "enqueue" /\ req[r].visit = v
      BY <3>4 DEF Cared
    <3> QED
      BY <3>1, <3>2, <3>3, <3>4 DEF Cared
  <2> QED
    BY <1>4, <2>1, <2>2
<1> QED
  BY <1>1, <1>4 DEF CareInv

\* A step of run a on the way to closing its row.
LEMMA RunKeepsCaring ==
  ASSUME IInv, CareInv, NEW a \in ArqIds, UNCHANGED <<arq, req>>,
         \A b \in ArqIds \ {a} : run'[b] = run[b], NeedsNothing,
         \A v \in Visits : NeedsCare(v)' /\ Visit(a) = v /\ Toils(a) => WillClose(a)'
  PROVE  CareInv'
BY RunAlone, RunCares DEF NeedsNothing, Visit

LEMMA StartRunCares ==
  ASSUME IInv, CareInv, NEW a \in ArqIds, StartRun(a), UNCHANGED req
  PROVE  CareInv'
<1>1. /\ ArqMoves(a) /\ arq'[a].visit = arq[a].visit
  BY StartMoves DEF StartRun, IInv, TypeOK
<1>2. arq'[a].abort = arq[a].abort
  BY DEF StartRun, Start, IInv, TypeOK, ArqTypeOK, ArqJob
<1>3. /\ \A b \in ArqIds \ {a} : run'[b] = run[b]
      /\ run'[a].pc = "mark_executing"
  BY GoMoves DEF StartRun, TryBlock, IInv, TypeOK
<1>4. NeedsNothing /\ WillClose(a)'
  BY <1>3, UntouchedNeedsNothing DEF StartRun, WillClose
<1> QED
  BY <1>1, <1>2, <1>3, <1>4, RunCares DEF NeedsNothing, Visit

\* arq refuses only a job that is to be aborted or has used its tries.
LEMMA RefuseRunCares ==
  ASSUME IInv, CareInv, NEW a \in ArqIds, RefuseRun(a), UNCHANGED req
  PROVE  CareInv'
<1>1. PICK result \in Results : Completed(a, result)
  BY DEF RefuseRun, Refuse, Results
<1>2. /\ arq[a].status = "queued" /\ UNCHANGED <<job, run>>
      /\ arq[a].abort \/ arq[a].tries >= MaxTries
      /\ arq[a] \in ArqJob /\ run[a].pc = "none"
  BY DEF RefuseRun, Refuse, StartsAborted, StartsExhausted, IInv, TypeOK, ArqTypeOK, RunInv
<1>3. ArqMoves(a) /\ arq'[a].abort = FALSE
  BY <1>1, <1>2, CompletedMoves DEF Completed, ArqJob, IInv, TypeOK, ArqTypeOK
<1>4. ~Toils(a)
  <2>1. arq[a].tries \in Nat /\ MaxTries \in Nat
    BY <1>2, ArqAssumption DEF ArqJob
  <2> QED
    BY <1>2, <2>1 DEF Toils, Unaborted, WillClose, Orphaned
<1> QED
  BY <1>2, <1>3, <1>4, UntouchedNeedsNothing, RunCares DEF NeedsNothing

LEMMA InProgressExpiresCares ==
  ASSUME IInv, CareInv, NEW a \in ArqIds, InProgressExpires(a), UNCHANGED req
  PROVE  CareInv'
<1>1. /\ arq[a].status = "in_progress" /\ run[a].pc = "none" /\ PutBack(a)
      /\ UNCHANGED <<job, run>>
  BY DEF InProgressExpires, At
<1>2. /\ ArqMoves(a) /\ arq'[a].status = "queued" /\ arq'[a].visit = arq[a].visit
      /\ arq'[a].tries = arq[a].tries /\ arq'[a].abort = arq[a].abort
  BY <1>1, PutBackMoves DEF IInv, TypeOK, ArqTypeOK, ArqJob, PutBack
<1>3. Toils(a) => WillClose(a)'
  BY <1>1, <1>2 DEF Toils, WillClose, Orphaned
<1> QED
  BY <1>1, <1>2, <1>3, UntouchedNeedsNothing, RunCares DEF NeedsNothing, Visit

LEMMA ExpireCares ==
  ASSUME IInv, CareInv, NEW a \in ArqIds, Expire(a), UNCHANGED req
  PROVE  CareInv'
<1>1. /\ arq[a].status = "complete" /\ arq' = [arq EXCEPT ![a] = Unknown]
      /\ ResultExpires(a) /\ UNCHANGED <<job, run>>
  BY DEF Expire, ResultExpires
<1>2. ArqMoves(a) /\ arq'[a] = Unknown
  BY <1>1, ResultExpiresMoves DEF IInv, TypeOK, ArqTypeOK
<1>3. ~arq'[a].abort /\ ~Toils(a)
  BY <1>1, <1>2 DEF Unknown, IInv, RunInv, Toils, WillClose, Orphaned
<1> QED
  BY <1>1, <1>2, <1>3, UntouchedNeedsNothing, RunCares DEF NeedsNothing

\* Whatever is raised in the try block is about to be recorded.
LEMMA FailCares ==
  ASSUME IInv, CareInv, NEW a \in ArqIds, NEW code \in ErrorCodes,
         Fail(a, code, "failure"), UNCHANGED <<arq, req>>, NeedsNothing
  PROVE  CareInv'
<1>1. /\ \A b \in ArqIds \ {a} : run'[b] = run[b]
      /\ run'[a].pc = "mark_failed"
  BY FailMoves DEF IInv, TypeOK, Outcomes
<1> QED
  BY <1>1, RunKeepsCaring DEF WillClose

\* The run that takes a row works on it, and no DELETE has named it.
LEMMA RunMarkExecutingCares ==
  ASSUME IInv, CareInv, NEW a \in ArqIds, RunMarkExecuting(a), UNCHANGED req
  PROVE  CareInv'
<1>1. PICK v \in Visits : v = Visit(a)
  BY RunningFor DEF RunMarkExecuting, At
<1>2. /\ run[a].pc = "mark_executing" /\ MarkExecuting(v) /\ UNCHANGED arq
      /\ Fail(a, "InvalidTransition", "failure") \/ Go(a, "enrich")
  BY <1>1 DEF RunMarkExecuting, At
<1>3. StoreInv /\ Exists(v)
  BY <1>1, <1>2, RunningFor
<1>4. /\ \A b \in ArqIds \ {a} : run'[b] = run[b]
      /\ run'[a].pc \in {"mark_failed", "enrich"}
  BY <1>2, FailMoves, GoMoves DEF IInv, TypeOK, Outcomes, ErrorCodes, TryBlock
<1>5. WillClose(a)' /\ arq'[a].visit = v
  BY <1>1, <1>2, <1>4 DEF WillClose, Visit
<1>6. \A u \in Visits : NeedsCare(u)' => NeedsCare(u) \/ (u = v /\ "abort" \notin Calls)
  BY <1>2, <1>3, MarkExecutingNeeds
<1> QED
  BY <1>1, <1>2, <1>4, <1>5, <1>6, RunAlone, RunCares

LEMMA EnrichCares ==
  ASSUME IInv, CareInv, NEW a \in ArqIds, Enrich(a), UNCHANGED req
  PROVE  CareInv'
<1>1. Go(a, "mark_completed") /\ UNCHANGED <<job, arq>>
  BY DEF Enrich
<1>2. /\ \A b \in ArqIds \ {a} : run'[b] = run[b]
      /\ run'[a].pc = "mark_completed"
  BY <1>1, GoMoves DEF IInv, TypeOK, TryBlock
<1> QED
  BY <1>1, <1>2, UntouchedNeedsNothing, RunKeepsCaring DEF WillClose

LEMMA EnrichRetriesCares ==
  ASSUME IInv, CareInv, NEW a \in ArqIds, EnrichRetries(a), UNCHANGED req
  PROVE  CareInv'
<1>1. UNCHANGED <<job, arq>>
  BY DEF EnrichRetries
<1>2. CASE Fail(a, "RetriesExhausted", "failure")
  BY <1>1, <1>2, UntouchedNeedsNothing, FailCares DEF ErrorCodes
<1>3. CASE Leave(a, "retry") /\ arq[a].tries < MaxTries
  <2>1. /\ \A b \in ArqIds \ {a} : run'[b] = run[b]
        /\ run'[a].pc = "finally" /\ run'[a].outcome = "retry"
    BY <1>3, LeaveMoves DEF IInv, TypeOK, Outcomes
  <2> QED
    BY <1>1, <1>3, <2>1, UntouchedNeedsNothing, RunKeepsCaring DEF WillClose
<1> QED
  BY <1>2, <1>3 DEF EnrichRetries

LEMMA RunMarkCompletedCares ==
  ASSUME IInv, CareInv, NEW a \in ArqIds, RunMarkCompleted(a), UNCHANGED req
  PROVE  CareInv'
<1>1. PICK v \in Visits : v = Visit(a)
  BY RunningFor DEF RunMarkCompleted, At
<1>2. /\ run[a].pc = "mark_completed" /\ MarkCompleted(v) /\ UNCHANGED arq
      /\ \/ Fail(a, "InvalidTransition", "failure")
         \/ Go(a, "committed") /\ ~Rejects("mark_completed", v)
  BY <1>1 DEF RunMarkCompleted, At
<1>3. StoreInv /\ Exists(v)
  BY <1>1, <1>2, RunningFor
<1>4. NeedsNothing
  BY <1>2, <1>3, MarkCompletedNeeds
<1>5. CASE Fail(a, "InvalidTransition", "failure")
  BY <1>2, <1>4, <1>5, FailCares DEF ErrorCodes
<1>6. CASE Go(a, "committed") /\ ~Rejects("mark_completed", v)
  <2>1. \A b \in ArqIds \ {a} : run'[b] = run[b]
    BY <1>6, GoMoves DEF IInv, TypeOK, TryBlock
  <2>2. ~NeedsCare(v)'
    BY <1>2, <1>3, <1>6, MarkCompletedMoves DEF IsCompleted, NeedsCare, OpenPhases
  <2> QED
    BY <1>1, <1>2, <1>4, <2>1, <2>2, RunKeepsCaring
<1> QED
  BY <1>2, <1>5, <1>6

LEMMA ReturnCares ==
  ASSUME IInv, CareInv, NEW a \in ArqIds, Return(a), UNCHANGED req
  PROVE  CareInv'
<1>1. run[a].pc = "committed" /\ Leave(a, "return") /\ UNCHANGED <<job, arq>>
  BY DEF Return, At
<1>2. \A b \in ArqIds \ {a} : run'[b] = run[b]
  BY <1>1, LeaveMoves DEF IInv, TypeOK, Outcomes
<1>3. ~Toils(a)
  BY <1>1 DEF IInv, RunInv, Toils, WillClose, Orphaned
<1> QED
  BY <1>1, <1>2, <1>3, UntouchedNeedsNothing, RunKeepsCaring

LEMMA RunMarkFailedCares ==
  ASSUME IInv, CareInv, NEW a \in ArqIds, RunMarkFailed(a), UNCHANGED req
  PROVE  CareInv'
<1>1. PICK v \in Visits : v = Visit(a)
  BY RunningFor DEF RunMarkFailed, At
<1>2. /\ run[a].pc = "mark_failed" /\ MarkFailed(v, run[a].code) /\ UNCHANGED arq
      /\ Leave(a, "failure") \/ Leave(a, run[a].outcome)
  BY <1>1 DEF RunMarkFailed, At
<1>3. StoreInv /\ Exists(v) /\ run[a].code \in ErrorCodes /\ run[a].outcome \in Outcomes
  BY <1>1, <1>2, RunningFor DEF RunInv
<1>4. NeedsNothing /\ ~NeedsCare(v)'
  BY <1>2, <1>3, MarkFailedNeeds
<1>5. \A b \in ArqIds \ {a} : run'[b] = run[b]
  BY <1>2, <1>3, LeaveMoves DEF IInv, TypeOK, Outcomes
<1> QED
  BY <1>1, <1>2, <1>4, <1>5, RunKeepsCaring

\* Only a job that a DELETE has named is cancelled.
LEMMA CancelCares ==
  ASSUME IInv, CareInv, NEW a \in ArqIds, Cancel(a, "abort"), UNCHANGED req
  PROVE  CareInv'
<1>1. /\ UNCHANGED job
      /\ Fail(a, "JobAborted", "abort") \/ Leave(a, "abort")
      /\ arq[a].abort /\ arq' = [arq EXCEPT ![a].abort = FALSE]
  BY DEF Cancel
<1>2. ArqMoves(a)
  BY <1>1, SetAbortMoves DEF IInv, TypeOK
<1>3. \A b \in ArqIds \ {a} : run'[b] = run[b]
  BY <1>1, FailMoves, LeaveMoves DEF IInv, TypeOK, ErrorCodes, Outcomes, Cancellations
<1>4. ~Toils(a)
  BY <1>1 DEF Toils, Unaborted
<1> QED
  BY <1>1, <1>2, <1>3, <1>4, UntouchedNeedsNothing, RunCares DEF NeedsNothing

LEMMA FinishCares ==
  ASSUME IInv, CareInv, NEW a \in ArqIds, Finish(a), UNCHANGED req
  PROVE  CareInv'
<1>1. /\ run[a].pc = "finally" /\ Settle(a, run[a].outcome)
      /\ run' = [run EXCEPT ![a] = NoRun] /\ UNCHANGED job
  BY DEF Finish, At
<1>2. /\ WorkerTypeOK /\ ArqTypeOK /\ arq[a] \in ArqJob
      /\ arq[a].status = "in_progress" /\ run[a].outcome \in Outcomes
  BY <1>1, RunningFor DEF ArqTypeOK, RunInv
<1>3. \A b \in ArqIds \ {a} : run'[b] = run[b]
  BY <1>1, <1>2, StopMoves
<1>4. CASE run[a].outcome \in {"retry", "shutdown"}
  <2>1. PutBack(a)
    BY <1>1, <1>4 DEF Settle
  <2>2. /\ ArqMoves(a) /\ arq'[a].status = "queued" /\ arq'[a].visit = arq[a].visit
        /\ arq'[a].tries = arq[a].tries /\ arq'[a].abort = arq[a].abort
    BY <1>2, <2>1, PutBackMoves DEF PutBack, ArqTypeOK, ArqJob
  <2>3. Toils(a) => WillClose(a)'
    BY <1>1, <1>2, <2>2 DEF Toils, WillClose, Orphaned
  <2> QED
    BY <1>1, <1>3, <2>2, <2>3, UntouchedNeedsNothing, RunCares DEF NeedsNothing, Visit
<1>5. CASE run[a].outcome \notin {"retry", "shutdown"}
  <2>1. PICK result \in Results : Completed(a, result)
    BY <1>1, <1>2, <1>5 DEF Settle, Outcomes, Cancellations, Results
  <2>2. ArqMoves(a) /\ arq'[a].abort = FALSE
    BY <1>2, <2>1, CompletedMoves DEF Completed, ArqTypeOK, ArqJob
  <2>3. ~Toils(a)
    BY <1>1, <1>2, <1>5 DEF Toils, WillClose, Orphaned
  <2> QED
    BY <1>1, <1>3, <2>2, <2>3, UntouchedNeedsNothing, RunCares DEF NeedsNothing
<1> QED
  BY <1>4, <1>5

LEMMA RecoverableCrashCares ==
  ASSUME IInv, CareInv, NEW a \in ArqIds, arq[a].tries < MaxTries, WorkerCrash(a),
         UNCHANGED req
  PROVE  CareInv'
<1>1. /\ run[a].pc # "none" /\ run' = [run EXCEPT ![a] = NoRun] /\ UNCHANGED <<job, arq>>
  BY DEF WorkerCrash, At
<1>2. (\A b \in ArqIds \ {a} : run'[b] = run[b]) /\ run'[a].pc = "none"
  BY <1>1, StopMoves DEF IInv, TypeOK
<1>3. WillClose(a)'
  BY <1>1, <1>2 DEF WillClose, Orphaned, IInv, RunInv
<1> QED
  BY <1>1, <1>2, <1>3, UntouchedNeedsNothing, RunKeepsCaring

LEMMA WorkerCares ==
  ASSUME Faults \subseteq Survivable, IInv, CareInv, NEW a \in ArqIds, WorkerStep(a),
         UNCHANGED req
  PROVE  CareInv'
<1>1. Faults \cap {"worker_crash", "shutdown", "timeout", "database_error"} = {}
  BY DEF Survivable
<1>2. CASE Proceed(a)
  BY <1>2, RunMarkExecutingCares, EnrichCares, RunMarkCompletedCares, ReturnCares,
     RunMarkFailedCares, FinishCares DEF Proceed
<1>3. CASE Dispatch(a)
  BY <1>3, StartRunCares, RefuseRunCares, InProgressExpiresCares, ExpireCares DEF Dispatch
<1>4. CASE Cancel(a, "abort")
  BY <1>4, CancelCares
<1>5. CASE RunFault(a)
  <2>1. CASE EnrichFails(a)
    BY <2>1, UntouchedNeedsNothing, FailCares DEF EnrichFails, ErrorCodes
  <2> QED
    BY <1>1, <1>5, <2>1, EnrichRetriesCares, RecoverableCrashCares DEF RunFault
<1> QED
  BY <1>2, <1>3, <1>4, <1>5 DEF WorkerStep

\* A step of request r leaves the rows cared for.
LEMMA RequestCares ==
  ASSUME IInv, CareInv, NEW r \in Requests, UNCHANGED run, NoDelete',
         \A q \in Requests \ {r} : req'[q] = req[q],
         \A a \in ArqIds : WillClose(a) => WillClose(a)' /\ arq'[a].visit = arq[a].visit,
         \A a \in ArqIds, v \in Visits :
           Toils(a) /\ Visit(a) = v /\ NeedsCare(v)' => Unaborted(a)',
         \A v \in Visits : NeedsCare(v)' => NeedsCare(v) \/ Cared(v)',
         \A v \in Visits :
           "abort" \in Calls /\ req[r].pc = "enqueue" /\ req[r].visit = v => Cared(v)'
  PROVE  CareInv'
<1> SUFFICES ASSUME NEW v \in Visits, NeedsCare(v)', NeedsCare(v)
             PROVE  Cared(v)'
  BY DEF CareInv
<1>1. Cared(v)
  BY DEF CareInv
<1>2. CASE \E a \in ArqIds : Visit(a) = v /\ Toils(a)
  <2>1. PICK a \in ArqIds : Visit(a) = v /\ Toils(a)
    BY <1>2
  <2>2. Unaborted(a)' /\ WillClose(a)' /\ Visit(a)' = v
    BY <2>1 DEF Toils, Visit
  <2> QED
    BY <2>2 DEF Cared, Toils
<1>3. CASE /\ "abort" \in Calls
           /\ \E q \in Requests : req[q].pc = "enqueue" /\ req[q].visit = v
  BY <1>3 DEF Cared
<1> QED
  BY <1>1, <1>2, <1>3 DEF Cared

\* One that does not touch the jobs, nor goes on to abort one.
LEMMA RequestKeepsCaring ==
  ASSUME IInv, CareInv, NEW r \in Requests, UNCHANGED <<arq, run>>,
         NEW request, req' = [req EXCEPT ![r] = request], request.pc # "abort",
         "abort" \in Calls \/ request.pc \notin {"abort_result", "mark_failed"},
         \A v \in Visits : NeedsCare(v)' => NeedsCare(v) \/ Cared(v)',
         "abort" \in Calls => req[r].pc # "enqueue"
  PROVE  CareInv'
<1>1. req'[r] = request /\ \A q \in Requests \ {r} : req'[q] = req[q]
  BY OthersWait
<1>2. NoDelete'
  BY <1>1 DEF CareInv, NoDelete
<1>3. \A a \in ArqIds : WillClose(a) => WillClose(a)' /\ arq'[a].visit = arq[a].visit
  BY DEF WillClose, Orphaned
<1>4. \A a \in ArqIds : Unaborted(a) => Unaborted(a)'
  BY <1>1 DEF Unaborted
<1> QED
  BY <1>1, <1>2, <1>3, <1>4, RequestCares DEF Toils

\* One that ends with its answer.
LEMMA AnswerCares ==
  ASSUME IInv, CareInv, NEW r \in Requests, UNCHANGED <<arq, run>>,
         req' = [req EXCEPT ![r] = Idle], NeedsNothing,
         "abort" \in Calls => req[r].pc # "enqueue"
  PROVE  CareInv'
<1>1. Idle.pc = "idle"
  BY DEF Idle
<1> QED
  BY <1>1, RequestKeepsCaring DEF NeedsNothing

\* A row that was opened or wiped is about to be enqueued.
LEMMA RegisterCares ==
  ASSUME IInv, CareInv, NEW r \in Requests, NEW v \in Visits, Register(r, v), UNCHANGED run
  PROVE  CareInv'
<1> DEFINE row == AddedOrGot(job[v])
           request == IF ShouldEnqueue(row)
                        THEN [Idle EXCEPT !.pc = "enqueue", !.visit = v]
                        ELSE Idle
<1>1. /\ req[r].pc = "idle" /\ UNCHANGED arq /\ AddOrGet(v) /\ StoreInv
      /\ req' = [req EXCEPT ![r] = request]
  BY StoreInvHolds DEF Register, IsIdle, Waiting, Await, Respond
<1>2. /\ request.pc \in {"idle", "enqueue"}
      /\ ShouldEnqueue(row) => request.pc = "enqueue" /\ request.visit = v
  BY DEF Idle
<1> HIDE DEF request
<1>3. req'[r] = request
  BY <1>1, OthersWait
<1>4. "abort" \in Calls /\ ShouldEnqueue(row) => Cared(v)'
  BY <1>2, <1>3 DEF Cared
<1>5. \A u \in Visits : NeedsCare(u)' => NeedsCare(u) \/ Cared(u)'
  BY <1>1, <1>4, AddOrGetNeeds
<1> QED
  BY <1>1, <1>2, <1>5, RequestKeepsCaring

\* The job that a request enqueues is nobody's to abort.
LEMMA EnqueuedCares ==
  ASSUME IInv, CareInv, NEW r \in Requests, req[r].pc = "enqueue", NEW a \in ArqIds,
         Fresh(a), EnqueueJob(a, req[r].visit), UNCHANGED <<job, run>>,
         NEW request, req' = [req EXCEPT ![r] = request],
         request.pc \in {"idle", "set_arq_job_id"}
  PROVE  CareInv'
<1>1. PICK v \in Visits : v = req[r].visit
  BY InFlight
<1>2. ArqMoves(a) /\ arq'[a].status = "queued" /\ arq'[a].visit = v
  BY <1>1, EnqueueJobMoves DEF IInv, TypeOK
<1>3. /\ arq'[a].tries = 0 /\ arq'[a].abort = FALSE /\ 0 < MaxTries
      /\ arq[a].status = "unknown" /\ \A q \in Requests : req[q].arq # a
  BY ArqAssumption DEF EnqueueJob, Unknown, Fresh, IInv, TypeOK, ArqTypeOK
<1>4. req'[r] = request /\ \A q \in Requests \ {r} : req'[q] = req[q]
  BY OthersWait
<1>5. Cared(v)'
  <2>1. Unaborted(a)'
    BY <1>3, <1>4 DEF Unaborted
  <2>2. WillClose(a)' /\ Visit(a)' = v
    BY <1>2, <1>3 DEF WillClose, Visit
  <2> QED
    BY <2>1, <2>2 DEF Cared, Toils
<1>6. NoDelete'
  BY <1>2, <1>3, <1>4 DEF CareInv, NoDelete, ArqMoves
<1>7. ASSUME NEW b \in ArqIds, WillClose(b)
      PROVE  WillClose(b)' /\ arq'[b] = arq[b] /\ (Unaborted(b) => Unaborted(b)')
  <2>1. b # a
    BY <1>3, <1>7, ClosingIsLive DEF IsLive
  <2> QED
    BY <1>2, <1>4, <1>7, <2>1 DEF ArqMoves, WillClose, Orphaned, Unaborted
<1>8. NeedsNothing
  BY UntouchedNeedsNothing
<1> QED
  BY <1>1, <1>4, <1>5, <1>6, <1>7, <1>8, RequestCares DEF Toils, NeedsNothing

LEMMA EnqueueCares ==
  ASSUME IInv, CareInv, NEW r \in Requests, Enqueue(r) \/ EnqueueUnanswered(r), UNCHANGED run
  PROVE  CareInv'
<1>1. req[r].pc = "enqueue" /\ UNCHANGED job
  BY DEF Enqueue, EnqueueUnanswered, Waiting
<1>2. CASE Enqueue(r)
  <2>1. PICK a \in ArqIds :
          /\ Fresh(a) /\ EnqueueJob(a, req[r].visit)
          /\ req' = [req EXCEPT ![r] = [req[r] EXCEPT !.pc = "set_arq_job_id", !.arq = a]]
    BY <1>2 DEF Enqueue, Await
  <2>2. [req[r] EXCEPT !.pc = "set_arq_job_id", !.arq = a].pc = "set_arq_job_id"
    BY InFlight DEF Request
  <2> QED
    BY <1>1, <2>1, <2>2, EnqueuedCares
<1>3. CASE EnqueueUnanswered(r)
  <2>1. PICK a \in ArqIds : Fresh(a) /\ EnqueueJob(a, req[r].visit)
    BY <1>3 DEF EnqueueUnanswered
  <2>2. req' = [req EXCEPT ![r] = Idle] /\ Idle.pc = "idle"
    BY <1>3 DEF EnqueueUnanswered, Fails, Answer, Respond, Idle
  <2> QED
    BY <1>1, <2>1, <2>2, EnqueuedCares
<1> QED
  BY <1>2, <1>3

LEMMA SetArqJobIdCares ==
  ASSUME IInv, CareInv, NEW r \in Requests, SetArqJobId(r) \/ SetArqJobIdError(r),
         UNCHANGED run
  PROVE  CareInv'
<1>1. /\ req[r].pc = "set_arq_job_id" /\ UNCHANGED arq /\ req' = [req EXCEPT ![r] = Idle]
      /\ SetArqJobIdAndMarkQueued(req[r].visit, req[r].arq) \/ UNCHANGED job
  BY DEF SetArqJobId, SetArqJobIdError, Waiting, Fails, Answer, Respond
<1>2. NeedsNothing
  BY <1>1, InFlight, SetArqJobIdNeeds, UntouchedNeedsNothing
<1> QED
  BY <1>1, <1>2, AnswerCares

\* What leaves the rows alone and does not ask for an abort.
LEMMA ReadsCare ==
  ASSUME IInv, CareInv, NEW r \in Requests, UNCHANGED <<job, arq, run>>,
         req[r].pc # "enqueue", NEW request, req' = [req EXCEPT ![r] = request],
         request.pc # "abort",
         "abort" \in Calls \/ request.pc \notin {"abort_result", "mark_failed"}
  PROVE  CareInv'
BY UntouchedNeedsNothing, RequestKeepsCaring DEF NeedsNothing

LEMMA GetCares ==
  ASSUME IInv, CareInv, NEW r \in Requests, NEW v \in Visits,
         Get(r, v) \/ GetStatus(r) \/ GetSucceeded(r) \/ GetError(r), UNCHANGED run
  PROVE  CareInv'
<1>1. req[r].pc # "enqueue" /\ UNCHANGED <<job, arq>>
  BY DEF Get, GetStatus, GetSucceeded, GetError, IsIdle, Waiting
<1>2. \E request : /\ req' = [req EXCEPT ![r] = request]
                   /\ request.pc \in {"idle", "status", "succeeded"}
  <2>1. CASE req' = [req EXCEPT ![r] = Idle]
    <3>1. Idle.pc = "idle"
      BY DEF Idle
    <3> QED
      BY <2>1, <3>1
  <2>2. CASE \E request : /\ req' = [req EXCEPT ![r] = request]
                          /\ request.pc = "status"
    BY <2>2
  <2>3. CASE req' = [req EXCEPT ![r] = [req[r] EXCEPT !.pc = "succeeded"]]
    <3>1. [req[r] EXCEPT !.pc = "succeeded"].pc = "succeeded"
      BY InFlight DEF Request
    <3> QED
      BY <2>3, <3>1
  <2>4. ASSUME Get(r, v) PROVE (\E request : /\ req' = [req EXCEPT ![r] = request]
                                            /\ request.pc = "status")
                               \/ req' = [req EXCEPT ![r] = Idle]
    <3> DEFINE status == [pc |-> "status", visit |-> v, arq |-> job[v].arq_job_id,
                          seen |-> job[v].phase]
    <3>1. status.pc = "status"
      OBVIOUS
    <3>2. req' = [req EXCEPT ![r] = status] \/ req' = [req EXCEPT ![r] = Idle]
      BY <2>4 DEF Get, Answer, Respond, Await
    <3> HIDE DEF status
    <3> QED
      BY <3>1, <3>2
  <2> QED
    BY <2>1, <2>2, <2>3, <2>4 DEF GetStatus, GetSucceeded, GetError, Fails, Answer, Respond, Await
<1> QED
  BY <1>1, <1>2, ReadsCare

\* DELETE names the job of a row that has one.
LEMMA AbortCares ==
  ASSUME IInv, CareInv, "abort" \in Calls, NEW r \in Requests, NEW v \in Visits, Abort(r, v),
         UNCHANGED run
  PROVE  CareInv'
<1>1. req[r].pc = "idle" /\ UNCHANGED <<job, arq>>
  BY DEF Abort, IsIdle, Waiting
<1>2. CASE req' = [req EXCEPT ![r] = Idle]
  BY <1>1, <1>2, UntouchedNeedsNothing, AnswerCares
<1>3. CASE /\ Exists(v) /\ job[v].arq_job_id # None
           /\ req' = [req EXCEPT ![r] = [Idle EXCEPT !.pc = "abort", !.visit = v,
                                                     !.arq = job[v].arq_job_id]]
  <2>1. /\ req'[r] = [Idle EXCEPT !.pc = "abort", !.visit = v, !.arq = job[v].arq_job_id]
        /\ \A q \in Requests \ {r} : req'[q] = req[q]
    BY <1>3, OthersWait
  <2>2. req'[r].arq = job[v].arq_job_id
    BY <2>1 DEF Idle
  <2>3. ASSUME NEW a \in ArqIds, NEW u \in Visits, Toils(a), Visit(a) = u, NeedsCare(u)'
        PROVE  Unaborted(a)'
    <3>1. job[u].arq_job_id = None
      BY <1>1, <2>3 DEF NeedsCare
    <3>2. job[v].arq_job_id = a => u = v
      BY <1>3, <2>3, ClosingIsLive DEF IInv, RowInv, IsFor, IsLive, Toils
    <3>3. req'[r].arq # a
      BY <1>3, <2>2, <3>1, <3>2
    <3> QED
      BY <1>1, <2>1, <2>3, <3>3 DEF Toils, Unaborted
  <2>4. \A a \in ArqIds : WillClose(a) => WillClose(a)' /\ arq'[a].visit = arq[a].visit
    BY <1>1 DEF WillClose, Orphaned
  <2>5. NoDelete' /\ NeedsNothing
    BY <1>1, UntouchedNeedsNothing DEF NoDelete
  <2> QED
    BY <1>1, <2>1, <2>3, <2>4, <2>5, RequestCares DEF NeedsNothing
<1> QED
  BY <1>2, <1>3 DEF Abort, Respond, Await

\* The job it asks arq to abort is one that it has named.
LEMMA FlagCares ==
  ASSUME IInv, CareInv, NEW r \in Requests, req[r].pc = "abort", FlagAbort(req[r].arq),
         UNCHANGED <<job, run>>, NEW request, req' = [req EXCEPT ![r] = request],
         request.pc \in {"idle", "abort_result"}
  PROVE  CareInv'
<1>1. PICK a \in ArqIds : a = req[r].arq
  BY InFlight
<1>2. "abort" \in Calls
  BY DEF CareInv, NoDelete
<1>3. ~Toils(a)
  BY <1>1 DEF Toils, Unaborted
<1>4. req'[r] = request /\ \A q \in Requests \ {r} : req'[q] = req[q]
  BY OthersWait
<1>5. UNCHANGED arq \/ arq' = [arq EXCEPT ![a].abort = TRUE]
  BY <1>1 DEF FlagAbort
<1>6. ASSUME NEW b \in ArqIds
      PROVE  /\ arq'[b].status = arq[b].status /\ arq'[b].visit = arq[b].visit
             /\ arq'[b].tries = arq[b].tries
             /\ b # a => arq'[b].abort = arq[b].abort
  BY <1>5 DEF IInv, TypeOK, ArqTypeOK, ArqJob
<1>7. \A b \in ArqIds : WillClose(b) => WillClose(b)' /\ arq'[b].visit = arq[b].visit
  BY <1>6 DEF WillClose, Orphaned
<1>8. ASSUME NEW b \in ArqIds, Toils(b)
      PROVE  Unaborted(b)'
  <2>1. b # a
    BY <1>3, <1>8
  <2> QED
    BY <1>4, <1>6, <1>8, <2>1 DEF Toils, Unaborted
<1>9. NoDelete' /\ NeedsNothing
  BY <1>2, UntouchedNeedsNothing DEF NoDelete
<1> QED
  BY <1>4, <1>7, <1>8, <1>9, RequestCares DEF NeedsNothing

LEMMA AbortRequestCares ==
  ASSUME IInv, CareInv, NEW r \in Requests, AbortRequest(r), UNCHANGED run
  PROVE  CareInv'
<1>1. /\ req[r].pc = "abort" /\ FlagAbort(req[r].arq) /\ UNCHANGED job
      /\ req' = [req EXCEPT ![r] = [req[r] EXCEPT !.pc = "abort_result"]]
  BY DEF AbortRequest, Waiting, Await
<1>2. [req[r] EXCEPT !.pc = "abort_result"].pc = "abort_result"
  BY InFlight DEF Request
<1> QED
  BY <1>1, <1>2, FlagCares

LEMMA AbortErrorCares ==
  ASSUME IInv, CareInv, NEW r \in Requests, AbortError(r), UNCHANGED run
  PROVE  CareInv'
<1>1. /\ req[r].pc \in {"abort", "abort_result"} /\ UNCHANGED job
      /\ UNCHANGED arq \/ (req[r].pc = "abort" /\ FlagAbort(req[r].arq))
      /\ req' = [req EXCEPT ![r] = Idle] /\ Idle.pc = "idle"
  BY DEF AbortError, Waiting, Fails, Answer, Respond, Idle
<1> QED
  BY <1>1, UntouchedNeedsNothing, FlagCares, AnswerCares

LEMMA AbortResultCares ==
  ASSUME IInv, CareInv, NEW r \in Requests, AbortResult(r) \/ AbortTimeout(r), UNCHANGED run
  PROVE  CareInv'
<1>1. req[r].pc = "abort_result" /\ UNCHANGED <<job, arq>>
  BY DEF AbortResult, AbortTimeout, Waiting
<1>2. "abort" \in Calls
  BY <1>1 DEF CareInv, NoDelete
<1>3. CASE req' = [req EXCEPT ![r] = Idle]
  BY <1>1, <1>3, UntouchedNeedsNothing, AnswerCares
<1>4. CASE req' = [req EXCEPT ![r] = [req[r] EXCEPT !.pc = "mark_failed"]]
  <2>1. [req[r] EXCEPT !.pc = "mark_failed"].pc = "mark_failed"
    BY InFlight DEF Request
  <2> QED
    BY <1>1, <1>2, <1>4, <2>1, ReadsCare
<1> QED
  BY <1>3, <1>4 DEF AbortResult, AbortTimeout, Await, Answer, Respond

LEMMA AbortMarkFailedCares ==
  ASSUME IInv, CareInv, NEW r \in Requests, AbortMarkFailed(r), UNCHANGED run
  PROVE  CareInv'
<1>1. /\ req[r].pc = "mark_failed" /\ UNCHANGED arq /\ req' = [req EXCEPT ![r] = Idle]
      /\ MarkFailed(req[r].visit, "JobAborted")
  BY DEF AbortMarkFailed, Waiting, Answer, Respond
<1>2. NeedsNothing
  BY <1>1, InFlight, MarkFailedNeeds DEF ErrorCodes
<1> QED
  BY <1>1, <1>2, AnswerCares

LEMMA ApiCares ==
  ASSUME Faults \subseteq Survivable, IInv, CareInv, NEW r \in Requests, Api(ApiStep(r))
  PROVE  CareInv'
<1>1. UNCHANGED run
  BY DEF Api
<1>2. CASE \E v \in Visits : Arrive(r, v)
  BY <1>1, <1>2, RegisterCares, GetCares, AbortCares DEF Arrive
<1>3. CASE Continue(r)
  <2>1. CASE GetStatus(r) \/ GetSucceeded(r)
    <3>1. req[r].visit \in Visits
      BY <2>1, InFlight DEF GetStatus, GetSucceeded, Waiting
    <3> QED
      BY <1>1, <2>1, <3>1, GetCares
  <2> QED
    BY <1>1, <1>3, <2>1, EnqueueCares, SetArqJobIdCares, AbortRequestCares, AbortResultCares,
       AbortMarkFailedCares DEF Continue
<1>4. CASE RequestFault(r)
  <2>1. CASE GetError(r)
    <3>1. req[r].visit \in Visits
      BY <2>1, InFlight DEF GetError
    <3> QED
      BY <1>1, <2>1, <3>1, GetCares
  <2>2. CASE \/ "enqueue_error" \in Faults /\ EnqueueError(r)
             \/ "api_crash" \in Faults /\ ApiCrash(r)
    <3>1. UNCHANGED <<job, arq>> /\ req' = [req EXCEPT ![r] = Idle]
      BY <2>2 DEF EnqueueError, ApiCrash, Fails, Answer, Respond
    <3>2. "abort" \notin Calls
      BY <2>2 DEF Survivable
    <3> QED
      BY <1>1, <3>1, <3>2, UntouchedNeedsNothing, AnswerCares
  <2>3. CASE EnqueueUnanswered(r)
    BY <1>1, <2>3, EnqueueCares
  <2>4. CASE SetArqJobIdError(r)
    BY <1>1, <2>4, SetArqJobIdCares
  <2>5. CASE AbortTimeout(r)
    BY <1>1, <2>5, AbortResultCares
  <2>6. CASE AbortError(r)
    BY <1>1, <2>6, AbortErrorCares
  <2>7. "database_error" \notin Faults
    BY DEF Survivable
  <2> QED
    BY <1>4, <2>1, <2>2, <2>3, <2>4, <2>5, <2>6, <2>7 DEF RequestFault
<1> QED
  BY <1>2, <1>3, <1>4 DEF Api, ApiStep

LEMMA CareInvInit == Init => CareInv
<1> SUFFICES ASSUME Init
             PROVE  CareInv
  OBVIOUS
<1>1. \A a \in ArqIds : ~arq[a].abort
  BY DEF Init, ArqInit, Unknown
<1>2. \A r \in Requests : req[r].pc = "idle"
  BY DEF Init, ServiceInit, Idle
<1>3. \A v \in Visits : ~NeedsCare(v)
  BY DEF Init, StoreInit, NeedsCare, Exists
<1> QED
  BY <1>1, <1>2, <1>3 DEF CareInv, NoDelete

LEMMA CareInvStep ==
  ASSUME Faults \subseteq Survivable
  PROVE  IInv /\ CareInv /\ [Next]_vars => CareInv'
<1> SUFFICES ASSUME IInv, CareInv, [Next]_vars
             PROVE  CareInv'
  OBVIOUS
<1>1. CASE UNCHANGED vars
  BY <1>1 DEF vars, CareInv, NoDelete, NeedsCare, Cared, Toils, Unaborted, WillClose, Orphaned,
     Exists, Visit
<1>2. ASSUME NEW r \in Requests, Api(ApiStep(r))
      PROVE  CareInv'
  BY <1>2, ApiCares
<1>3. ASSUME NEW a \in ArqIds, WorkerStep(a), UNCHANGED req
      PROVE  CareInv'
  BY <1>3, WorkerCares
<1> QED
  BY <1>1, <1>2, <1>3 DEF Next

(* However requests race, time out, lose their answers or never learn the id *)
(* of the job they enqueued, and however often a run is started again, no    *)
(* row is left EXECUTING, without an arq job id and without anybody to close *)
(* it.  If the clients never send DELETE, that holds too when the API dies   *)
(* or cannot enqueue at all.                                                 *)
THEOREM NobodyIsStranded ==
  ASSUME Faults \subseteq Survivable
  PROVE  Spec => []NoVisitIsStranded
<1>1. IInv /\ CareInv => NoVisitIsStranded
  <2> SUFFICES ASSUME IInv, CareInv, NEW v \in Visits, IsOpen(v), ~CanReopen(v)
               PROVE  \/ \E a \in ArqIds : IsLive(a) /\ Visit(a) = v
                      \/ \E r \in Requests :
                           req[r].visit = v /\ req[r].pc \in {"enqueue", "mark_failed"}
    BY DEF NoVisitIsStranded
  <2>1. NeedsCare(v)
    BY DEF CanReopen, ShouldEnqueue, IsOpen, NeedsCare, OpenPhases
  <2>2. Cared(v)
    BY <2>1 DEF CareInv
  <2> QED
    BY <2>2, ClosingIsLive DEF Cared, Toils
<1>2. IInv /\ CareInv /\ [Next]_vars => CareInv'
  BY CareInvStep
<1> QED
  BY <1>1, <1>2, CareInvInit, InvariantHolds, PTL DEF Spec
=============================================================================
