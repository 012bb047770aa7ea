--------------------------- MODULE ObsForgeProofs ---------------------------
(***************************************************************************)
(* What holds of ObsForge for any visits, arq ids, requests, number of     *)
(* tries, calls and faults: every step keeps the invariant of              *)
(* ObsForgeInvariant, one lemma per action; and ObsForge implements        *)
(* VisitLedger.                                                            *)
(***************************************************************************)
EXTENDS ObsForgeInvariant

LEMMA IInvInit == Init => IInv
<1> SUFFICES ASSUME Init
             PROVE  IInv
  OBVIOUS
<1>1. StoreInv
  BY StoreInvInit DEF Init
<1>2. ArqTypeOK
  BY ArqAssumption DEF Init, ArqInit, ArqTypeOK, ArqJob, Unknown
<1>3. WorkerTypeOK
  BY DEF Init, WorkerInit, WorkerTypeOK, Run, NoRun
<1>4. ServiceTypeOK
  BY DEF Init, ServiceInit, ServiceTypeOK, Request, Idle
<1>5. ASSUME NEW a \in ArqIds
      PROVE  RunInv(a)
  BY ArqAssumption, WorkerAssumption
  DEF Init, ArqInit, WorkerInit, Unknown, NoRun, RunInv, Outcomes, Results
<1>6. ASSUME NEW v \in Visits
      PROVE  RowInv(v)
  BY DEF Init, StoreInit, WorkerInit, RowInv, IsCompleted, Exists
<1>7. ASSUME NEW r \in Requests
      PROVE  RequestInv(r)
  BY DEF Init, ServiceInit, Idle, RequestInv
<1>8. CompletedAnswerIsTrue /\ AbortStopsTheWork
  BY DEF Init, ServiceInit, CompletedAnswerIsTrue, AbortStopsTheWork
<1> QED
  BY <1>1, <1>2, <1>3, <1>4, <1>5, <1>6, <1>7, <1>8 DEF IInv, TypeOK, StoreInv
-----------------------------------------------------------------------------
(* The steps of a run.                                                      *)

\* A step of the worker that leaves the database alone.
LEMMA DatabaseStill ==
  ASSUME IInv, NEW a \in ArqIds, UNCHANGED <<job, obscore, req>>, reply' = NoReply,
         ArqMoves(a), ArqKeeps(a),
         run' \in [ArqIds -> Run], \A b \in ArqIds \ {a} : run'[b] = run[b],
         RunInv(a)'
  PROVE  IInv'
<1>1. StoreInv'
  BY StoreInvHolds DEF StoreInv, StoreTypeOK, RowsConsistent, Exists
<1>2. Harmless /\ (\A v \in Visits : NoNewClaim(v)) /\ obscore' \in SUBSET Visits
  BY NothingHappens DEF Harmless, IInv, TypeOK, WorkerTypeOK
<1>3. \A b \in ArqIds : ArqKeeps(b)
  BY DEF ArqMoves, ArqKeeps, IsLive
<1>4. \A v \in Visits : RowInv(v)'
  BY <1>2, <1>3, RowsKeep
<1> QED
  BY <1>1, <1>2, <1>4, RunStep

\* A step of the worker that commits a transaction of the store.
LEMMA RunTransaction ==
  ASSUME IInv, NEW a \in ArqIds, UNCHANGED <<arq, obscore, req>>, reply' = NoReply,
         StoreInv', RowsSurvive, \A v \in Visits : RowInv(v)',
         run' \in [ArqIds -> Run], \A b \in ArqIds \ {a} : run'[b] = run[b],
         RunInv(a)'
  PROVE  IInv'
<1>1. Harmless /\ ArqMoves(a) /\ ArqKeeps(a) /\ obscore' \in SUBSET Visits
  BY ArqStill DEF Harmless, ArqMoves, ArqTypeOK, IInv, TypeOK, WorkerTypeOK
<1> QED
  BY <1>1, RunStep

\* What the invariant says of a run that is under way.
LEMMA RunningFor ==
  ASSUME IInv, NEW a \in ArqIds
  PROVE  /\ WorkerTypeOK /\ ArqTypeOK /\ StoreInv /\ RunInv(a)
         /\ run[a].pc \in {"none", "mark_failed", "finally"} \cup TryBlock
         /\ arq[a].status \in {"unknown", "queued", "in_progress", "complete"}
         /\ run[a].pc # "none" => /\ arq[a].status = "in_progress"
                                  /\ Visit(a) \in Visits /\ Exists(Visit(a))
                                  /\ arq[a].result = None
<1>1. WorkerTypeOK /\ ArqTypeOK /\ StoreInv /\ RunInv(a)
  BY StoreInvHolds DEF IInv, TypeOK
<1>2. run[a] \in Run /\ arq[a] \in ArqJob
  BY <1>1 DEF WorkerTypeOK, ArqTypeOK
<1> QED
  BY <1>1, <1>2 DEF RunInv, Run, ArqJob

LEMMA StartRunStep ==
  ASSUME IInv, NEW a \in ArqIds, StartRun(a), UNCHANGED req, reply' = NoReply
  PROVE  IInv'
<1>1. WorkerTypeOK /\ ArqTypeOK /\ RunInv(a)
  BY RunningFor
<1>2. /\ ArqMoves(a) /\ arq[a].status = "queued" /\ arq'[a].status = "in_progress"
      /\ arq'[a].visit = arq[a].visit /\ arq'[a].result = arq[a].result
  BY <1>1, StartMoves DEF StartRun
<1>3. /\ run' \in [ArqIds -> Run]
      /\ \A b \in ArqIds \ {a} : run'[b] = run[b]
      /\ run'[a].pc = "mark_executing" /\ run'[a].outcome = run[a].outcome
  BY <1>1, GoMoves DEF StartRun, TryBlock
<1>4. UNCHANGED <<job, obscore>>
  BY DEF StartRun
<1>5. ArqKeeps(a)
  BY <1>2 DEF ArqKeeps, IsLive
<1>6. RunInv(a)'
  BY <1>1, <1>2, <1>3, <1>4, ArqAssumption DEF RunInv, Visit, Exists, IsCompleted, Results
<1> QED
  BY <1>2, <1>3, <1>4, <1>5, <1>6, DatabaseStill

LEMMA RefuseRunStep ==
  ASSUME IInv, NEW a \in ArqIds, RefuseRun(a), UNCHANGED req, reply' = NoReply
  PROVE  IInv'
<1>1. WorkerTypeOK /\ ArqTypeOK /\ RunInv(a)
  BY RunningFor
<1>2. PICK result \in {"cancelled", "failure"} : Completed(a, result)
  BY DEF RefuseRun, Refuse
<1>3. /\ ArqMoves(a) /\ arq'[a].status = "complete"
      /\ arq'[a].visit = arq[a].visit /\ arq'[a].result = result
  BY <1>1, <1>2, CompletedMoves DEF Results
<1>4. arq[a].status = "queued" /\ UNCHANGED <<job, run, obscore>>
  BY DEF RefuseRun, Refuse
<1>5. ArqKeeps(a)
  BY <1>3, <1>4 DEF ArqKeeps, IsLive
<1>6. RunInv(a)'
  BY <1>1, <1>3, <1>4 DEF RunInv, Visit, Exists, IsCompleted
<1>7. run' \in [ArqIds -> Run]
  BY <1>1, <1>4 DEF WorkerTypeOK
<1> QED
  BY <1>3, <1>4, <1>5, <1>6, <1>7, DatabaseStill

LEMMA InProgressExpiresStep ==
  ASSUME IInv, NEW a \in ArqIds, InProgressExpires(a), UNCHANGED req, reply' = NoReply
  PROVE  IInv'
<1>1. WorkerTypeOK /\ ArqTypeOK /\ RunInv(a)
  BY RunningFor
<1>2. /\ arq[a].status = "in_progress" /\ run[a].pc = "none" /\ PutBack(a)
      /\ UNCHANGED <<job, run, obscore>>
  BY DEF InProgressExpires, At
<1>3. /\ ArqMoves(a) /\ arq'[a].status = "queued"
      /\ arq'[a].visit = arq[a].visit /\ arq'[a].result = arq[a].result
  BY <1>1, <1>2, PutBackMoves
<1>4. ArqKeeps(a)
  BY <1>2, <1>3 DEF ArqKeeps, IsLive
<1>5. RunInv(a)'
  BY <1>1, <1>2, <1>3 DEF RunInv, Visit, Exists, IsCompleted
<1>6. run' \in [ArqIds -> Run]
  BY <1>1, <1>2 DEF WorkerTypeOK
<1> QED
  BY <1>2, <1>3, <1>4, <1>5, <1>6, DatabaseStill

LEMMA ExpireStep ==
  ASSUME IInv, NEW a \in ArqIds, Expire(a), UNCHANGED req, reply' = NoReply
  PROVE  IInv'
<1>1. WorkerTypeOK /\ ArqTypeOK /\ RunInv(a)
  BY RunningFor
<1>2. ResultExpires(a) /\ UNCHANGED <<job, run, obscore>>
  BY DEF Expire
<1>3. /\ ArqMoves(a) /\ arq[a].status = "complete"
      /\ arq'[a].status = "unknown" /\ arq'[a].result = None
  BY <1>1, <1>2, ResultExpiresMoves
<1>4. ArqKeeps(a)
  BY <1>3 DEF ArqKeeps, IsLive
<1>5. RunInv(a)'
  BY <1>1, <1>2, <1>3, ArqAssumption, WorkerAssumption DEF RunInv, Results, Outcomes
<1>6. run' \in [ArqIds -> Run]
  BY <1>1, <1>2 DEF WorkerTypeOK
<1> QED
  BY <1>2, <1>3, <1>4, <1>5, <1>6, DatabaseStill

\* An exception is about to be recorded; nothing else has happened.
LEMMA FailStep ==
  ASSUME IInv, NEW a \in ArqIds, run[a].pc # "none",
         NEW code \in ErrorCodes, NEW outcome \in Outcomes \ {"return"},
         Fail(a, code, outcome), UNCHANGED <<job, obscore, req>>, reply' = NoReply,
         ArqMoves(a), arq'[a].status = arq[a].status,
         arq'[a].visit = arq[a].visit, arq'[a].result = arq[a].result
  PROVE  IInv'
<1>1. WorkerTypeOK /\ RunInv(a)
  BY RunningFor
<1>2. /\ run' \in [ArqIds -> Run]
      /\ \A b \in ArqIds \ {a} : run'[b] = run[b]
      /\ run'[a].pc = "mark_failed" /\ run'[a].code = code /\ run'[a].outcome = outcome
  BY <1>1, FailMoves
<1>3. ArqKeeps(a)
  BY DEF ArqKeeps, IsLive
<1>4. RunInv(a)'
  BY <1>1, <1>2 DEF RunInv, Visit, Exists, IsCompleted
<1> QED
  BY <1>2, <1>3, <1>4, DatabaseStill

\* The function is about to be left without success.
LEMMA LeaveStep ==
  ASSUME IInv, NEW a \in ArqIds, run[a].pc # "none",
         NEW outcome \in Outcomes \ {"return"},
         Leave(a, outcome), UNCHANGED <<job, obscore, req>>, reply' = NoReply,
         ArqMoves(a), arq'[a].status = arq[a].status,
         arq'[a].visit = arq[a].visit, arq'[a].result = arq[a].result
  PROVE  IInv'
<1>1. WorkerTypeOK /\ RunInv(a)
  BY RunningFor
<1>2. /\ run' \in [ArqIds -> Run]
      /\ \A b \in ArqIds \ {a} : run'[b] = run[b]
      /\ run'[a].pc = "finally" /\ run'[a].outcome = outcome
  BY <1>1, LeaveMoves
<1>3. ArqKeeps(a)
  BY DEF ArqKeeps, IsLive
<1>4. RunInv(a)'
  BY <1>1, <1>2 DEF RunInv, Visit, Exists, IsCompleted
<1> QED
  BY <1>2, <1>3, <1>4, DatabaseStill

LEMMA ArqUntouched ==
  ASSUME IInv, UNCHANGED arq, NEW a \in ArqIds
  PROVE  /\ ArqMoves(a) /\ arq'[a].status = arq[a].status
         /\ arq'[a].visit = arq[a].visit /\ arq'[a].result = arq[a].result
BY DEF ArqMoves, ArqTypeOK, IInv, TypeOK

\* A transaction that claims nothing, and the row it is about.
LEMMA QuietRows ==
  ASSUME IInv, UNCHANGED <<arq, obscore>>, RowsSurvive, \A v \in Visits : NoNewClaim(v)
  PROVE  \A v \in Visits : RowInv(v)'
BY ArqStill, RowsKeep DEF Harmless

LEMMA RunMarkExecutingStep ==
  ASSUME IInv, NEW a \in ArqIds, RunMarkExecuting(a), UNCHANGED req, reply' = NoReply
  PROVE  IInv'
<1> DEFINE v == Visit(a)
<1>1. /\ run[a].pc = "mark_executing" /\ MarkExecuting(v) /\ UNCHANGED <<arq, obscore>>
      /\ Rejects("mark_executing", v) => Fail(a, "InvalidTransition", "failure")
      /\ ~Rejects("mark_executing", v) => Go(a, "enrich")
  BY DEF RunMarkExecuting, At
<1>2. WorkerTypeOK /\ StoreInv /\ RunInv(a) /\ v \in Visits /\ Exists(v)
  BY <1>1, RunningFor
<1>3. StoreInv' /\ RowsSurvive /\ \A u \in Visits : NoNewClaim(u)
  BY <1>1, <1>2, MarkExecutingMoves
<1>4. \A u \in Visits : RowInv(u)'
  BY <1>1, <1>3, QuietRows
<1>5. /\ run' \in [ArqIds -> Run]
      /\ \A b \in ArqIds \ {a} : run'[b] = run[b]
      /\ \/ run'[a].pc = "enrich" /\ run'[a].outcome = run[a].outcome
         \/ /\ run'[a].pc = "mark_failed"
            /\ run'[a].code \in ErrorCodes /\ run'[a].outcome = "failure"
  <2>1. "InvalidTransition" \in ErrorCodes /\ "failure" \in Outcomes /\ "enrich" \in TryBlock
    BY DEF ErrorCodes, Outcomes, TryBlock
  <2> QED
    BY <1>1, <1>2, <2>1, FailMoves, GoMoves
<1>6. Exists(v)' /\ (v = Visit(a))'
  BY <1>1, <1>2, <1>3 DEF RowsSurvive, Exists, Visit
<1>7. RunInv(a)'
  <2>1. /\ arq'[a] = arq[a] /\ Visit(a)' \in Visits /\ Exists(Visit(a))'
        /\ run[a].outcome # "return" /\ arq[a].result # "success"
    BY <1>1, <1>2, <1>6, ArqAssumption DEF RunInv, Visit, Exists, Results
  <2>2. "failure" \in Outcomes /\ "failure" # "return"
    BY DEF Outcomes
  <2>3. arq[a].status = "in_progress" /\ arq[a].result = None
    BY <1>1, <1>2 DEF RunInv
  <2> QED
    BY <1>5, <2>1, <2>2, <2>3 DEF RunInv
<1> QED
  BY <1>1, <1>3, <1>4, <1>5, <1>7, RunTransaction

LEMMA EnrichStep ==
  ASSUME IInv, NEW a \in ArqIds, Enrich(a), UNCHANGED req, reply' = NoReply
  PROVE  IInv'
<1> DEFINE v == Visit(a)
<1>1. /\ run[a].pc = "enrich" /\ obscore' = obscore \cup {v}
      /\ Go(a, "mark_completed") /\ UNCHANGED <<job, arq>>
  BY DEF Enrich, At
<1>2. WorkerTypeOK /\ StoreInv /\ RunInv(a) /\ v \in Visits /\ Exists(v)
  BY <1>1, RunningFor
<1>3. /\ run' \in [ArqIds -> Run]
      /\ \A b \in ArqIds \ {a} : run'[b] = run[b]
      /\ run'[a].pc = "mark_completed" /\ run'[a].outcome = run[a].outcome
  BY <1>1, <1>2, GoMoves DEF TryBlock
<1>4. StoreInv'
  BY <1>1, <1>2 DEF StoreInv, StoreTypeOK, RowsConsistent, Exists
<1>5. RowsSurvive /\ (\A u \in Visits : NoNewClaim(u)) /\ \A b \in ArqIds : ArqKeeps(b)
  BY <1>1, NothingHappens, ArqStill
<1>6. Harmless /\ obscore' \in SUBSET Visits
  BY <1>1, <1>2, <1>5 DEF Harmless, WorkerTypeOK
<1>7. \A u \in obscore' : u \in obscore \/ Exists(u)
  BY <1>1, <1>2
<1>8. \A u \in Visits : RowInv(u)'
  BY <1>5, <1>6, <1>7, RowsKeep
<1>9. RunInv(a)'
  BY <1>1, <1>2, <1>3 DEF RunInv, Visit, Exists, IsCompleted
<1> QED
  BY <1>1, <1>3, <1>4, <1>5, <1>6, <1>8, <1>9, ArqUntouched, RunStep

LEMMA EnrichFailsStep ==
  ASSUME IInv, NEW a \in ArqIds, EnrichFails(a), UNCHANGED req, reply' = NoReply
  PROVE  IInv'
<1>1. /\ run[a].pc # "none" /\ Fail(a, "EnrichmentFailure", "failure")
      /\ UNCHANGED <<job, arq, obscore>>
  BY DEF EnrichFails, At
<1>2. "EnrichmentFailure" \in ErrorCodes /\ "failure" \in Outcomes \ {"return"}
  BY DEF ErrorCodes, Outcomes
<1> QED
  BY <1>1, <1>2, ArqUntouched, FailStep

LEMMA EnrichRetriesStep ==
  ASSUME IInv, NEW a \in ArqIds, EnrichRetries(a), UNCHANGED req, reply' = NoReply
  PROVE  IInv'
<1>1. /\ run[a].pc # "none" /\ UNCHANGED <<job, arq, obscore>>
      /\ Leave(a, "retry") \/ Fail(a, "RetriesExhausted", "failure")
  BY DEF EnrichRetries, At
<1>2. "RetriesExhausted" \in ErrorCodes /\ {"retry", "failure"} \subseteq Outcomes \ {"return"}
  BY DEF ErrorCodes, Outcomes
<1> QED
  BY <1>1, <1>2, ArqUntouched, FailStep, LeaveStep

LEMMA DatabaseErrorStep ==
  ASSUME IInv, NEW a \in ArqIds, DatabaseError(a), UNCHANGED req, reply' = NoReply
  PROVE  IInv'
<1>1. /\ run[a].pc # "none" /\ UNCHANGED <<job, arq, obscore>>
      /\ Fail(a, "EnrichmentFailure", "failure") \/ Leave(a, "failure")
  BY DEF DatabaseError, At
<1>2. "EnrichmentFailure" \in ErrorCodes /\ "failure" \in Outcomes \ {"return"}
  BY DEF ErrorCodes, Outcomes
<1> QED
  BY <1>1, <1>2, ArqUntouched, FailStep, LeaveStep

\* COMPLETED is claimed by the run that has published the records.
LEMMA RunMarkCompletedStep ==
  ASSUME IInv, NEW a \in ArqIds, RunMarkCompleted(a), UNCHANGED req, reply' = NoReply
  PROVE  IInv'
<1>1. PICK v : v = Visit(a)
  OBVIOUS
<1>2. /\ run[a].pc = "mark_completed" /\ MarkCompleted(v) /\ UNCHANGED <<arq, obscore>>
      /\ Rejects("mark_completed", v) => Fail(a, "InvalidTransition", "failure")
      /\ ~Rejects("mark_completed", v) => Go(a, "committed")
  BY <1>1 DEF RunMarkCompleted, At
<1>3. /\ WorkerTypeOK /\ StoreInv /\ RunInv(a) /\ v \in Visits /\ Exists(v)
      /\ arq[a].status = "in_progress" /\ arq[a].result = None
  BY <1>1, <1>2, RunningFor
<1>4. /\ StoreInv' /\ RowsSurvive
      /\ \A u \in Visits \ {v} : NoNewClaim(u)
      /\ Exists(v)' /\ job'[v].arq_job_id = job[v].arq_job_id
      /\ ~Rejects("mark_completed", v) => IsCompleted(v)'
  BY <1>2, <1>3, MarkCompletedMoves
<1>5. v \in obscore
  BY <1>1, <1>2, <1>3 DEF RunInv
<1>6. RowInv(v)'
  <2>1. RowInv(v)
    BY <1>3 DEF IInv
  <2>2. \A b \in ArqIds : IsFor(b, v)' <=> IsFor(b, v)
    BY <1>2 DEF IsFor, Visit
  <2>3. job[v].arq_job_id \in ArqIds \cup {None}
    BY <1>3 DEF StoreInv, StoreTypeOK, Exists, Row
  <2>4. ASSUME job[v].arq_job_id # None
        PROVE  IsFor(job[v].arq_job_id, v)'
    <3>1. PICK b \in ArqIds : b = job[v].arq_job_id
      BY <2>3, <2>4
    <3>2. IsFor(b, v)'
      BY <1>3, <2>1, <2>2, <2>4, <3>1 DEF RowInv
    <3>3. job'[v].arq_job_id = b
      BY <1>4, <3>1
    <3> QED
      BY <3>2, <3>3 DEF IsFor, Visit
  <2> QED
    BY <1>2, <1>4, <1>5, <2>4 DEF RowInv
<1>7. \A u \in Visits : RowInv(u)'
  BY <1>2, <1>4, <1>6, ArqStill, RowsKeep DEF Harmless
<1>8. /\ run' \in [ArqIds -> Run]
      /\ \A b \in ArqIds \ {a} : run'[b] = run[b]
      /\ \/ run'[a].pc = "committed" /\ run'[a].outcome = run[a].outcome /\ IsCompleted(v)'
         \/ /\ run'[a].pc = "mark_failed"
            /\ run'[a].code \in ErrorCodes /\ run'[a].outcome = "failure"
  <2>1. "InvalidTransition" \in ErrorCodes /\ "failure" \in Outcomes /\ "committed" \in TryBlock
    BY DEF ErrorCodes, Outcomes, TryBlock
  <2> QED
    BY <1>2, <1>3, <1>4, <2>1, FailMoves, GoMoves
<1>9. RunInv(a)'
  <2>1. /\ arq'[a] = arq[a] /\ Visit(a)' = v
        /\ run[a].outcome # "return" /\ arq[a].result # "success"
    BY <1>1, <1>2, <1>3, ArqAssumption DEF RunInv, Visit, Results
  <2>2. "failure" \in Outcomes /\ "failure" # "return"
    BY DEF Outcomes
  <2>3. (Visit(a) \in Visits)' /\ Exists(Visit(a))' /\ (Visit(a) \in obscore)'
        /\ (IsCompleted(v)' => IsCompleted(Visit(a))')
    BY <1>2, <1>3, <1>4, <1>5, <2>1 DEF Exists, IsCompleted
  <2> QED
    BY <1>3, <1>8, <2>1, <2>2, <2>3 DEF RunInv
<1> QED
  BY <1>2, <1>4, <1>7, <1>8, <1>9, RunTransaction

LEMMA ReturnStep ==
  ASSUME IInv, NEW a \in ArqIds, Return(a), UNCHANGED req, reply' = NoReply
  PROVE  IInv'
<1>1. /\ run[a].pc = "committed" /\ Leave(a, "return")
      /\ UNCHANGED <<job, arq, obscore>>
  BY DEF Return, At
<1>2. WorkerTypeOK /\ RunInv(a)
  BY RunningFor
<1>3. /\ run' \in [ArqIds -> Run]
      /\ \A b \in ArqIds \ {a} : run'[b] = run[b]
      /\ run'[a].pc = "finally" /\ run'[a].outcome = "return"
  BY <1>1, <1>2, LeaveMoves DEF Outcomes
<1>4. RunInv(a)'
  BY <1>1, <1>2, <1>3 DEF RunInv, Visit, Exists, IsCompleted, Outcomes
<1>5. ArqMoves(a) /\ ArqKeeps(a)
  BY <1>1, ArqUntouched, ArqStill
<1> QED
  BY <1>1, <1>3, <1>4, <1>5, DatabaseStill

LEMMA RunMarkFailedStep ==
  ASSUME IInv, NEW a \in ArqIds, RunMarkFailed(a), UNCHANGED req, reply' = NoReply
  PROVE  IInv'
<1>1. PICK v : v = Visit(a)
  OBVIOUS
<1>2. /\ run[a].pc = "mark_failed" /\ MarkFailed(v, run[a].code) /\ UNCHANGED <<arq, obscore>>
      /\ Leave(a, "failure") \/ Leave(a, run[a].outcome)
  BY <1>1 DEF RunMarkFailed, At
<1>3. /\ WorkerTypeOK /\ StoreInv /\ RunInv(a) /\ v \in Visits /\ Exists(v)
      /\ arq[a].status = "in_progress" /\ arq[a].result = None
  BY <1>1, <1>2, RunningFor
<1>4. run[a].code \in ErrorCodes /\ run[a].outcome \in Outcomes \ {"return"}
  BY <1>2, <1>3 DEF RunInv
<1>5. StoreInv' /\ RowsSurvive /\ \A u \in Visits : NoNewClaim(u)
  BY <1>2, <1>3, <1>4, MarkFailedMoves
<1>6. \A u \in Visits : RowInv(u)'
  BY <1>2, <1>5, QuietRows
<1>7. "failure" \in Outcomes \ {"return"}
  BY DEF Outcomes
<1>8. /\ run' \in [ArqIds -> Run]
      /\ \A b \in ArqIds \ {a} : run'[b] = run[b]
      /\ run'[a].pc = "finally" /\ run'[a].outcome \in Outcomes \ {"return"}
  BY <1>2, <1>3, <1>4, <1>7, LeaveMoves
<1>9. RunInv(a)'
  <2>1. /\ arq'[a] = arq[a] /\ Visit(a)' = v /\ arq[a].result # "success"
    BY <1>1, <1>2, <1>3, ArqAssumption DEF Visit, Results
  <2>2. (Visit(a) \in Visits)' /\ Exists(Visit(a))'
    BY <1>3, <1>5, <2>1 DEF Exists, RowsSurvive
  <2> QED
    BY <1>3, <1>8, <2>1, <2>2 DEF RunInv
<1> QED
  BY <1>2, <1>5, <1>6, <1>8, <1>9, RunTransaction

LEMMA CancelStep ==
  ASSUME IInv, NEW a \in ArqIds, NEW why \in Cancellations, Cancel(a, why),
         UNCHANGED req, reply' = NoReply
  PROVE  IInv'
<1>1. /\ run[a].pc # "none" /\ UNCHANGED <<job, obscore>>
      /\ Fail(a, "JobAborted", why) \/ Leave(a, why)
      /\ UNCHANGED arq \/ arq' = [arq EXCEPT ![a].abort = FALSE]
  BY DEF Cancel, At, TryBlock
<1>2. "JobAborted" \in ErrorCodes /\ why \in Outcomes \ {"return"}
  BY DEF ErrorCodes, Outcomes, Cancellations
<1>3. /\ ArqMoves(a) /\ arq'[a].status = arq[a].status
      /\ arq'[a].visit = arq[a].visit /\ arq'[a].result = arq[a].result
  BY <1>1, RunningFor, ArqUntouched, SetAbortMoves
<1> QED
  BY <1>1, <1>2, <1>3, FailStep, LeaveStep

\* arq stores success only for a run that returned, which its row outlives.
LEMMA FinishStep ==
  ASSUME IInv, NEW a \in ArqIds, Finish(a), UNCHANGED req, reply' = NoReply
  PROVE  IInv'
<1>1. /\ run[a].pc = "finally" /\ Settle(a, run[a].outcome)
      /\ run' = [run EXCEPT ![a] = NoRun] /\ UNCHANGED <<job, obscore>>
  BY DEF Finish, At
<1>2. /\ WorkerTypeOK /\ ArqTypeOK /\ RunInv(a)
      /\ arq[a].status = "in_progress" /\ arq[a].result = None
  BY <1>1, RunningFor
<1>3. /\ run' \in [ArqIds -> Run]
      /\ \A b \in ArqIds \ {a} : run'[b] = run[b]
      /\ run'[a].pc = "none" /\ run'[a].outcome = None
  BY <1>1, <1>2, StopMoves
<1>4. \/ run[a].outcome = "return" /\ Completed(a, "success")
      \/ Completed(a, "cancelled")
      \/ Completed(a, "timed_out")
      \/ Completed(a, "failure")
      \/ PutBack(a)
  BY <1>1, <1>2 DEF Settle, RunInv, Outcomes, Cancellations
<1>5. /\ ArqMoves(a) /\ arq'[a].visit = arq[a].visit
      /\ \/ arq'[a].status = "queued" /\ arq'[a].result = None
         \/ /\ arq'[a].status = "complete"
            /\ arq'[a].result = "success" => run[a].outcome = "return"
  BY <1>2, <1>4, CompletedMoves, PutBackMoves DEF Results
<1>6. ArqKeeps(a)
  BY <1>2, <1>5 DEF ArqKeeps, IsLive
<1>7. RunInv(a)'
  <2>1. None # "return" /\ None # "success"
    BY ArqAssumption, WorkerAssumption DEF Results, Outcomes
  <2> QED
    BY <1>1, <1>2, <1>3, <1>5, <2>1 DEF RunInv, Visit, Exists, IsCompleted
<1> QED
  BY <1>1, <1>3, <1>5, <1>6, <1>7, DatabaseStill

LEMMA WorkerCrashStep ==
  ASSUME IInv, NEW a \in ArqIds, WorkerCrash(a), UNCHANGED req, reply' = NoReply
  PROVE  IInv'
<1>1. run' = [run EXCEPT ![a] = NoRun] /\ UNCHANGED <<job, arq, obscore>>
  BY DEF WorkerCrash
<1>2. WorkerTypeOK /\ RunInv(a)
  BY RunningFor
<1>3. /\ run' \in [ArqIds -> Run]
      /\ \A b \in ArqIds \ {a} : run'[b] = run[b]
      /\ run'[a].pc = "none" /\ run'[a].outcome = None
  BY <1>1, <1>2, StopMoves
<1>4. RunInv(a)'
  <2>1. None # "return"
    BY WorkerAssumption DEF Outcomes
  <2> QED
    BY <1>1, <1>2, <1>3, <2>1 DEF RunInv, Visit, Exists, IsCompleted
<1>5. ArqMoves(a) /\ ArqKeeps(a)
  BY <1>1, ArqUntouched, ArqStill
<1> QED
  BY <1>1, <1>3, <1>4, <1>5, DatabaseStill

LEMMA WorkerStepKeeps ==
  ASSUME IInv, NEW a \in ArqIds, WorkerStep(a), UNCHANGED req, reply' = NoReply
  PROVE  IInv'
<1>1. CASE Proceed(a)
  BY <1>1, RunMarkExecutingStep, EnrichStep, RunMarkCompletedStep, ReturnStep,
     RunMarkFailedStep, FinishStep DEF Proceed
<1>2. CASE Dispatch(a)
  BY <1>2, StartRunStep, RefuseRunStep, InProgressExpiresStep, ExpireStep DEF Dispatch
<1>3. CASE \E why \in Cancellations : Cancel(a, why)
  BY <1>3, CancelStep
<1>4. CASE EnrichFails(a) \/ EnrichRetries(a) \/ DatabaseError(a) \/ WorkerCrash(a)
  BY <1>4, EnrichFailsStep, EnrichRetriesStep, DatabaseErrorStep, WorkerCrashStep
<1> QED
  BY <1>1, <1>2, <1>3, <1>4 DEF WorkerStep, RunFault, Cancellations
-----------------------------------------------------------------------------
(* The steps of a request.                                                  *)

\* What the invariant says of a request in flight.
LEMMA InFlight ==
  ASSUME IInv, NEW r \in Requests
  PROVE  /\ StoreInv /\ ArqTypeOK /\ ServiceTypeOK /\ RequestInv(r)
         /\ req[r] \in Request
         /\ req[r].pc # "idle" => req[r].visit \in Visits /\ Exists(req[r].visit)
         /\ req[r].pc \notin {"idle", "enqueue"} => req[r].arq \in ArqIds
         /\ req[r].visit \in Visits => \/ job[req[r].visit] \in Row
                                       \/ ~Exists(req[r].visit)
<1>1. StoreInv /\ ArqTypeOK /\ ServiceTypeOK /\ RequestInv(r)
  BY StoreInvHolds DEF IInv, TypeOK
<1> QED
  BY <1>1 DEF ServiceTypeOK, RequestInv, StoreInv, StoreTypeOK, Exists

LEMMA RowsStill ==
  ASSUME IInv, UNCHANGED <<job, arq, obscore>>
  PROVE  StoreInv' /\ RowsSurvive /\ \A v \in Visits : RowInv(v)'
<1>1. StoreInv'
  BY StoreInvHolds DEF StoreInv, StoreTypeOK, RowsConsistent, Exists
<1>2. RowsSurvive /\ \A v \in Visits : NoNewClaim(v)
  BY NothingHappens
<1> QED
  BY <1>1, <1>2, QuietRows

LEMMA RequestFields ==
  ASSUME NEW request \in Request, NEW pc
  PROVE  /\ pc \in {"succeeded", "abort_result", "mark_failed"} =>
              [request EXCEPT !.pc = pc] \in Request
         /\ [request EXCEPT !.pc = pc].pc = pc
         /\ [request EXCEPT !.pc = pc].visit = request.visit
         /\ [request EXCEPT !.pc = pc].arq = request.arq
         /\ [request EXCEPT !.pc = pc].seen = request.seen
BY DEF Request

\* An answer that promises nothing about the visit.
LEMMA PlainAnswer ==
  ASSUME IInv, NEW r \in Requests, NEW call \in {"register", "get", "abort"},
         NEW v \in Visits, NEW a \in ArqIds \cup {None},
         NEW status \in Statuses \ {"COMPLETED", "aborted"},
         Respond(r, call, v, a, status), UNCHANGED <<job, arq, run, obscore>>
  PROVE  IInv'
<1>1. StoreInv' /\ RowsSurvive /\ \A u \in Visits : RowInv(u)'
  BY RowsStill
<1> QED
  BY <1>1, RespondStep

LEMMA RegisterStep ==
  ASSUME IInv, NEW r \in Requests, NEW v \in Visits, Register(r, v),
         UNCHANGED <<run, obscore>>
  PROVE  IInv'
<1> DEFINE row == AddedOrGot(job[v])
<1>1. /\ AddOrGet(v) /\ UNCHANGED arq
      /\ \/ Await(r, [Idle EXCEPT !.pc = "enqueue", !.visit = v])
         \/ Respond(r, "register", v, row.arq_job_id, row.phase)
  BY DEF Register
<1>2. StoreInv
  BY StoreInvHolds
<1>3. /\ StoreInv' /\ RowsSurvive /\ (\A u \in Visits : NoNewClaim(u)) /\ Exists(v)'
  BY <1>1, <1>2, AddOrGetMoves
<1>4. \A u \in Visits : RowInv(u)'
  BY <1>1, <1>3, QuietRows
<1>5. job'[v] = row /\ job'[v] \in Row
  BY <1>1, <1>2, AddOrGetEffect DEF StoreInv
<1>6. CASE Await(r, [Idle EXCEPT !.pc = "enqueue", !.visit = v])
  <2> DEFINE request == [Idle EXCEPT !.pc = "enqueue", !.visit = v]
  <2>1. request \in Request /\ request.pc = "enqueue" /\ request.visit = v
    BY DEF Idle, Request
  <2>2. req'[r] = request
    BY <1>6 DEF Await, IInv, TypeOK, ServiceTypeOK
  <2> HIDE DEF request
  <2>3. RequestInv(r)'
    BY <1>3, <2>1, <2>2 DEF RequestInv, Exists
  <2> QED
    BY <1>1, <1>3, <1>4, <1>6, <2>1, <2>3, AwaitStep DEF request
<1>7. CASE Respond(r, "register", v, row.arq_job_id, row.phase)
  <2>1. row.arq_job_id \in ArqIds \cup {None} /\ row.phase \in Phases
    BY <1>5 DEF Row
  <2>2. row.phase \in Statuses /\ row.phase # "aborted"
    BY <2>1 DEF Statuses, Phases
  <2>3. row.phase = "COMPLETED" => IsCompleted(v)'
    BY <1>3, <1>5 DEF IsCompleted
  <2> HIDE DEF row
  <2> QED
    BY <1>1, <1>3, <1>4, <1>7, <2>1, <2>2, <2>3, RespondStep
<1> QED
  BY <1>1, <1>6, <1>7

\* What a step of a request that enqueues or flags owes to the others.
RestKeeps(r) ==
  /\ StoreInv' /\ Harmless /\ ArqTypeOK'
  /\ \A q \in Requests \ {r} : \A a \in ArqIds : req[q].arq = a => ArqKeeps(a)
  /\ \A a \in ArqIds : RunInv(a)'
  /\ \A v \in Visits : RowInv(v)'

\* The new arq job is for the visit of the request, and nobody knew its id.
LEMMA JobEnqueued ==
  ASSUME IInv, NEW r \in Requests, Waiting(r, "enqueue"), NEW a \in ArqIds, Fresh(a),
         EnqueueJob(a, req[r].visit), UNCHANGED <<job, run, obscore>>
  PROVE  RestKeeps(r) /\ arq'[a].status = "queued" /\ arq'[a].visit = req[r].visit
<1>1. req[r].pc = "enqueue"
  BY DEF Waiting
<1>2. PICK v \in Visits : v = req[r].visit
  BY <1>1, InFlight
<1>3. Exists(v) /\ ArqTypeOK /\ StoreInv
  BY <1>1, <1>2, InFlight
<1>4. /\ ArqMoves(a)
      /\ arq'[a].status = "queued" /\ arq'[a].visit = v /\ arq'[a].result = None
  BY <1>2, <1>3, EnqueueJobMoves
<1>5. \A b \in ArqIds \ {a} : ArqKeeps(b)
  BY <1>4 DEF ArqMoves, ArqKeeps, IsLive
<1>6. StoreInv' /\ Harmless /\ \A u \in Visits : NoNewClaim(u)
  BY <1>3, NothingHappens
  DEF Harmless, StoreInv, StoreTypeOK, RowsConsistent, Exists
<1>7. ASSUME NEW u \in Visits
      PROVE  RowInv(u)'
  <2>1. CASE Exists(u)
    <3>1. job[u] \in Row /\ job[u].arq_job_id # a
      BY <1>3, <2>1 DEF Fresh, StoreInv, StoreTypeOK, Exists
    <3> QED
      BY <1>3, <1>5, <1>6, <3>1, RowFrame DEF IInv
  <2>2. CASE ~Exists(u)
    BY <2>2 DEF IInv, RowInv, IsCompleted, Exists
  <2> QED
    BY <2>1, <2>2
<1>8. ASSUME NEW b \in ArqIds
      PROVE  RunInv(b)'
  <2>1. CASE b # a
    BY <1>3, <1>4, <1>6, <2>1, RunFrame DEF IInv, ArqMoves
  <2>2. CASE b = a
    <3>1. arq[a].status = "unknown" /\ RunInv(a)
      BY DEF EnqueueJob, IInv
    <3>2. /\ run'[a] = run[a] /\ run[a].pc = "none"
          /\ Visit(a)' = v /\ (Visit(a) \in Visits)' /\ Exists(Visit(a))'
      BY <1>3, <1>4, <3>1 DEF RunInv, Visit, Exists
    <3>3. None # "success" /\ run[a].outcome # "return"
      BY <3>1, <3>2, ArqAssumption DEF Results, RunInv
    <3> QED
      BY <1>4, <2>2, <3>2, <3>3 DEF RunInv
  <2> QED
    BY <2>1, <2>2
<1>9. \A q \in Requests \ {r} : \A b \in ArqIds : req[q].arq = b => ArqKeeps(b)
  BY <1>5 DEF Fresh
<1> QED
  BY <1>2, <1>4, <1>6, <1>7, <1>8, <1>9 DEF RestKeeps, ArqMoves

LEMMA EnqueueStep ==
  ASSUME IInv, NEW r \in Requests, Enqueue(r), UNCHANGED <<run, obscore>>
  PROVE  IInv'
<1>1. PICK a \in ArqIds :
        /\ Fresh(a) /\ EnqueueJob(a, req[r].visit)
        /\ Await(r, [req[r] EXCEPT !.pc = "set_arq_job_id", !.arq = a])
  BY DEF Enqueue
<1>2. req[r].pc = "enqueue" /\ Waiting(r, "enqueue") /\ UNCHANGED job
  BY DEF Enqueue, Waiting
<1>3. PICK v \in Visits : v = req[r].visit
  BY <1>2, InFlight
<1>4. Exists(v) /\ ServiceTypeOK /\ req[r] \in Request
  BY <1>2, <1>3, InFlight
<1>5. RestKeeps(r) /\ arq'[a].status = "queued" /\ arq'[a].visit = v
  BY <1>1, <1>2, <1>3, JobEnqueued
<1> DEFINE request == [req[r] EXCEPT !.pc = "set_arq_job_id", !.arq = a]
<1>6. request \in Request
  BY <1>4 DEF Request
<1>7. request.pc = "set_arq_job_id" /\ request.visit = v /\ request.arq = a
  BY <1>3, <1>4 DEF Request
<1>8. Await(r, request)
  BY <1>1
<1> HIDE DEF request
<1>9. /\ ServiceTypeOK' /\ req'[r] = request
      /\ \A q \in Requests \ {r} : req'[q] = req[q]
  BY <1>4, <1>6, <1>8 DEF Await, ServiceTypeOK
<1>10. RequestInv(r)'
  BY <1>2, <1>4, <1>5, <1>7, <1>9 DEF RequestInv, Exists, IsFor, Visit
<1>11. CompletedAnswerIsTrue' /\ AbortStopsTheWork'
  BY <1>8 DEF Await, CompletedAnswerIsTrue, AbortStopsTheWork
<1> QED
  BY <1>5, <1>9, <1>10, <1>11, RequestStep DEF RestKeeps

\* A request that fails tells nothing of the visit, whatever it has done to Redis.
LEMMA FailsStep ==
  ASSUME IInv, NEW r \in Requests, req[r].pc # "idle",
         NEW call \in {"register", "get", "abort"}, Fails(r, call),
         UNCHANGED <<run, obscore>>, RestKeeps(r)
  PROVE  IInv'
<1>1. /\ req[r] \in Request /\ req[r].visit \in Visits
      /\ req[r].arq \in ArqIds \cup {None}
  BY InFlight DEF Request
<1>2. Idle \in Request /\ Idle.pc = "idle" /\ "server_error" \in Statuses
  BY DEF Idle, Request, Statuses
<1>3. /\ req' = [req EXCEPT ![r] = Idle]
      /\ reply' = [call |-> call, visit |-> req[r].visit, arq |-> req[r].arq,
                   status |-> "server_error"]
  BY DEF Fails, Answer, Respond
<1>4. /\ reply' \in Reply /\ reply'.status = "server_error" /\ req'[r] = Idle
      /\ req' \in [Requests -> Request] /\ \A q \in Requests \ {r} : req'[q] = req[q]
  BY <1>1, <1>2, <1>3 DEF Reply, IInv, TypeOK, ServiceTypeOK
<1>5. RequestInv(r)' /\ ServiceTypeOK'
  BY <1>2, <1>4 DEF RequestInv, ServiceTypeOK
<1>6. CompletedAnswerIsTrue' /\ AbortStopsTheWork'
  BY <1>4 DEF CompletedAnswerIsTrue, AbortStopsTheWork
<1> QED
  BY <1>4, <1>5, <1>6, RequestStep DEF RestKeeps

\* A transaction of the store on its own keeps the rest.
LEMMA TransactionKeepsRest ==
  ASSUME IInv, NEW r \in Requests, UNCHANGED <<arq, run, obscore>>,
         StoreInv', RowsSurvive, \A v \in Visits : RowInv(v)'
  PROVE  RestKeeps(r)
<1>1. Harmless /\ ArqTypeOK' /\ ArqTypeOK
  BY DEF Harmless, IInv, TypeOK, ArqTypeOK
<1>2. \A a \in ArqIds : RunInv(a)'
  BY <1>1, RunFrame DEF IInv
<1> QED
  BY <1>1, <1>2, ArqStill DEF RestKeeps

LEMMA RegisterUnansweredStep ==
  ASSUME IInv, NEW r \in Requests, NEW v \in Visits, RegisterUnanswered(r, v),
         UNCHANGED <<run, obscore>>
  PROVE  IInv'
<1>1. AddOrGet(v) /\ UNCHANGED arq /\ Respond(r, "register", v, None, "server_error")
  BY DEF RegisterUnanswered
<1>2. StoreInv' /\ RowsSurvive /\ \A u \in Visits : NoNewClaim(u)
  BY <1>1, StoreInvHolds, AddOrGetMoves
<1>3. \A u \in Visits : RowInv(u)'
  BY <1>1, <1>2, QuietRows
<1>4. "server_error" \in Statuses
  BY DEF Statuses
<1> QED
  BY <1>1, <1>2, <1>3, <1>4, RespondStep

LEMMA EnqueueErrorStep ==
  ASSUME IInv, NEW r \in Requests, EnqueueError(r), UNCHANGED <<run, obscore>>
  PROVE  IInv'
<1>1. req[r].pc # "idle" /\ UNCHANGED <<job, arq>> /\ Fails(r, "register")
  BY DEF EnqueueError, Waiting
<1> QED
  BY <1>1, RowsStill, TransactionKeepsRest, FailsStep

LEMMA EnqueueUnansweredStep ==
  ASSUME IInv, NEW r \in Requests, EnqueueUnanswered(r), UNCHANGED <<run, obscore>>
  PROVE  IInv'
<1>1. /\ Waiting(r, "enqueue") /\ req[r].pc # "idle" /\ UNCHANGED job
      /\ Fails(r, "register")
      /\ \E a \in ArqIds : Fresh(a) /\ EnqueueJob(a, req[r].visit)
  BY DEF EnqueueUnanswered, Waiting
<1> QED
  BY <1>1, JobEnqueued, FailsStep

\* The row names an arq job of its own.
LEMMA SetArqJobIdKeepsRows ==
  ASSUME IInv, NEW r \in Requests, req[r].pc = "set_arq_job_id",
         SetArqJobIdAndMarkQueued(req[r].visit, req[r].arq), UNCHANGED <<arq, obscore>>
  PROVE  StoreInv' /\ RowsSurvive /\ \A u \in Visits : RowInv(u)'
<1>1. PICK v \in Visits : v = req[r].visit
  BY InFlight
<1>2. PICK a \in ArqIds : a = req[r].arq
  BY InFlight
<1>3. SetArqJobIdAndMarkQueued(v, a)
  BY <1>1, <1>2
<1>4. StoreInv /\ Exists(v) /\ IsFor(a, v)
  BY <1>1, <1>2, InFlight DEF RequestInv
<1>5. /\ StoreInv' /\ RowsSurvive
      /\ \A u \in Visits \ {v} : NoNewClaim(u)
      /\ Exists(v)' /\ job'[v].arq_job_id \in {job[v].arq_job_id, a}
      /\ IsCompleted(v)' => IsCompleted(v)
  BY <1>3, <1>4, SetArqJobIdMoves
<1>6. \A b \in ArqIds : IsFor(b, v)' <=> IsFor(b, v)
  BY DEF IsFor, Visit
<1>7. RowInv(v)'
  <2>1. RowInv(v) /\ job[v].arq_job_id \in ArqIds \cup {None}
    BY <1>4 DEF IInv, StoreInv, StoreTypeOK, Exists, Row
  <2>2. ASSUME job'[v].arq_job_id # None
        PROVE  IsFor(job[v].arq_job_id, v)'
    <3>1. PICK b \in ArqIds : b = job'[v].arq_job_id
      BY <1>5, <2>1, <2>2
    <3>2. IsFor(b, v)'
      BY <1>4, <1>5, <1>6, <2>1, <2>2, <3>1 DEF RowInv
    <3> QED
      BY <3>1, <3>2 DEF IsFor, Visit
  <2> QED
    BY <1>5, <2>1, <2>2 DEF RowInv
<1>8. \A u \in Visits : RowInv(u)'
  BY <1>5, <1>7, ArqStill, RowsKeep DEF Harmless
<1> QED
  BY <1>5, <1>8

LEMMA SetArqJobIdStep ==
  ASSUME IInv, NEW r \in Requests, SetArqJobId(r), UNCHANGED <<run, obscore>>
  PROVE  IInv'
<1>1. /\ req[r].pc = "set_arq_job_id" /\ UNCHANGED arq
      /\ SetArqJobIdAndMarkQueued(req[r].visit, req[r].arq)
  BY DEF SetArqJobId, Waiting
<1>2. PICK v \in Visits : v = req[r].visit
  BY <1>1, InFlight
<1>3. PICK a \in ArqIds : a = req[r].arq
  BY <1>1, InFlight
<1>4. Respond(r, "register", v, a, job'[v].phase)
  BY <1>2, <1>3 DEF SetArqJobId, Answer
<1>5. StoreInv' /\ RowsSurvive /\ \A u \in Visits : RowInv(u)'
  BY <1>1, SetArqJobIdKeepsRows
<1>6. Exists(v)' /\ job'[v] \in Row
  <2>1. Exists(v)'
    BY <1>1, <1>2, <1>5, InFlight DEF RowsSurvive
  <2> QED
    BY <1>5, <2>1 DEF StoreInv, StoreTypeOK, Exists
<1>7. job'[v].phase \in Statuses /\ job'[v].phase # "aborted"
  BY <1>6 DEF Row, Statuses, Phases
<1>8. job'[v].phase = "COMPLETED" => IsCompleted(v)'
  BY <1>6 DEF IsCompleted
<1> QED
  BY <1>1, <1>4, <1>5, <1>7, <1>8, RespondStep

LEMMA SetArqJobIdFailsStep ==
  ASSUME IInv, NEW r \in Requests, SetArqJobIdError(r) \/ SetArqJobIdUnanswered(r),
         UNCHANGED <<run, obscore>>
  PROVE  IInv'
<1>1. /\ req[r].pc = "set_arq_job_id" /\ UNCHANGED arq /\ Fails(r, "register")
      /\ \/ UNCHANGED job
         \/ SetArqJobIdAndMarkQueued(req[r].visit, req[r].arq)
  BY DEF SetArqJobIdError, SetArqJobIdUnanswered, Waiting
<1>2. StoreInv' /\ RowsSurvive /\ \A u \in Visits : RowInv(u)'
  BY <1>1, RowsStill, SetArqJobIdKeepsRows
<1> QED
  BY <1>1, <1>2, TransactionKeepsRest, FailsStep

LEMMA GetStep ==
  ASSUME IInv, NEW r \in Requests, NEW v \in Visits, Get(r, v),
         UNCHANGED <<run, obscore>>
  PROVE  IInv'
<1>1. UNCHANGED <<job, arq>>
  BY DEF Get
<1>2. StoreInv' /\ RowsSurvive /\ \A u \in Visits : RowInv(u)'
  BY <1>1, RowsStill
<1>3. CASE ~Exists(v)
  <2>1. Respond(r, "get", v, None, "unknown_job")
    BY <1>3 DEF Get
  <2>2. "unknown_job" \in Statuses \ {"COMPLETED", "aborted"}
    BY DEF Statuses, Phases
  <2> QED
    BY <1>1, <2>1, <2>2, PlainAnswer
<1>4. ASSUME Exists(v)
      PROVE  job[v] \in Row /\ RowInv(v)
  BY <1>4 DEF IInv, TypeOK, StoreTypeOK, Exists
<1>5. CASE Exists(v) /\ job[v].arq_job_id = None
  <2>1. Respond(r, "get", v, None, job[v].phase)
    BY <1>5 DEF Get
  <2>2. job[v].phase \in Statuses /\ job[v].phase # "aborted"
    BY <1>4, <1>5 DEF Row, Statuses, Phases
  <2>3. job[v].phase = "COMPLETED" => IsCompleted(v)'
    BY <1>1, <1>5 DEF IsCompleted, Exists
  <2> QED
    BY <1>1, <1>2, <2>1, <2>2, <2>3, RespondStep
<1>6. CASE Exists(v) /\ job[v].arq_job_id # None
  <2> DEFINE request == [pc |-> "status", visit |-> v,
                         arq |-> job[v].arq_job_id, seen |-> job[v].phase]
  <2>1. Await(r, request)
    BY <1>6 DEF Get
  <2>2. job[v].arq_job_id \in ArqIds /\ job[v].phase \in Phases
    BY <1>4, <1>6 DEF Row
  <2>3. request \in Request
    BY <2>2 DEF Request
  <2>4. PICK a \in ArqIds : a = job[v].arq_job_id
    BY <2>2
  <2>5. IsFor(a, v)'
    BY <1>1, <1>4, <1>6, <2>4 DEF RowInv, IsFor, Visit
  <2>6. /\ request.pc = "status" /\ request.visit = v
        /\ request.arq = a /\ request.seen = job[v].phase
    BY <2>4
  <2> HIDE DEF request
  <2>7. req'[r] = request
    BY <2>1, <2>3 DEF Await, IInv, TypeOK, ServiceTypeOK
  <2>8. RequestInv(r)'
    BY <1>1, <1>6, <2>2, <2>5, <2>6, <2>7 DEF RequestInv, Exists, IsCompleted, IsFor, Visit
  <2> QED
    BY <1>1, <1>2, <2>1, <2>3, <2>8, AwaitStep
<1> QED
  BY <1>3, <1>5, <1>6

\* A request that keeps its visit, its arq job and what it has seen.
LEMMA MoveOn ==
  ASSUME IInv, NEW r \in Requests, req[r].pc \notin {"idle", "enqueue"},
         NEW pc \in {"succeeded", "abort_result", "mark_failed"},
         Await(r, [req[r] EXCEPT !.pc = pc]), UNCHANGED <<job, arq, run, obscore>>,
         pc = "succeeded" => req[r].pc = "status",
         pc = "mark_failed" => ~IsLive(req[r].arq)
  PROVE  IInv'
<1> DEFINE request == [req[r] EXCEPT !.pc = pc]
<1>1. req[r] \in Request /\ RequestInv(r)
  BY InFlight
<1>2. /\ request \in Request /\ request.pc = pc /\ request.visit = req[r].visit
      /\ request.arq = req[r].arq /\ request.seen = req[r].seen
  BY <1>1, RequestFields
<1>3. Await(r, request)
  OBVIOUS
<1> HIDE DEF request
<1>4. req'[r] = request
  BY <1>2, <1>3 DEF Await, IInv, TypeOK, ServiceTypeOK
<1>5. RequestInv(r)'
  BY <1>1, <1>2, <1>4 DEF RequestInv, Exists, IsCompleted, IsFor, IsLive, Visit
<1> QED
  BY <1>2, <1>3, <1>5, RowsStill, AwaitStep

\* The overlay says COMPLETED only for what the row says, or arq's success.
LEMMA GetStatusStep ==
  ASSUME IInv, NEW r \in Requests, GetStatus(r), UNCHANGED <<run, obscore>>
  PROVE  IInv'
<1>1. /\ req[r].pc = "status" /\ UNCHANGED <<job, arq>>
      /\ \/ Answer(r, "get", "EXECUTING")
         \/ Await(r, [req[r] EXCEPT !.pc = "succeeded"])
         \/ Answer(r, "get", req[r].seen)
  BY DEF GetStatus, Waiting
<1>2. /\ req[r].visit \in Visits /\ req[r].arq \in ArqIds
      /\ req[r].seen \in Phases
      /\ req[r].seen = "COMPLETED" => IsCompleted(req[r].visit)
  BY <1>1, InFlight DEF RequestInv
<1>3. StoreInv' /\ RowsSurvive /\ \A u \in Visits : RowInv(u)'
  BY <1>1, RowsStill
<1>4. ASSUME NEW status \in {"EXECUTING", req[r].seen}, Answer(r, "get", status)
      PROVE  IInv'
  <2>1. PICK v \in Visits : v = req[r].visit
    BY <1>2
  <2>2. Respond(r, "get", v, req[r].arq, status)
    BY <1>4, <2>1 DEF Answer
  <2>3. status \in Statuses /\ status # "aborted"
    BY <1>2 DEF Statuses, Phases
  <2>4. status = "COMPLETED" => IsCompleted(v)'
    BY <1>1, <1>2, <2>1 DEF IsCompleted, Exists
  <2> QED
    BY <1>1, <1>2, <1>3, <2>2, <2>3, <2>4, RespondStep
<1>5. CASE Await(r, [req[r] EXCEPT !.pc = "succeeded"])
  BY <1>1, <1>5, MoveOn
<1> QED
  BY <1>1, <1>4, <1>5

LEMMA GetSucceededStep ==
  ASSUME IInv, NEW r \in Requests, GetSucceeded(r), UNCHANGED <<run, obscore>>
  PROVE  IInv'
<1>1. req[r].pc = "succeeded" /\ UNCHANGED <<job, arq>>
  BY DEF GetSucceeded, Waiting
<1>2. PICK v \in Visits : v = req[r].visit
  BY <1>1, InFlight
<1>3. PICK a \in ArqIds : a = req[r].arq
  BY <1>1, InFlight
<1>4. PICK status \in {req[r].seen, "COMPLETED", "ERROR"} :
        /\ Respond(r, "get", v, a, status)
        /\ status = "COMPLETED" => req[r].seen = "COMPLETED" \/ arq[a].result = "success"
  BY <1>2, <1>3 DEF GetSucceeded, Answer
<1>5. /\ req[r].seen \in Phases
      /\ req[r].seen = "COMPLETED" => IsCompleted(v)
      /\ IsFor(a, v) /\ RunInv(a)
  BY <1>1, <1>2, <1>3, InFlight DEF RequestInv, IInv
<1>6. arq[a].result = "success" => IsCompleted(v)
  <2>1. None # "success"
    BY ArqAssumption DEF Results
  <2> QED
    BY <1>5, <2>1 DEF IsFor, RunInv, IsLive
<1>7. status \in Statuses /\ status # "aborted"
  BY <1>5 DEF Statuses, Phases
<1>8. status = "COMPLETED" => IsCompleted(v)'
  BY <1>1, <1>4, <1>5, <1>6 DEF IsCompleted, Exists
<1>9. StoreInv' /\ RowsSurvive /\ \A u \in Visits : RowInv(u)'
  BY <1>1, RowsStill
<1> QED
  BY <1>1, <1>4, <1>7, <1>8, <1>9, RespondStep

LEMMA AbortStep ==
  ASSUME IInv, NEW r \in Requests, NEW v \in Visits, Abort(r, v),
         UNCHANGED <<run, obscore>>
  PROVE  IInv'
<1>1. UNCHANGED <<job, arq>>
  BY DEF Abort
<1>2. {"unknown_job", "queued_job_not_found"} \subseteq Statuses \ {"COMPLETED", "aborted"}
  BY DEF Statuses, Phases
<1>3. CASE ~Exists(v) \/ (Exists(v) /\ job[v].arq_job_id = None)
  BY <1>1, <1>2, <1>3, PlainAnswer DEF Abort
<1>4. CASE Exists(v) /\ job[v].arq_job_id # None
  <2>1. job[v] \in Row /\ RowInv(v)
    BY <1>4 DEF IInv, TypeOK, StoreTypeOK, Exists
  <2>2. PICK a \in ArqIds : a = job[v].arq_job_id
    BY <1>4, <2>1 DEF Row
  <2> DEFINE request == [Idle EXCEPT !.pc = "abort", !.visit = v, !.arq = a]
  <2>3. Await(r, request)
    BY <1>4, <2>2 DEF Abort
  <2>4. /\ request \in Request /\ request.pc = "abort"
        /\ request.visit = v /\ request.arq = a
    BY DEF Idle, Request
  <2>5. IsFor(a, v)
    BY <1>4, <2>1, <2>2 DEF RowInv
  <2> HIDE DEF request
  <2>6. req'[r] = request
    BY <2>3, <2>4 DEF Await, IInv, TypeOK, ServiceTypeOK
  <2>7. RequestInv(r)'
    BY <1>1, <1>4, <2>4, <2>5, <2>6 DEF RequestInv, Exists, IsFor, Visit
  <2> QED
    BY <1>1, <2>3, <2>4, <2>7, RowsStill, AwaitStep
<1> QED
  BY <1>3, <1>4

\* The abort flag leaves an arq job where it is.
LEMMA AbortFlagged ==
  ASSUME IInv, NEW r \in Requests, req[r].pc = "abort", FlagAbort(req[r].arq),
         UNCHANGED <<job, run, obscore>>
  PROVE  /\ RestKeeps(r)
         /\ \A b \in ArqIds : arq'[b].status = arq[b].status /\ arq'[b].visit = arq[b].visit
<1>1. CASE UNCHANGED arq
  BY <1>1, RowsStill, TransactionKeepsRest
<1>2. CASE ~UNCHANGED arq
  <2>1. PICK a \in ArqIds : a = req[r].arq
    BY InFlight
  <2>2. arq' = [arq EXCEPT ![a].abort = TRUE]
    BY <1>2, <2>1 DEF FlagAbort
  <2>3. /\ ArqMoves(a) /\ ArqTypeOK
        /\ arq'[a].status = arq[a].status /\ arq'[a].visit = arq[a].visit
        /\ arq'[a].result = arq[a].result
    BY <2>2, InFlight, SetAbortMoves
  <2>4. ArqTypeOK' /\ \A b \in ArqIds : /\ arq'[b].status = arq[b].status
                                         /\ arq'[b].visit = arq[b].visit
                                         /\ arq'[b].result = arq[b].result
    BY <2>3 DEF ArqMoves
  <2>5. \A b \in ArqIds : ArqKeeps(b)
    BY <2>4 DEF ArqKeeps, IsLive
  <2>6. Harmless /\ (\A u \in Visits : NoNewClaim(u)) /\ StoreInv'
    BY NothingHappens, StoreInvHolds
    DEF Harmless, StoreInv, StoreTypeOK, RowsConsistent, Exists
  <2>7. \A u \in Visits : RowInv(u)'
    BY <2>5, <2>6, RowsKeep
  <2>8. ASSUME NEW b \in ArqIds
        PROVE  RunInv(b)'
    BY <2>4 DEF IInv, RunInv, Visit, Exists, IsCompleted
  <2> QED
    BY <2>4, <2>5, <2>6, <2>7, <2>8 DEF RestKeeps
<1> QED
  BY <1>1, <1>2

LEMMA AbortRequestStep ==
  ASSUME IInv, NEW r \in Requests, AbortRequest(r), UNCHANGED <<run, obscore>>
  PROVE  IInv'
<1>1. /\ req[r].pc = "abort" /\ UNCHANGED job /\ FlagAbort(req[r].arq)
      /\ Await(r, [req[r] EXCEPT !.pc = "abort_result"])
  BY DEF AbortRequest, Waiting
<1>2. PICK a \in ArqIds : a = req[r].arq
  BY <1>1, InFlight
<1>3. RestKeeps(r) /\ arq'[a].status = arq[a].status /\ arq'[a].visit = arq[a].visit
  BY <1>1, <1>2, AbortFlagged
<1> DEFINE request == [req[r] EXCEPT !.pc = "abort_result"]
<1>4. RequestInv(r) /\ req[r] \in Request /\ ServiceTypeOK
  BY <1>1, InFlight
<1>5. /\ request \in Request /\ request.pc = "abort_result"
      /\ request.visit = req[r].visit /\ request.arq = req[r].arq
  BY <1>4, RequestFields
<1>6. Await(r, request)
  BY <1>1
<1> HIDE DEF request
<1>7. /\ ServiceTypeOK' /\ req'[r] = request
      /\ \A q \in Requests \ {r} : req'[q] = req[q]
  BY <1>4, <1>5, <1>6 DEF Await, ServiceTypeOK
<1>8. RequestInv(r)'
  BY <1>1, <1>2, <1>3, <1>4, <1>5, <1>7 DEF RequestInv, Exists, IsFor, Visit
<1>9. CompletedAnswerIsTrue' /\ AbortStopsTheWork'
  BY <1>6 DEF Await, CompletedAnswerIsTrue, AbortStopsTheWork
<1> QED
  BY <1>3, <1>7, <1>8, <1>9, RequestStep DEF RestKeeps

LEMMA ReadOrAbortErrorStep ==
  ASSUME IInv, NEW r \in Requests, GetError(r) \/ AbortError(r),
         UNCHANGED <<run, obscore>>
  PROVE  IInv'
<1>1. /\ req[r].pc # "idle" /\ UNCHANGED job
      /\ Fails(r, "get") \/ Fails(r, "abort")
      /\ UNCHANGED arq \/ (req[r].pc = "abort" /\ FlagAbort(req[r].arq))
  BY DEF GetError, AbortError, Waiting
<1>2. RestKeeps(r)
  BY <1>1, RowsStill, TransactionKeepsRest, AbortFlagged
<1> QED
  BY <1>1, <1>2, FailsStep

\* abort_job says True only of a job that arq will not run again.
LEMMA AbortResultStep ==
  ASSUME IInv, NEW r \in Requests, AbortResult(r), UNCHANGED <<run, obscore>>
  PROVE  IInv'
<1>1. req[r].pc = "abort_result" /\ UNCHANGED <<job, arq>>
  BY DEF AbortResult, Waiting
<1>2. /\ req[r].visit \in Visits /\ req[r].arq \in ArqIds /\ RunInv(req[r].arq)
      /\ arq[req[r].arq] \in ArqJob
  BY <1>1, InFlight DEF IInv, ArqTypeOK
<1>3. AbortAnswer(req[r].arq) = "True" => ~IsLive(req[r].arq)
  <2>1. None # "cancelled"
    BY ArqAssumption DEF Results
  <2> QED
    BY <1>2, <2>1 DEF AbortAnswer, IsLive, RunInv
<1>4. CASE /\ AbortAnswer(req[r].arq) = "True"
           /\ Await(r, [req[r] EXCEPT !.pc = "mark_failed"])
  BY <1>1, <1>3, <1>4, MoveOn
<1>5. CASE Answer(r, "abort", "queued_job_not_found") \/ Answer(r, "abort", "server_error")
  <2>1. {"queued_job_not_found", "server_error"} \subseteq Statuses \ {"COMPLETED", "aborted"}
    BY DEF Statuses, Phases
  <2> QED
    BY <1>1, <1>2, <1>5, <2>1, PlainAnswer DEF Answer
<1> QED
  BY <1>4, <1>5 DEF AbortResult

LEMMA AbortTimeoutStep ==
  ASSUME IInv, NEW r \in Requests, AbortTimeout(r), UNCHANGED <<run, obscore>>
  PROVE  IInv'
<1>1. /\ req[r].pc = "abort_result" /\ UNCHANGED <<job, arq>>
      /\ Respond(r, "abort", req[r].visit, req[r].arq, "queued_job_not_found")
  BY DEF AbortTimeout, Waiting, Answer
<1>2. req[r].visit \in Visits /\ req[r].arq \in ArqIds
  BY <1>1, InFlight
<1>3. "queued_job_not_found" \in Statuses \ {"COMPLETED", "aborted"}
  BY DEF Statuses, Phases
<1> QED
  BY <1>1, <1>2, <1>3, PlainAnswer

\* To record an abort claims nothing for the row.
LEMMA AbortKeepsRows ==
  ASSUME IInv, NEW r \in Requests, req[r].pc = "mark_failed",
         MarkFailed(req[r].visit, "JobAborted"), UNCHANGED <<arq, obscore>>
  PROVE  StoreInv' /\ RowsSurvive /\ \A u \in Visits : RowInv(u)'
<1>1. PICK v \in Visits : v = req[r].visit
  BY InFlight
<1>2. MarkFailed(v, "JobAborted") /\ StoreInv /\ Exists(v)
  BY <1>1, InFlight
<1>3. StoreInv' /\ RowsSurvive /\ \A u \in Visits : NoNewClaim(u)
  BY <1>2, MarkFailedMoves DEF ErrorCodes
<1> QED
  BY <1>3, QuietRows

LEMMA AbortMarkFailedStep ==
  ASSUME IInv, NEW r \in Requests, AbortMarkFailed(r), UNCHANGED <<run, obscore>>
  PROVE  IInv'
<1>1. /\ req[r].pc = "mark_failed" /\ UNCHANGED arq
      /\ MarkFailed(req[r].visit, "JobAborted")
  BY DEF AbortMarkFailed, Waiting
<1>2. PICK v \in Visits : v = req[r].visit
  BY <1>1, InFlight
<1>3. PICK a \in ArqIds : a = req[r].arq
  BY <1>1, InFlight
<1>4. PICK status \in {"conflict", "aborted"} : Respond(r, "abort", v, a, status)
  BY <1>2, <1>3 DEF AbortMarkFailed, Answer
<1>5. StoreInv' /\ RowsSurvive /\ \A u \in Visits : RowInv(u)'
  BY <1>1, AbortKeepsRows
<1>6. ~IsLive(a) /\ RunInv(a)
  BY <1>1, <1>3, InFlight DEF RequestInv, IInv
<1>7. At(a, "none")
  BY <1>6 DEF RunInv, IsLive, At
<1>8. status \in Statuses /\ status # "COMPLETED"
  BY DEF Statuses
<1> QED
  BY <1>1, <1>4, <1>5, <1>6, <1>7, <1>8, RespondStep

LEMMA AbortMarkFailedErrorStep ==
  ASSUME IInv, NEW r \in Requests, AbortMarkFailedError(r), UNCHANGED <<run, obscore>>
  PROVE  IInv'
<1>1. /\ req[r].pc = "mark_failed" /\ UNCHANGED arq /\ Fails(r, "abort")
      /\ MarkFailed(req[r].visit, "JobAborted") \/ UNCHANGED job
  BY DEF AbortMarkFailedError, Waiting
<1>2. StoreInv' /\ RowsSurvive /\ \A u \in Visits : RowInv(u)'
  BY <1>1, RowsStill, AbortKeepsRows
<1> QED
  BY <1>1, <1>2, TransactionKeepsRest, FailsStep

LEMMA ApiCrashStep ==
  ASSUME IInv, NEW r \in Requests, ApiCrash(r), UNCHANGED <<run, obscore>>
  PROVE  IInv'
<1>1. Await(r, Idle) /\ UNCHANGED <<job, arq>>
  BY DEF ApiCrash, Await
<1>2. Idle \in Request /\ Idle.pc = "idle"
  BY DEF Idle, Request
<1>3. req'[r] = Idle
  BY <1>1 DEF Await, IInv, TypeOK, ServiceTypeOK
<1>4. RequestInv(r)'
  BY <1>2, <1>3 DEF RequestInv
<1> QED
  BY <1>1, <1>2, <1>4, RowsStill, AwaitStep

LEMMA ApiStepKeeps ==
  ASSUME IInv, NEW r \in Requests, Api(ApiStep(r))
  PROVE  IInv'
<1>1. UNCHANGED <<run, obscore>>
  BY DEF Api
<1>2. CASE \E v \in Visits : Arrive(r, v)
  BY <1>1, <1>2, RegisterStep, GetStep, AbortStep DEF Arrive
<1>3. CASE Continue(r)
  BY <1>1, <1>3, EnqueueStep, SetArqJobIdStep, GetStatusStep, GetSucceededStep,
     AbortRequestStep, AbortResultStep, AbortMarkFailedStep DEF Continue
<1>4. CASE RequestFault(r)
  BY <1>1, <1>4, EnqueueErrorStep, EnqueueUnansweredStep, RegisterUnansweredStep,
     SetArqJobIdFailsStep, ReadOrAbortErrorStep, AbortMarkFailedErrorStep,
     AbortTimeoutStep, ApiCrashStep DEF RequestFault, RequestDatabaseError
<1> QED
  BY <1>2, <1>3, <1>4 DEF Api, ApiStep
-----------------------------------------------------------------------------
LEMMA IInvStep == IInv /\ [Next]_vars => IInv'
<1> SUFFICES ASSUME IInv, [Next]_vars
             PROVE  IInv'
  OBVIOUS
<1>1. ASSUME NEW r \in Requests, Api(ApiStep(r))
      PROVE  IInv'
  BY <1>1, ApiStepKeeps
<1>2. ASSUME NEW a \in ArqIds, WorkerStep(a), UNCHANGED req, reply' = NoReply
      PROVE  IInv'
  BY <1>2, WorkerStepKeeps
<1>3. CASE UNCHANGED vars
  BY <1>3 DEF vars, IInv, TypeOK, StoreTypeOK, ArqTypeOK, WorkerTypeOK, ServiceTypeOK,
     RowsConsistent, RunInv, RowInv, RequestInv, CompletedAnswerIsTrue,
     AbortStopsTheWork, IsCompleted, IsFor, IsLive, Exists, Visit, At
<1> QED
  BY <1>1, <1>2, <1>3 DEF Next

LEMMA InvariantHolds == Spec => []IInv
BY IInvInit, IInvStep, PTL DEF Spec

(* For any visits, arq ids, requests and faults, every row, arq job, run,    *)
(* request and reply is one the columns, Redis and the handlers can hold.    *)
THEOREM TypeCorrect == Spec => []TypeOK
<1>1. IInv => TypeOK
  BY DEF IInv
<1> QED
  BY <1>1, InvariantHolds, PTL

(* A success stored by arq is never ahead of the database, however many      *)
(* runs, crashes and aborts compete: run_enrichment returns only after       *)
(* mark_completed has committed, and no transaction takes COMPLETED away.    *)
THEOREM SuccessStored == Spec => []SuccessIsDurable
<1>1. IInv => SuccessIsDurable
  BY DEF IInv, RunInv, SuccessIsDurable, IsCompleted
<1> QED
  BY <1>1, InvariantHolds, PTL

(* Whoever is told COMPLETED, by the row or by the arq overlay, finds the    *)
(* records: GET answers from rows and results that only a run that has       *)
(* upserted them can write.                                                  *)
THEOREM CompletedAnswers == Spec => []CompletedAnswerIsTrue
<1>1. IInv => CompletedAnswerIsTrue
  BY DEF IInv
<1> QED
  BY <1>1, InvariantHolds, PTL

(* A 204 to DELETE means that the arq job it named is neither queued nor     *)
(* running: abort_job confirms only what arq will not run again.             *)
THEOREM AbortsAreFinal == Spec => []AbortStopsTheWork
<1>1. IInv => AbortStopsTheWork
  BY DEF IInv
<1> QED
  BY <1>1, InvariantHolds, PTL
-----------------------------------------------------------------------------
(* The refinement.  A step commits one transaction of the store, or          *)
(* publishes records, or does neither; the store says which step of the      *)
(* ledger a transaction is, and the invariant that a COMPLETED row has its   *)
(* records.                                                                  *)

\* What the worker and the service do to the database in one step.
LEMMA WorkerKinds ==
  ASSUME IInv, NEW a \in ArqIds, WorkerStep(a)
  PROVE  \/ StoreNext /\ UNCHANGED obscore
         \/ UNCHANGED <<job, obscore>>
         \/ Enrich(a)
<1>1. CASE RunMarkExecuting(a) \/ RunMarkCompleted(a) \/ RunMarkFailed(a)
  <2>1. run[a].pc # "none" /\ UNCHANGED obscore
    BY <1>1 DEF RunMarkExecuting, RunMarkCompleted, RunMarkFailed, At
  <2>2. PICK v \in Visits : v = Visit(a) /\ Exists(v)
    BY <2>1, RunningFor
  <2>3. RunMarkFailed(a) => run[a].code \in ErrorCodes
    BY RunningFor DEF RunMarkFailed, At, RunInv
  <2>4. \/ MarkExecuting(v) \/ MarkCompleted(v)
        \/ \E code \in ErrorCodes : MarkFailed(v, code)
    BY <1>1, <2>2, <2>3 DEF RunMarkExecuting, RunMarkCompleted, RunMarkFailed
  <2> QED
    BY <2>1, <2>2, <2>4 DEF StoreNext
<1>2. CASE Return(a) \/ Finish(a) \/ EnrichFails(a) \/ EnrichRetries(a)
           \/ DatabaseError(a) \/ WorkerCrash(a)
  BY <1>2 DEF Return, Finish, EnrichFails, EnrichRetries, DatabaseError, WorkerCrash
<1>3. CASE Dispatch(a) \/ \E why \in Cancellations : Cancel(a, why)
  BY <1>3 DEF Dispatch, StartRun, RefuseRun, InProgressExpires, Expire, Cancel
<1> QED
  BY <1>1, <1>2, <1>3 DEF WorkerStep, Proceed, RunFault, Cancellations

LEMMA ServiceKinds ==
  ASSUME IInv, NEW r \in Requests, Api(ApiStep(r))
  PROVE  \/ StoreNext /\ UNCHANGED obscore
         \/ UNCHANGED <<job, obscore>>
<1>1. UNCHANGED obscore /\ ApiStep(r)
  BY DEF Api
<1>2. CASE \E v \in Visits : Arrive(r, v)
  BY <1>1, <1>2 DEF Arrive, Register, Get, Abort, StoreNext
<1>3. CASE \/ SetArqJobId(r) \/ SetArqJobIdUnanswered(r)
           \/ AbortMarkFailed(r) \/ (AbortMarkFailedError(r) /\ ~UNCHANGED job)
  <2>1. req[r].pc \in {"set_arq_job_id", "mark_failed"}
    BY <1>3 DEF SetArqJobId, SetArqJobIdUnanswered, AbortMarkFailed, AbortMarkFailedError,
       Waiting
  <2>2. req[r].visit \in Visits /\ Exists(req[r].visit) /\ req[r].arq \in ArqIds
    BY <2>1, InFlight
  <2>3. \/ SetArqJobIdAndMarkQueued(req[r].visit, req[r].arq)
        \/ MarkFailed(req[r].visit, "JobAborted")
    BY <1>3 DEF SetArqJobId, SetArqJobIdUnanswered, AbortMarkFailed, AbortMarkFailedError
  <2> QED
    BY <1>1, <2>2, <2>3 DEF StoreNext, ErrorCodes
<1>4. CASE \/ Enqueue(r) \/ GetStatus(r) \/ GetSucceeded(r) \/ AbortRequest(r)
           \/ AbortResult(r) \/ EnqueueError(r) \/ EnqueueUnanswered(r)
           \/ SetArqJobIdError(r) \/ AbortTimeout(r) \/ GetError(r) \/ AbortError(r)
           \/ ApiCrash(r)
  BY <1>1, <1>4 DEF Enqueue, GetStatus, GetSucceeded, AbortRequest, AbortResult,
     EnqueueError, EnqueueUnanswered, SetArqJobIdError, AbortTimeout, GetError, AbortError,
     ApiCrash
<1>5. CASE \E v \in Visits : RegisterUnanswered(r, v)
  BY <1>1, <1>5 DEF RegisterUnanswered, StoreNext
<1> QED
  BY <1>1, <1>2, <1>3, <1>4, <1>5
  DEF ApiStep, Continue, RequestFault, RequestDatabaseError

LEMMA StepIsStoreStep == IInv /\ [Next]_vars => [StoreNext]_job
BY WorkerKinds, ServiceKinds DEF Next, vars, Enrich

\* The records are published apart from the transactions of the store.
LEMMA PublishesApart ==
  ASSUME IInv, [Next]_vars
  PROVE  obscore \subseteq obscore' /\ (UNCHANGED job \/ UNCHANGED obscore)
<1>1. \/ StoreNext /\ UNCHANGED obscore
      \/ UNCHANGED <<job, obscore>>
      \/ \E a \in ArqIds : Enrich(a)
  BY WorkerKinds, ServiceKinds DEF Next, vars
<1> QED
  BY <1>1 DEF Enrich

LEMMA CatalogueGrowsByStep ==
  ASSUME IInv, IInv', [Next]_vars
  PROVE  Ledger!CatalogueGrows
<1>1. ASSUME NEW v \in obscore'
      PROVE  v \in Visits /\ Account'[v].status # "absent"
  <2>1. v \in Visits
    BY DEF IInv, TypeOK, WorkerTypeOK
  <2>2. job'[v] \in Row
    BY <2>1 DEF IInv, TypeOK, StoreTypeOK, RowInv, Exists
  <2> QED
    BY <2>1, <2>2, RowEntry DEF Account
<1> QED
  BY <1>1, PublishesApart DEF Ledger!CatalogueGrows

LEMMA StepImplements ==
  IInv /\ IInv' /\ [Next]_vars => [Ledger!Next]_<<Account, obscore>>
<1> SUFFICES ASSUME IInv, IInv', [Next]_vars
             PROVE  Ledger!Next
  OBVIOUS
<1>1. Ledger!CatalogueGrows
  BY CatalogueGrowsByStep
<1>2. CASE UNCHANGED Account
  BY <1>1, <1>2 DEF Ledger!Next, Ledger!Publish
<1>3. ASSUME NEW v \in Visits,
             Account' = [Account EXCEPT ![v] = EntryOf(job'[v])],
             Account[v] = EntryOf(job[v]), EntryStep(job[v], job'[v])
      PROVE  Ledger!Next
  <2>1. ASSUME NEW from, NEW to, EntryOf(job[v]).status \in from, EntryOf(job'[v]) = to
        PROVE  Ledger!Move(v, from, to)
    BY <1>1, <1>3, <2>1 DEF Ledger!Move
  <2>2. CASE EntryOf(job'[v]) = EntryOf(job[v])
    <3>1. UNCHANGED Account
      BY <1>3, <2>2 DEF Account
    <3> QED
      BY <1>2, <3>1
  <2>3. CASE /\ EntryOf(job[v]).status \in {"absent", "failed"}
             /\ EntryOf(job'[v]) = AnEntry("waiting", None)
    <3>1. Ledger!Accept(v) \/ Ledger!Reopen(v)
      BY <2>1, <2>3 DEF Ledger!Accept, Ledger!Reopen, Ledger!Entry, AnEntry
    <3> QED
      BY <3>1 DEF Ledger!Next
  <2>4. CASE /\ EntryOf(job[v]).status = "waiting"
             /\ EntryOf(job'[v]) = AnEntry("working", None)
    <3>1. Ledger!Begin(v)
      BY <2>1, <2>4 DEF Ledger!Begin, Ledger!Entry, AnEntry
    <3> QED
      BY <3>1 DEF Ledger!Next
  <2>5. CASE /\ EntryOf(job[v]).status = "working" /\ EntryOf(job'[v]) = AnEntry("done", None)
             /\ job[v] \in Row /\ job'[v] \in Row
             /\ job[v].phase = "EXECUTING" /\ job'[v].phase = "COMPLETED"
    <3>1. v \in obscore'
      BY <2>5, NoRowAssumption DEF IInv, RowInv, IsCompleted, Exists
    <3>2. v \in obscore
      BY <2>5, <3>1, PublishesApart
    <3>3. Ledger!Finish(v)
      BY <2>1, <2>5, <3>2 DEF Ledger!Finish, Ledger!Entry, AnEntry
    <3> QED
      BY <3>3 DEF Ledger!Next
  <2>6. ASSUME EntryOf(job[v]).status \in {"waiting", "working"},
               NEW code \in ErrorCodes, EntryOf(job'[v]) = AnEntry("failed", code)
        PROVE  Ledger!Next
    <3>1. Ledger!Fail(v, code)
      BY <2>1, <2>6 DEF Ledger!Fail, Ledger!Entry, AnEntry
    <3> QED
      BY <3>1 DEF Ledger!Next
  <2> QED
    BY <1>3, <2>2, <2>3, <2>4, <2>5, <2>6 DEF EntryStep
<1>4. StoreInv /\ StoreInv' /\ [StoreNext]_job
  BY StepIsStoreStep DEF IInv, TypeOK, StoreInv
<1> QED
  BY <1>2, <1>3, <1>4, StoreStepEntry

(* The database, for any number of requests and workers and any of their     *)
(* failures, implements the ledger: a visit is accepted once, begun, and     *)
(* ends done with its records published or failed with one error.            *)
THEOREM LedgerImplemented == Spec => ImplementsLedger
<1>1. Init => Ledger!Init
  BY DEF Init, StoreInit, WorkerInit, Ledger!Init, Ledger!Entry, Account, EntryOf
<1>2. IInv /\ IInv' /\ [Next]_vars => [Ledger!Next]_<<Account, obscore>>
  BY StepImplements
<1>3. Spec => []IInv
  BY InvariantHolds
<1> QED
  BY <1>1, <1>2, <1>3, PTL DEF Spec, ImplementsLedger, Ledger!Spec
-----------------------------------------------------------------------------
(* The rows in the hands of the whole system.                               *)

(* The requests, the workers and their failures use the enrichment_job table *)
(* only through the transactions of the store.                               *)
THEOREM StoreImplemented == Spec => StoreSpec
<1>1. Init => StoreInit
  BY DEF Init
<1>2. IInv /\ [Next]_vars => [StoreNext]_job
  BY StepIsStoreStep
<1> QED
  BY <1>1, <1>2, InvariantHolds, PTL DEF Spec, StoreSpec

(* A row that is over stands until its visit is registered again, however    *)
(* late a worker, an abort or a repeated registration comes.                 *)
THEOREM FinalRowsOutlastTheSystem == Spec => FinalRowsStand
BY StoreImplemented, StoreKeepsFinalRows, PTL
-----------------------------------------------------------------------------
(* Arq jobs wear out.                                                       *)

\* The values the measure takes, one for each status.
LEMMA WorkLeftValues ==
  ASSUME NEW j \in ArqJob, NEW k \in Run
  PROVE  /\ MaxTries - j.tries \in Nat
         /\ j.status = "unknown" => WorkLeft(j, k) = 0
         /\ j.status = "complete" => WorkLeft(j, k) = 1
         /\ j.status = "queued" => WorkLeft(j, k) = 16 * (MaxTries - j.tries) + 2
         /\ j.status = "in_progress" =>
              WorkLeft(j, k) = 16 * (MaxTries - j.tries) + TryLeft[k.pc]
                               - (IF k.outcome \in Cancellations THEN 1 ELSE 0)
<1>1. j.tries \in 0 .. MaxTries /\ MaxTries \in Nat
  BY ArqAssumption DEF ArqJob
<1> QED
  BY <1>1 DEF WorkLeft

\* A run under way: what is left counts its place, and a cancellation.
LEMMA TryLeftValues ==
  /\ TryLeft["none"] = 4 /\ TryLeft["finally"] = 6 /\ TryLeft["mark_failed"] = 8
  /\ TryLeft["committed"] = 10 /\ TryLeft["mark_completed"] = 12
  /\ TryLeft["enrich"] = 14 /\ TryLeft["mark_executing"] = 16
BY DEF TryLeft

\* What a step owes for its arq job.
WearsOut(a) ==
  \/ arq'[a].status = arq[a].status /\ run'[a] = run[a]
  \/ WorkLeft(arq'[a], run'[a]) < WorkLeft(arq[a], run[a])

LEMMA JobAndRun ==
  ASSUME IInv, IInv', NEW a \in ArqIds
  PROVE  /\ arq[a] \in ArqJob /\ arq'[a] \in ArqJob
         /\ run[a] \in Run /\ run'[a] \in Run
         /\ run[a].pc # "none" => arq[a].status = "in_progress"
BY DEF IInv, TypeOK, ArqTypeOK, WorkerTypeOK, RunInv

\* The run moves to a later place in the same try.
LEMMA RunWearsOut ==
  ASSUME IInv, IInv', NEW a \in ArqIds,
         arq[a].status = "in_progress",
         arq'[a].status = "in_progress", arq'[a].tries = arq[a].tries,
         TryLeft[run'[a].pc] < TryLeft[run[a].pc] - 1
  PROVE  WearsOut(a)
<1>1. /\ run[a].pc \in {"none", "mark_failed", "finally"} \cup TryBlock
      /\ run'[a].pc \in {"none", "mark_failed", "finally"} \cup TryBlock
  BY JobAndRun DEF Run
<1>2. TryLeft[run[a].pc] \in Int /\ TryLeft[run'[a].pc] \in Int
  BY <1>1, TryLeftValues DEF TryBlock
<1> QED
  BY <1>2, JobAndRun, WorkLeftValues DEF WearsOut

\* A cancellation counts for a step even in the finally clause.
LEMMA CancelWearsOut ==
  ASSUME IInv, IInv', NEW a \in ArqIds, NEW why \in Cancellations, Cancel(a, why)
  PROVE  WearsOut(a)
<1>1. /\ arq[a].status = "in_progress" /\ run[a].pc # "none"
      /\ run[a].outcome \notin Cancellations
      /\ \/ /\ run[a].pc \in TryBlock
            /\ run' = [run EXCEPT ![a] = [pc |-> "mark_failed", code |-> "JobAborted",
                                         outcome |-> why]]
         \/ /\ run[a].pc \in {"mark_executing", "mark_failed", "finally"}
            /\ run' = [run EXCEPT ![a] = [pc |-> "finally", code |-> None,
                                         outcome |-> why]]
  BY JobAndRun DEF Cancel, Cancelled, Fail, Leave, TryBlock
<1>2. arq'[a].status = arq[a].status /\ arq'[a].tries = arq[a].tries
  <2>1. UNCHANGED arq \/ arq' = [arq EXCEPT ![a].abort = FALSE]
    BY DEF Cancel
  <2> QED
    BY <2>1, JobAndRun DEF ArqJob, IInv, TypeOK, ArqTypeOK
<1>3. /\ run'[a].outcome = why
      /\ \/ run[a].pc \in TryBlock /\ run'[a].pc \in {"mark_failed", "finally"}
         \/ run[a].pc \in {"mark_failed", "finally"} /\ run'[a].pc = "finally"
  BY <1>1 DEF IInv, TypeOK, WorkerTypeOK, TryBlock
<1>4. /\ TryLeft[run[a].pc] \in Int /\ TryLeft[run'[a].pc] \in Int
      /\ TryLeft[run'[a].pc] <= TryLeft[run[a].pc]
  BY <1>3, TryLeftValues DEF TryBlock
<1> QED
  BY <1>1, <1>2, <1>3, <1>4, JobAndRun, WorkLeftValues DEF WearsOut

LEMMA ProceedWearsOut ==
  ASSUME IInv, IInv', NEW a \in ArqIds,
         \/ RunMarkExecuting(a) \/ Enrich(a) \/ RunMarkCompleted(a) \/ Return(a)
         \/ RunMarkFailed(a) \/ EnrichFails(a) \/ EnrichRetries(a) \/ DatabaseError(a)
  PROVE  WearsOut(a)
<1> USE JobAndRun, TryLeftValues
<1>1. UNCHANGED arq /\ run[a].pc # "none"
  BY DEF RunMarkExecuting, Enrich, RunMarkCompleted, Return, RunMarkFailed,
     EnrichFails, EnrichRetries, DatabaseError, At
<1>2. run \in [ArqIds -> Run]
  BY DEF IInv, TypeOK, WorkerTypeOK
<1>3. CASE RunMarkExecuting(a)
  <2>1. /\ run[a].pc = "mark_executing"
        /\ run'[a].pc \in {"mark_failed", "enrich"}
    BY <1>2, <1>3 DEF RunMarkExecuting, At, Go, Fail, Run
  <2> QED
    BY <1>1, <2>1, RunWearsOut
<1>4. CASE Enrich(a) \/ EnrichFails(a) \/ EnrichRetries(a)
  <2>1. /\ run[a].pc = "enrich"
        /\ run'[a].pc \in {"mark_completed", "mark_failed", "finally"}
    BY <1>2, <1>4 DEF Enrich, EnrichFails, EnrichRetries, At, Go, Fail, Leave, Run
  <2> QED
    BY <1>1, <2>1, RunWearsOut
<1>5. CASE RunMarkCompleted(a)
  <2>1. /\ run[a].pc = "mark_completed"
        /\ run'[a].pc \in {"mark_failed", "committed"}
    BY <1>2, <1>5 DEF RunMarkCompleted, At, Go, Fail, Run
  <2> QED
    BY <1>1, <2>1, RunWearsOut
<1>6. CASE Return(a) \/ RunMarkFailed(a)
  <2>1. /\ run[a].pc \in {"committed", "mark_failed"}
        /\ run'[a].pc = "finally"
    BY <1>2, <1>6 DEF Return, RunMarkFailed, At, Leave
  <2>2. CASE run'[a].outcome \in Cancellations
    BY <1>1, <2>1, RunWearsOut
  <2> QED
    BY <1>1, <2>1, RunWearsOut
<1>7. CASE DatabaseError(a)
  <2>1. \/ /\ run[a].pc \in {"mark_executing", "mark_completed", "committed"}
           /\ run'[a].pc = "mark_failed"
        \/ run[a].pc = "mark_failed" /\ run'[a].pc = "finally"
    BY <1>2, <1>7 DEF DatabaseError, At, Fail, Leave
  <2> QED
    BY <1>1, <2>1, RunWearsOut
<1> QED
  BY <1>3, <1>4, <1>5, <1>6, <1>7

LEMMA ArqWearsOut ==
  ASSUME IInv, IInv', NEW a \in ArqIds,
         \/ StartRun(a) \/ RefuseRun(a) \/ InProgressExpires(a) \/ Expire(a)
         \/ Finish(a) \/ WorkerCrash(a)
  PROVE  WearsOut(a)
<1> USE JobAndRun, TryLeftValues
<1>1. /\ run \in [ArqIds -> Run] /\ arq \in [ArqIds -> ArqJob]
      /\ NoRun.pc = "none" /\ NoRun.outcome = None /\ None \notin Cancellations
  BY WorkerAssumption DEF IInv, TypeOK, WorkerTypeOK, ArqTypeOK, NoRun, Outcomes
<1>2. CASE StartRun(a)
  <2>1. /\ arq[a].status = "queued" /\ arq'[a].status = "in_progress"
        /\ arq'[a].tries = arq[a].tries + 1
        /\ run'[a].pc = "mark_executing"
    BY <1>1, <1>2 DEF StartRun, Start, Go, ArqJob, Run
  <2>2. arq[a].tries \in Int /\ MaxTries \in Int
    BY ArqAssumption DEF ArqJob
  <2> QED
    BY <2>1, <2>2, WorkLeftValues DEF WearsOut
<1>3. CASE RefuseRun(a)
  <2>1. arq[a].status = "queued" /\ arq'[a].status = "complete"
    BY <1>1, <1>3 DEF RefuseRun, Refuse, Completed, ArqJob
  <2> QED
    BY <2>1, WorkLeftValues DEF WearsOut
<1>4. CASE InProgressExpires(a)
  <2>1. /\ arq[a].status = "in_progress" /\ run[a].pc = "none" /\ UNCHANGED run
        /\ arq'[a].status = "queued" /\ arq'[a].tries = arq[a].tries
    BY <1>1, <1>4 DEF InProgressExpires, PutBack, At, ArqJob
  <2> QED
    BY <2>1, WorkLeftValues DEF WearsOut
<1>5. CASE Expire(a)
  <2>1. arq[a].status = "complete" /\ arq'[a].status = "unknown"
    BY <1>1, <1>5 DEF Expire, ResultExpires, Unknown
  <2> QED
    BY <2>1, WorkLeftValues DEF WearsOut
<1>6. CASE Finish(a)
  <2>1. run[a].pc = "finally" /\ arq[a].status = "in_progress"
    BY <1>6 DEF Finish, At
  <2>2. run[a].outcome \in Outcomes
    BY <2>1 DEF IInv, RunInv
  <2>3. \/ arq'[a].status = "complete"
        \/ arq'[a].status = "queued" /\ arq'[a].tries = arq[a].tries
    <3>1. (\E result \in Results : Completed(a, result)) \/ PutBack(a)
      BY <1>6, <2>2 DEF Finish, Settle, Outcomes, Cancellations, Results
    <3> QED
      BY <1>1, <3>1 DEF Completed, PutBack, ArqJob
  <2> QED
    BY <2>1, <2>3, WorkLeftValues DEF WearsOut
<1>7. CASE WorkerCrash(a)
  <2>1. /\ run[a].pc # "none" /\ UNCHANGED arq
        /\ run'[a] = NoRun
    BY <1>1, <1>7 DEF WorkerCrash, At
  <2>2. TryLeft[run[a].pc] \in Int /\ TryLeft[run[a].pc] >= 6
    BY <2>1 DEF Run, TryBlock
  <2> QED
    BY <1>1, <2>1, <2>2, WorkLeftValues DEF WearsOut
<1> QED
  BY <1>2, <1>3, <1>4, <1>5, <1>6, <1>7

\* A step of the worker is about one arq job.
LEMMA OtherJobsStand ==
  ASSUME IInv, NEW a \in ArqIds, WorkerStep(a), NEW b \in ArqIds, b # a
  PROVE  arq'[b] = arq[b] /\ run'[b] = run[b]
<1> USE DEF IInv, TypeOK, WorkerTypeOK, ArqTypeOK
<1>1. CASE \/ RunMarkExecuting(a) \/ Enrich(a) \/ RunMarkCompleted(a) \/ Return(a)
           \/ RunMarkFailed(a) \/ EnrichFails(a) \/ EnrichRetries(a) \/ DatabaseError(a)
           \/ WorkerCrash(a)
  BY <1>1 DEF RunMarkExecuting, Enrich, RunMarkCompleted, Return, RunMarkFailed,
     EnrichFails, EnrichRetries, DatabaseError, WorkerCrash, Go, Fail, Leave
<1>2. CASE \E why \in Cancellations : Cancel(a, why)
  BY <1>2 DEF Cancel, Fail, Leave
<1>3. CASE StartRun(a) \/ RefuseRun(a) \/ InProgressExpires(a) \/ Expire(a)
  BY <1>3 DEF StartRun, RefuseRun, InProgressExpires, Expire, Start, Refuse, Completed,
     PutBack, ResultExpires, Go
<1>4. CASE Finish(a)
  <2>1. run[a].outcome \in Outcomes
    BY <1>4 DEF Finish, At, RunInv
  <2>2. (\E result \in Results : Completed(a, result)) \/ PutBack(a)
    BY <1>4, <2>1 DEF Finish, Settle, Outcomes, Cancellations, Results
  <2> QED
    BY <1>4, <2>2 DEF Finish, Completed, PutBack
<1> QED
  BY <1>1, <1>2, <1>3, <1>4 DEF WorkerStep, Proceed, Dispatch, RunFault, Cancellations

\* A request only draws an unknown arq id or flags an abort.
LEMMA RequestWearsNothing ==
  ASSUME IInv, NEW r \in Requests, Api(ApiStep(r)), NEW a \in ArqIds,
         arq[a].status # "unknown"
  PROVE  arq'[a].status = arq[a].status /\ run'[a] = run[a]
<1> USE DEF IInv, TypeOK, ArqTypeOK
<1>1. UNCHANGED run /\ ApiStep(r)
  BY DEF Api
<1>2. CASE Enqueue(r) \/ EnqueueUnanswered(r)
  <2>1. PICK b \in ArqIds : EnqueueJob(b, req[r].visit)
    BY <1>2 DEF Enqueue, EnqueueUnanswered
  <2>2. b # a
    BY <2>1 DEF EnqueueJob
  <2>3. arq'[a] = arq[a]
    BY <2>1, <2>2 DEF EnqueueJob
  <2> QED
    BY <1>1, <2>3
<1>3. CASE AbortRequest(r) \/ AbortError(r)
  <2>1. PICK b : b = req[r].arq
    OBVIOUS
  <2>2. arq' = arq \/ arq' = [arq EXCEPT ![b].abort = TRUE]
    BY <1>3, <2>1 DEF AbortRequest, AbortError, FlagAbort
  <2>3. arq[a] \in ArqJob
    OBVIOUS
  <2>4. arq'[a].status = arq[a].status
    BY <2>2, <2>3 DEF ArqJob
  <2> QED
    BY <1>1, <2>4
<1>4. CASE UNCHANGED arq
  BY <1>1, <1>4
<1> QED
  BY <1>1, <1>2, <1>3, <1>4 DEF ApiStep, Arrive, Continue, RequestFault,
     RequestDatabaseError, Register, Get, Abort, SetArqJobId, GetStatus, GetSucceeded,
     AbortResult, AbortMarkFailed, EnqueueError, RegisterUnanswered, SetArqJobIdError,
     SetArqJobIdUnanswered, GetError, AbortMarkFailedError, AbortTimeout, ApiCrash

LEMMA JobsWearOutStep ==
  ASSUME IInv, IInv', [Next]_vars, NEW a \in ArqIds, arq[a].status # "unknown"
  PROVE  WearsOut(a)
<1>1. ASSUME NEW r \in Requests, Api(ApiStep(r))
      PROVE  WearsOut(a)
  BY <1>1, RequestWearsNothing DEF WearsOut
<1>2. ASSUME NEW b \in ArqIds, WorkerStep(b), b # a
      PROVE  WearsOut(a)
  BY <1>2, OtherJobsStand DEF WearsOut
<1>3. CASE WorkerStep(a)
  BY <1>3, ProceedWearsOut, ArqWearsOut, CancelWearsOut
  DEF WorkerStep, Proceed, Dispatch, RunFault, Cancellations
<1>4. CASE UNCHANGED vars
  BY <1>4 DEF vars, WearsOut
<1> QED
  BY <1>1, <1>2, <1>3, <1>4 DEF Next

(* An arq job wears out under any faults: each step with it leaves fewer     *)
(* than there were, at most 16 for each of the MaxTries tries and 2 more, so *)
(* that no mixture of retries, shutdowns, crashes and expiring keys sends it *)
(* round the queue for ever.                                                 *)
THEOREM ArqJobsWearOut == Spec => JobsWearOut
<1>1. IInv /\ IInv' /\ [Next]_vars =>
        [\A a \in ArqIds : arq[a].status # "unknown" =>
           \/ arq'[a].status = arq[a].status /\ run'[a] = run[a]
           \/ WorkLeft(arq'[a], run'[a]) < WorkLeft(arq[a], run[a])]_vars
  BY JobsWearOutStep DEF WearsOut
<1> QED
  BY <1>1, InvariantHolds, PTL DEF Spec, JobsWearOut
=============================================================================
