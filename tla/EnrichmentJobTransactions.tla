---------------------- MODULE EnrichmentJobTransactions ----------------------
(***************************************************************************)
(* The methods of EnrichmentJobStore below their transactions: a call      *)
(* makes up to MaxAttempts attempts, an attempt reads a snapshot, writes   *)
(* one row or none and commits, and any of it may fail.  PostgreSQL at     *)
(* REPEATABLE READ and Safir's retry_async_transaction are libraries.      *)
(*                                                                         *)
(* A session that is about to commit holds the lock of its row.  A session *)
(* is overtaken when another one commits its row after the snapshot.       *)
(***************************************************************************)
EXTENDS EnrichmentJobStore, Naturals

CONSTANTS Sessions,    \* the requests and runs: each has a session of its own
          Methods,     \* the methods they call
          Codes,       \* the error codes they give to mark_failed
          MaxAttempts  \* max_tries of retry_async_transaction

AllMethods == {"add_or_get", "set_arq_job_id", "mark_queued", "mark_executing",
               "mark_completed", "mark_failed"}

ASSUME TransactionsAssumption ==
  /\ Methods \subseteq AllMethods
  /\ Codes \subseteq ErrorCodes
  /\ MaxAttempts \in Nat \ {0}

VARIABLE session

tvars == <<job, session>>

\* A method and its argument: an arq job id, an error code, or nothing.
Op(method, with) == [method |-> method, with |-> with]

Arguments(method) ==
  CASE method = "set_arq_job_id" -> ArqIds
    [] method = "mark_failed"    -> Codes
    [] OTHER                     -> {None}

Ops == UNION {{Op(method, with) : with \in Arguments(method)} : method \in Methods}

Writes(op, row) ==
  IF op.method = "add_or_get" THEN row # NoRow => row.phase = "ERROR"
                              ELSE row.phase \in AllowedCurrent[op.method]

Written(op, row) ==
  CASE op.method = "add_or_get"     -> AddedOrGot(row)
    [] op.method = "set_arq_job_id" -> QueuedAs(row, op.with)
    [] op.method = "mark_queued"    -> Queued(row)
    [] op.method = "mark_executing" -> Executing(row)
    [] op.method = "mark_completed" -> AsCompleted(row)
    [] op.method = "mark_failed"    -> Failed(row, op.with)

\* What a method that writes nothing answers: the row, or an invalid transition.
Answered(op, row) ==
  IF op.method # "add_or_get" /\ row.phase \notin IdempotentCurrent[op.method]
    THEN "rejected" ELSE row.phase

Answers == Phases \cup {"rejected", "failed"}

\* applied and disturbed are history: an earlier attempt of this call has
\* committed, and another session has since committed the same row.
Session == [pc        : {"idle", "begin", "statement", "commit", "returned"},
            visit     : Visits \cup {None},
            op        : Ops \cup {None},
            snap      : Row \cup {NoRow},
            overtaken : BOOLEAN,
            attempt   : 0 .. MaxAttempts,
            answer    : Answers \cup {None},
            applied   : BOOLEAN,
            disturbed : BOOLEAN]

Quiet == [pc |-> "idle", visit |-> None, op |-> None, snap |-> NoRow,
          overtaken |-> FALSE, attempt |-> 0, answer |-> None,
          applied |-> FALSE, disturbed |-> FALSE]

TransactionsInit == StoreInit /\ session = [c \in Sessions |-> Quiet]

TransactionsTypeOK == StoreTypeOK /\ session \in [Sessions -> Session]
-----------------------------------------------------------------------------
Stands(c, pc) == session[c].pc = pc

Locked(v) == \E c \in Sessions : Stands(c, "commit") /\ session[c].visit = v

\* A method other than add_or_get is called with the id of an existing row.
Call(c, v, op) ==
  /\ Stands(c, "idle")
  /\ op.method = "add_or_get" \/ Exists(v)
  /\ session' = [session EXCEPT ![c] = [Quiet EXCEPT !.pc = "begin", !.visit = v,
                                                     !.op = op, !.attempt = 1]]
  /\ UNCHANGED job

\* The first statement takes the snapshot of the transaction.
Begin(c) ==
  /\ Stands(c, "begin")
  /\ session' = [session EXCEPT ![c].pc = "statement",
                                ![c].snap = job[session[c].visit]]
  /\ UNCHANGED job

Concluded(c, answer) ==
  [Quiet EXCEPT !.pc = "returned", !.visit = session[c].visit, !.answer = answer,
                !.applied = session[c].applied, !.disturbed = session[c].disturbed]

\* Mutant: failed attempts are not counted.
RetriedForever(c) ==
  [session[c] EXCEPT !.pc = "begin", !.snap = NoRow, !.overtaken = FALSE]

\* The attempt is rolled back, and made again unless it was the last.
Retried(c) ==
  IF session[c].attempt < MaxAttempts
    THEN [session[c] EXCEPT !.pc = "begin", !.snap = NoRow, !.overtaken = FALSE,
                            !.attempt = @ + 1]
    ELSE Concluded(c, "failed")

\* Mutant: the isolation level does not notice a concurrent commit.
NeverLoses(c) == FALSE

\* To write a row that has changed since the snapshot is a serialization failure.
LosesRace(c) ==
  /\ session[c].overtaken
  /\ \/ session[c].op.method = "add_or_get"
     \/ Writes(session[c].op, session[c].snap)

SerializationFailure(c) ==
  /\ Stands(c, "statement")
  /\ LosesRace(c)
  /\ session' = [session EXCEPT ![c] = Retried(c)]
  /\ UNCHANGED job

\* The statement finds a row to write, waits for its lock and takes it.
Write(c) ==
  /\ Stands(c, "statement")
  /\ ~LosesRace(c)
  /\ Writes(session[c].op, session[c].snap)
  /\ ~Locked(session[c].visit)
  /\ session' = [session EXCEPT ![c].pc = "commit"]
  /\ UNCHANGED job

\* The statement finds nothing to write; a SELECT in the snapshot answers.
Read(c) ==
  /\ Stands(c, "statement")
  /\ ~LosesRace(c)
  /\ ~Writes(session[c].op, session[c].snap)
  /\ session' = [session EXCEPT ![c] =
                   Concluded(c, Answered(session[c].op, session[c].snap))]
  /\ UNCHANGED job

\* The commit reaches the disk; what it means to the other sessions.
Overtaken(d, v) ==
  IF session[d].visit = v
    THEN [session[d] EXCEPT !.overtaken = Stands(d, "statement"),
                            !.disturbed = session[d].applied]
    ELSE session[d]

Committed(c, next) ==
  LET v == session[c].visit IN
    /\ job' = [job EXCEPT ![v] = Written(session[c].op, session[c].snap)]
    /\ session' = [d \in Sessions |-> IF d = c THEN next ELSE Overtaken(d, v)]

Commit(c) ==
  /\ Stands(c, "commit")
  /\ Committed(c, Concluded(c, Written(session[c].op, session[c].snap).phase))

\* The connection is lost before the commit is acknowledged.
CommitUnacknowledged(c) ==
  /\ Stands(c, "commit")
  /\ Committed(c, [Retried(c) EXCEPT !.applied = TRUE, !.disturbed = FALSE])

\* The connection is lost before the commit: nothing has happened.
ConnectionLost(c) ==
  /\ session[c].pc \in {"statement", "commit"}
  /\ session' = [session EXCEPT ![c] = Retried(c)]
  /\ UNCHANGED job

Return(c) ==
  /\ Stands(c, "returned")
  /\ session' = [session EXCEPT ![c] = Quiet]
  /\ UNCHANGED job
-----------------------------------------------------------------------------
Continues(c) ==
  Begin(c) \/ SerializationFailure(c) \/ Write(c) \/ Read(c) \/ Commit(c) \/ Return(c)

TransactionsNext ==
  \E c \in Sessions :
    \/ \E v \in Visits, op \in Ops : Call(c, v, op)
    \/ Continues(c)
    \/ CommitUnacknowledged(c)
    \/ ConnectionLost(c)

TransactionsSpec == TransactionsInit /\ [][TransactionsNext]_tvars

\* PostgreSQL and asyncio go on with every statement that can go on, and the lock
\* of a row is given to who waits for it before others take it again and again;
\* connections need not fail and callers need not call.
TransactionsFairSpec ==
  TransactionsSpec /\ \A c \in Sessions : WF_tvars(Continues(c)) /\ SF_tvars(Write(c))

(* However the attempts of concurrent calls interleave, fail and are made    *)
(* again, the table changes as if each committed attempt were one atomic     *)
(* transaction on the current row: no session overwrites what it has not     *)
(* read, and no final row is lost to a concurrent writer.                    *)
AtomicTransactions == StoreSpec

(* A call that is made again because the acknowledgement of its commit was   *)
(* lost answers what the lost answer said, unless another session has since  *)
(* written the row: it does not take its own effect for a conflict.          *)
RepeatedCallsAgree ==
  \A c \in Sessions :
    Stands(c, "returned") /\ session[c].applied /\ ~session[c].disturbed =>
      session[c].answer \in {job[session[c].visit].phase, "failed"}

(* Every call returns, though rows are locked and races are lost: attempts   *)
(* are bounded, and whoever holds the lock of a row commits or fails.        *)
CallsReturn == \A c \in Sessions : ~Stands(c, "idle") ~> Stands(c, "idle")
=============================================================================
