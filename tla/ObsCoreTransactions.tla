------------------------- MODULE ObsCoreTransactions -------------------------
(***************************************************************************)
(* upsert and upsert_many of ObsCoreStore (src/obsforge/storage/obscore.py)*)
(* below their transactions.  One INSERT ... ON CONFLICT DO UPDATE locks   *)
(* the rows of a batch one after the other, in the order of the batch, and *)
(* the commit publishes and releases all of them.  Writers of the same     *)
(* rows wait for each other, may deadlock, and fail when a row has been    *)
(* committed since their snapshot; retry_async_transaction then starts the *)
(* same batch again, up to MaxAttempts times.                              *)
(***************************************************************************)
EXTENDS ObsCoreTable

CONSTANTS Sessions,    \* the worker runs: each has a session of its own
          Inputs,      \* the batches they call with
          MaxAttempts, \* max_tries of retry_async_transaction
          NoBatch, Unanswered

ASSUME TransactionsAssumption ==
  /\ Inputs \subseteq Batches
  /\ MaxAttempts \in Nat \ {0}
  /\ NoBatch \notin Batches
  /\ Unanswered \notin {"rows", "duplicates", "failed"}

VARIABLES records, session

tvars == <<records, session>>

\* taken is how many rows of the batch the statement has locked and written,
\* overtaken the rows that others have committed since the snapshot.
Session == [pc        : {"idle", "begin", "insert", "returned"},
            batch     : Batches \cup {NoBatch},
            taken     : 0 .. MaxBatch,
            overtaken : SUBSET ObsIds,
            attempt   : 0 .. MaxAttempts,
            answer    : {"rows", "duplicates", "failed", Unanswered}]

Quiet == [pc |-> "idle", batch |-> NoBatch, taken |-> 0, overtaken |-> {},
          attempt |-> 0, answer |-> Unanswered]

TransactionsInit ==
  records = EmptyTable /\ session = [c \in Sessions |-> Quiet]

TransactionsTypeOK == records \in Table /\ session \in [Sessions -> Session]
-----------------------------------------------------------------------------
Stands(c, pc) == session[c].pc = pc

\* The rows a session has locked, and the one it is about to lock.
Held(c) == {session[c].batch[i].obs_id : i \in 1 .. session[c].taken}

HasMore(c) == Stands(c, "insert") /\ session[c].taken < Len(session[c].batch)

Wanted(c) == session[c].batch[session[c].taken + 1].obs_id

WaitsFor(c, d) == c # d /\ HasMore(c) /\ Wanted(c) \in Held(d)

IsBlocked(c) == \E d \in Sessions : WaitsFor(c, d)

\* A ring of sessions, each of which waits for the next.
IsDeadlocked(c) ==
  \E ring \in SUBSET Sessions :
    /\ c \in ring
    /\ \A d \in ring : /\ \E e \in ring : WaitsFor(d, e)
                       /\ \E e \in ring : WaitsFor(e, d)
-----------------------------------------------------------------------------
Call(c, batch) ==
  /\ Stands(c, "idle")
  /\ session' = [session EXCEPT ![c] = [Quiet EXCEPT !.pc = "begin", !.batch = batch,
                                                     !.attempt = 1]]
  /\ UNCHANGED records

Concluded(c, answer) ==
  [Quiet EXCEPT !.pc = "returned", !.batch = session[c].batch, !.answer = answer]

\* The early returns: nothing to write, or a batch that names a row twice.
AnswerEarly(c) ==
  /\ Stands(c, "begin")
  /\ \/ /\ session[c].batch = <<>>
        /\ session' = [session EXCEPT ![c] = Concluded(c, "rows")]
     \/ /\ HasDuplicates(session[c].batch)
        /\ session' = [session EXCEPT ![c] = Concluded(c, "duplicates")]
  /\ UNCHANGED records

\* The statement takes the snapshot of the transaction.
Begin(c) ==
  /\ Stands(c, "begin")
  /\ session[c].batch # <<>>
  /\ ~HasDuplicates(session[c].batch)
  /\ session' = [session EXCEPT ![c].pc = "insert"]
  /\ UNCHANGED records

\* The next row is free and no younger than the snapshot: lock and write it.
Take(c) ==
  /\ HasMore(c)
  /\ ~IsBlocked(c)
  /\ Wanted(c) \notin session[c].overtaken
  /\ session' = [session EXCEPT ![c].taken = @ + 1]
  /\ UNCHANGED records

\* Mutant: failed attempts are not counted.
RetriedForever(c) ==
  [session[c] EXCEPT !.pc = "begin", !.taken = 0, !.overtaken = {}]

\* The attempt is rolled back, and made again unless it was the last.
Retried(c) ==
  IF session[c].attempt < MaxAttempts
    THEN [session[c] EXCEPT !.pc = "begin", !.taken = 0, !.overtaken = {},
                            !.attempt = @ + 1]
    ELSE Concluded(c, "failed")

RollBack(c) ==
  /\ session' = [session EXCEPT ![c] = Retried(c)]
  /\ UNCHANGED records

SerializationFailure(c) ==
  HasMore(c) /\ ~IsBlocked(c) /\ Wanted(c) \in session[c].overtaken /\ RollBack(c)

DeadlockFailure(c) == IsDeadlocked(c) /\ RollBack(c)

\* A row of the batch is refused or the connection is lost before the commit.
AttemptFails(c) == Stands(c, "insert") /\ RollBack(c)

\* Mutant: the statement publishes the rows it has written so far.
HasWrittenSome(c) == Stands(c, "insert") /\ session[c].taken > 0

HasWrittenAll(c) == Stands(c, "insert") /\ session[c].taken = Len(session[c].batch)

\* The commit publishes the rows written; what it means to the other sessions.
Committed(c, next) ==
  LET written == SubSeq(session[c].batch, 1, session[c].taken) IN
    /\ records' = Upserted(records, written)
    /\ session' = [d \in Sessions |->
         IF d = c THEN next
         ELSE IF Stands(d, "insert")
           THEN [session[d] EXCEPT !.overtaken = @ \cup IdsOf(written)]
           ELSE session[d]]

Commit(c) == HasWrittenAll(c) /\ Committed(c, Concluded(c, "rows"))

\* The connection is lost before the commit is acknowledged.
CommitUnacknowledged(c) == HasWrittenAll(c) /\ Committed(c, Retried(c))

Return(c) ==
  /\ Stands(c, "returned")
  /\ session' = [session EXCEPT ![c] = Quiet]
  /\ UNCHANGED records
-----------------------------------------------------------------------------
Advances(c) == Take(c) \/ SerializationFailure(c)

Continues(c) ==
  \/ AnswerEarly(c)
  \/ Begin(c)
  \/ Advances(c)
  \/ DeadlockFailure(c)
  \/ Commit(c)
  \/ Return(c)

TransactionsNext ==
  \E c \in Sessions :
    \/ \E batch \in Inputs : Call(c, batch)
    \/ Continues(c)
    \/ AttemptFails(c)
    \/ CommitUnacknowledged(c)

TransactionsSpec == TransactionsInit /\ [][TransactionsNext]_tvars

\* PostgreSQL goes on with every statement that can go on, breaks deadlocks, and
\* gives the lock of a row to who waits for it before others take it again and
\* again; nothing need fail and nobody need call.
TransactionsFairSpec ==
  TransactionsSpec /\ \A c \in Sessions : WF_tvars(Continues(c)) /\ SF_tvars(Advances(c))

Service == INSTANCE ObsCoreService WITH
  call <- [c \in Sessions |-> [batch  |-> session[c].batch,
                               answer |-> session[c].answer]]

(* However the row locks, conflicts, deadlocks and attempts of concurrent    *)
(* calls interleave, readers see every batch whole or not at all, a caller   *)
(* that is answered has its batch in the table at that instant, and one that *)
(* is refused has written nothing.                                           *)
AtomicUpserts == Service!Spec

(* Every call returns, even when batches that name the same rows in opposite *)
(* orders deadlock.                                                          *)
UpsertsReturn == \A c \in Sessions : ~Stands(c, "idle") ~> Stands(c, "idle")
=============================================================================
