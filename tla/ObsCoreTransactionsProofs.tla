---------------------- MODULE ObsCoreTransactionsProofs ----------------------
(***************************************************************************)
(* The transactions of ObsCoreStore implement the service, for any         *)
(* sessions, batches, contents and number of attempts.                     *)
(***************************************************************************)
EXTENDS ObsCoreTransactions, TLAPS

\* A statement runs only for a batch that is not empty and names no row twice;
\* a session without an answer is idle or has its batch still to write.
SessionInv(s) ==
  /\ s.pc = "idle" => s = Quiet
  /\ s.pc # "idle" => s.batch \in Batches
  /\ s.pc = "returned" <=> s.answer # Unanswered
  /\ s.pc = "insert" => s.batch # <<>> /\ ~HasDuplicates(s.batch)

IInv == session \in [Sessions -> Session] /\ \A c \in Sessions : SessionInv(session[c])

\* What the service knows of a session.
Seen(s) == [batch |-> s.batch, answer |-> s.answer]

\* The whole of a batch is the batch.
LEMMA WholeBatch ==
  ASSUME NEW batch \in Batches
  PROVE  /\ SubSeq(batch, 1, Len(batch)) = batch
         /\ Len(batch) \in 0 .. MaxBatch
         /\ DOMAIN batch = 1 .. Len(batch)
<1>1. PICK n \in 0 .. MaxBatch : batch \in [1 .. n -> ObsCoreUpsert]
  BY DEF Batches
<1>2. n \in Nat
  BY <1>1, TableAssumption
<1>3. batch \in Seq(ObsCoreUpsert) /\ Len(batch) = n
  BY <1>1, <1>2
<1>4. SubSeq(batch, 1, Len(batch)) = batch
  BY <1>3, <1>2, <1>1
<1> QED
  BY <1>1, <1>3, <1>4

LEMMA QuietIsSession == Quiet \in Session
  BY TransactionsAssumption, TableAssumption DEF Quiet, Session

\* A call that ends keeps its batch and nothing else.
LEMMA ConcludedSession ==
  ASSUME NEW c \in Sessions, session[c].batch \in Batches,
         NEW answer \in {"rows", "duplicates", "failed"}
  PROVE  /\ Concluded(c, answer) \in Session
         /\ SessionInv(Concluded(c, answer))
         /\ Seen(Concluded(c, answer)) = [batch |-> session[c].batch, answer |-> answer]
<1>1. Concluded(c, answer) \in Session
  BY QuietIsSession DEF Concluded, Session
<1>2. /\ Concluded(c, answer).pc = "returned"
      /\ Concluded(c, answer).batch = session[c].batch
      /\ Concluded(c, answer).answer = answer
  BY QuietIsSession DEF Concluded, Session
<1>3. SessionInv(Concluded(c, answer))
  BY <1>2, TransactionsAssumption DEF SessionInv
<1> QED
  BY <1>1, <1>2, <1>3 DEF Seen

\* A rolled back attempt leaves the session with its batch, and with an answer
\* only if it was the last.
LEMMA RetriedSession ==
  ASSUME NEW c \in Sessions, session[c] \in Session, SessionInv(session[c]),
         session[c].pc = "insert"
  PROVE  /\ Retried(c) \in Session
         /\ SessionInv(Retried(c))
         /\ Retried(c).batch = session[c].batch
         /\ Retried(c).answer \in {"failed", Unanswered}
<1>1. CASE session[c].attempt < MaxAttempts
  <2>1. session[c].attempt + 1 \in 0 .. MaxAttempts
    BY <1>1, TransactionsAssumption DEF Session
  <2>2. 0 \in 0 .. MaxBatch
    BY TableAssumption
  <2>3. Retried(c) \in Session
    BY <1>1, <2>1, <2>2 DEF Retried, Session
  <2>4. /\ Retried(c).pc = "begin"
        /\ Retried(c).batch = session[c].batch
        /\ Retried(c).answer = session[c].answer
    BY <1>1 DEF Retried, Session
  <2> QED
    BY <2>3, <2>4 DEF SessionInv
<1>2. CASE ~(session[c].attempt < MaxAttempts)
  BY <1>2, ConcludedSession DEF Retried, SessionInv, Seen
<1> QED
  BY <1>1, <1>2

\* Changing one session keeps the invariant if the new one has it.
LEMMA OneSession ==
  ASSUME IInv, NEW c \in Sessions, NEW s, s \in Session, SessionInv(s),
         session' = [session EXCEPT ![c] = s]
  PROVE  IInv'
  BY DEF IInv

\* Every step keeps the invariant.
LEMMA InductiveStep == IInv /\ [TransactionsNext]_tvars => IInv'
<1> SUFFICES ASSUME IInv, [TransactionsNext]_tvars PROVE IInv'
  OBVIOUS
<1>1. CASE UNCHANGED tvars
  BY <1>1 DEF tvars, IInv
<1>2. ASSUME NEW c \in Sessions, NEW batch \in Inputs, Call(c, batch) PROVE IInv'
  <2> DEFINE s == [Quiet EXCEPT !.pc = "begin", !.batch = batch, !.attempt = 1]
  <2>1. session' = [session EXCEPT ![c] = s]
    BY <1>2 DEF Call
  <2>2. 1 \in 0 .. MaxAttempts /\ batch \in Batches \cup {NoBatch}
    BY TransactionsAssumption
  <2>3. s \in Session /\ s.pc = "begin" /\ s.batch = batch
    BY QuietIsSession, <2>2 DEF Session
  <2>4. s.answer = Unanswered
    BY QuietIsSession DEF Session, Quiet
  <2>5. SessionInv(s)
    BY <2>3, <2>4, TransactionsAssumption DEF SessionInv
  <2> QED
    BY <2>1, <2>3, <2>5, OneSession
<1>3. ASSUME NEW c \in Sessions, AnswerEarly(c) PROVE IInv'
  <2>1. session[c] \in Session /\ session[c].batch \in Batches
    BY <1>3 DEF IInv, SessionInv, AnswerEarly, Stands
  <2> QED
    BY <1>3, <2>1, ConcludedSession, OneSession DEF AnswerEarly
<1>4. ASSUME NEW c \in Sessions, Begin(c) PROVE IInv'
  <2> DEFINE s == [session[c] EXCEPT !.pc = "insert"]
  <2>2. s \in Session /\ SessionInv(s) /\ session' = [session EXCEPT ![c] = s]
    BY <1>4 DEF IInv, SessionInv, Begin, Stands, Session
  <2> QED
    BY <2>2, OneSession
<1>5. ASSUME NEW c \in Sessions, Take(c) PROVE IInv'
  <2> DEFINE s == [session[c] EXCEPT !.taken = @ + 1]
  <2>2. session[c] \in Session /\ SessionInv(session[c]) /\ session[c].pc = "insert"
    BY <1>5 DEF IInv, Take, HasMore, Stands
  <2>3. session[c].taken + 1 \in 0 .. MaxBatch
    BY <1>5, <2>2, WholeBatch, TableAssumption DEF SessionInv, Take, HasMore, Session
  <2>4. s \in Session /\ SessionInv(s) /\ session' = [session EXCEPT ![c] = s]
    BY <1>5, <2>2, <2>3 DEF SessionInv, Take, Session
  <2> QED
    BY <2>4, OneSession
<1>6. ASSUME NEW c \in Sessions, Stands(c, "insert"), RollBack(c) PROVE IInv'
  BY <1>6, RetriedSession, OneSession DEF IInv, RollBack, Stands
<1>7. ASSUME NEW c \in Sessions, Return(c) PROVE IInv'
  <2>1. SessionInv(Quiet)
    BY DEF SessionInv, Quiet
  <2> QED
    BY <1>7, <2>1, QuietIsSession, OneSession DEF Return
<1>8. ASSUME NEW c \in Sessions, NEW next, next \in Session, SessionInv(next),
             HasWrittenAll(c), Committed(c, next)
      PROVE  IInv'
  <2>1. session[c].batch \in Batches /\ SubSeq(session[c].batch, 1, session[c].taken)
                                          = session[c].batch
    BY <1>8, WholeBatch DEF IInv, SessionInv, HasWrittenAll, Stands
  <2>2. IdsOf(session[c].batch) \subseteq ObsIds
    BY <2>1 DEF IdsOf, Batches, ObsCoreUpsert
  <2>3. ASSUME NEW d \in Sessions
        PROVE  session'[d] \in Session /\ SessionInv(session'[d])
    <3>1. CASE d = c
      BY <3>1, <1>8 DEF Committed
    <3>2. CASE d # c /\ Stands(d, "insert")
      <4>1. session'[d] = [session[d] EXCEPT !.overtaken =
                             session[d].overtaken \cup IdsOf(session[c].batch)]
        BY <3>2, <1>8, <2>1 DEF Committed
      <4> QED
        BY <3>2, <4>1, <2>2 DEF IInv, Session, SessionInv, Stands
    <3>3. CASE d # c /\ ~Stands(d, "insert")
      BY <3>3, <1>8 DEF Committed, IInv
    <3> QED
      BY <3>1, <3>2, <3>3
  <2>4. session' \in [Sessions -> Session]
    BY <2>3, <1>8 DEF Committed
  <2> QED
    BY <2>3, <2>4 DEF IInv
<1>9. ASSUME NEW c \in Sessions, Commit(c) \/ CommitUnacknowledged(c) PROVE IInv'
  <2>1. session[c] \in Session /\ SessionInv(session[c]) /\ session[c].pc = "insert"
        /\ session[c].batch \in Batches
    BY <1>9 DEF IInv, SessionInv, Commit, CommitUnacknowledged, HasWrittenAll, Stands
  <2>2. CASE Commit(c)
    BY <2>1, <2>2, ConcludedSession, <1>8 DEF Commit
  <2>3. CASE CommitUnacknowledged(c)
    BY <2>1, <2>3, RetriedSession, <1>8 DEF CommitUnacknowledged
  <2> QED
    BY <1>9, <2>2, <2>3
<1>10. ASSUME NEW c \in Sessions,
              SerializationFailure(c) \/ DeadlockFailure(c) \/ AttemptFails(c)
       PROVE  Stands(c, "insert") /\ RollBack(c)
  BY <1>10 DEF SerializationFailure, DeadlockFailure, AttemptFails, HasMore,
               IsDeadlocked, WaitsFor
<1> QED
  BY <1>1, <1>2, <1>3, <1>4, <1>5, <1>6, <1>7, <1>9, <1>10
  DEF TransactionsNext, Continues, Advances

LEMMA InitialStep == TransactionsInit => IInv
<1> SUFFICES ASSUME TransactionsInit PROVE IInv
  OBVIOUS
<1>1. SessionInv(Quiet)
  BY DEF SessionInv, Quiet
<1> QED
  BY <1>1, QuietIsSession DEF TransactionsInit, IInv
-----------------------------------------------------------------------------
\* The sessions as the service sees them.
Calls == [c \in Sessions |-> Seen(session[c])]

\* The actions of the service, on the sessions.
LEMMA AnswerSeen ==
  ASSUME NEW c \in Sessions, NEW answer, Service!IsOpen(c),
         \/ answer = "rows" /\ session[c].batch = <<>>
         \/ answer = "duplicates" /\ HasDuplicates(session[c].batch)
         \/ answer = "failed" /\ session[c].batch # <<>> /\ ~HasDuplicates(session[c].batch),
         Calls' = [Calls EXCEPT ![c].answer = answer], UNCHANGED records
  PROVE  Service!Answer(c, answer)
<1>1. Calls[c].batch = session[c].batch
  BY DEF Calls, Seen
<1>2. Service!HasDuplicates(session[c].batch) <=> HasDuplicates(session[c].batch)
  BY DEF Service!HasDuplicates, HasDuplicates
<1>3. Service!Answer(c, answer) <=>
        /\ Service!IsOpen(c)
        /\ \/ answer = "rows" /\ Calls[c].batch = <<>>
           \/ answer = "duplicates" /\ Service!HasDuplicates(Calls[c].batch)
           \/ answer = "failed" /\ Calls[c].batch # <<>>
                                /\ ~Service!HasDuplicates(Calls[c].batch)
        /\ Calls' = [Calls EXCEPT ![c].answer = answer]
        /\ UNCHANGED records
  BY Zenon DEF Service!Answer, Calls, Seen
<1> QED
  BY <1>1, <1>2, <1>3

LEMMA ApplySeen ==
  ASSUME NEW c \in Sessions, NEW answer \in {"rows", "failed", Unanswered}, Service!IsOpen(c),
         session[c].batch # <<>>, ~HasDuplicates(session[c].batch),
         records' = Upserted(records, session[c].batch),
         Calls' = [Calls EXCEPT ![c].answer = answer]
  PROVE  Service!Apply(c, answer)
<1>1. Calls[c].batch = session[c].batch
  BY DEF Calls, Seen
<1>2. Service!HasDuplicates(session[c].batch) <=> HasDuplicates(session[c].batch)
  BY DEF Service!HasDuplicates, HasDuplicates
<1>3. Service!Upserted(records, session[c].batch) = Upserted(records, session[c].batch)
  BY DEF Service!Upserted, Service!IdsOf, Service!ContentIn, Upserted, IdsOf, ContentIn
<1>4. Service!Apply(c, answer) <=>
        /\ Service!IsOpen(c)
        /\ Calls[c].batch # <<>>
        /\ ~Service!HasDuplicates(Calls[c].batch)
        /\ answer \in {"rows", "failed", Unanswered}
        /\ records' = Service!Upserted(records, Calls[c].batch)
        /\ Calls' = [Calls EXCEPT ![c].answer = answer]
  BY Zenon DEF Service!Apply, Calls, Seen
<1> QED
  BY <1>1, <1>2, <1>3, <1>4

\* The service sees one session change.
LEMMA SeenStep ==
  ASSUME session \in [Sessions -> Session], NEW c \in Sessions, NEW s,
         session' = [session EXCEPT ![c] = s]
  PROVE  Calls' = [Calls EXCEPT ![c] = Seen(s)]
  BY DEF Calls

LEMMA SeenAnswer ==
  ASSUME NEW c \in Sessions, NEW answer
  PROVE  [batch |-> session[c].batch, answer |-> answer] = [Calls[c] EXCEPT !.answer = answer]
<1>1. Calls[c] = [batch |-> session[c].batch, answer |-> session[c].answer]
  BY DEF Calls, Seen
<1> QED
  BY <1>1

\* A session that keeps its batch gives an answer.
LEMMA AnswerStep ==
  ASSUME session \in [Sessions -> Session], NEW c \in Sessions, NEW s, NEW answer,
         session' = [session EXCEPT ![c] = s],
         s.batch = session[c].batch, s.answer = answer
  PROVE  Calls' = [Calls EXCEPT ![c].answer = answer]
<1>1. Seen(s) = [batch |-> session[c].batch, answer |-> answer]
  BY DEF Seen
<1>2. Seen(s) = [Calls[c] EXCEPT !.answer = answer]
  BY <1>1, SeenAnswer
<1>3. Calls' = [Calls EXCEPT ![c] = Seen(s)]
  BY SeenStep
<1> QED
  BY <1>2, <1>3

\* A call that is open for the service, with a batch the statement may write.
LEMMA SeenWriter ==
  ASSUME IInv, NEW c \in Sessions, Stands(c, "insert")
  PROVE  /\ session[c] \in Session /\ SessionInv(session[c])
         /\ Calls[c] = [batch |-> session[c].batch, answer |-> Unanswered]
         /\ session[c].batch \in Batches /\ session[c].batch # NoBatch
         /\ session[c].batch # <<>> /\ ~HasDuplicates(session[c].batch)
<1>1. session[c] \in Session /\ SessionInv(session[c])
  BY DEF IInv
<1>2. session[c].answer = Unanswered
  BY <1>1 DEF SessionInv, Stands
<1> QED
  BY <1>1, <1>2, TransactionsAssumption DEF SessionInv, Stands, Calls, Seen

\* A rolled back attempt is a failed call, or nothing the service can see.
LEMMA RollBackSeen ==
  ASSUME IInv, NEW c \in Sessions, Stands(c, "insert"), RollBack(c)
  PROVE  Service!Answer(c, "failed") \/ UNCHANGED <<records, Calls>>
<1>1. session[c] \in Session /\ SessionInv(session[c]) /\ session[c].pc = "insert"
  BY DEF IInv, Stands
<1>2. Retried(c).batch = session[c].batch /\ Retried(c).answer \in {"failed", Unanswered}
  BY <1>1, RetriedSession
<1>3. Calls' = [Calls EXCEPT ![c] = Seen(Retried(c))] /\ UNCHANGED records
  BY SeenStep DEF IInv, RollBack
<1>4. CASE Retried(c).answer = "failed"
  <2>1. Calls' = [Calls EXCEPT ![c].answer = "failed"]
    BY <1>2, <1>4, AnswerStep DEF IInv, RollBack
  <2>2. Service!IsOpen(c)
    BY SeenWriter DEF Service!IsOpen, Calls, Seen
  <2> QED
    BY <2>1, <2>2, <1>3, SeenWriter, AnswerSeen
<1>5. CASE Retried(c).answer = Unanswered
  <2>1. Seen(Retried(c)) = Calls[c]
    BY <1>2, <1>5, SeenWriter DEF Seen
  <2> QED
    BY <2>1, <1>3 DEF Calls
<1> QED
  BY <1>2, <1>4, <1>5

\* A commit writes the whole batch at once.
LEMMA CommittedSeen ==
  ASSUME IInv, NEW c \in Sessions, NEW next, HasWrittenAll(c), Committed(c, next),
         next.batch = session[c].batch, next.answer \in {"rows", "failed", Unanswered}
  PROVE  Service!Apply(c, next.answer)
<1>1. Stands(c, "insert")
  BY DEF HasWrittenAll
<1>2. SubSeq(session[c].batch, 1, session[c].taken) = session[c].batch
  BY <1>1, SeenWriter, WholeBatch DEF HasWrittenAll
<1>3. records' = Upserted(records, session[c].batch)
  BY <1>2 DEF Committed
<1>4. Calls' = [Calls EXCEPT ![c].answer = next.answer]
  <2>1. ASSUME NEW d \in Sessions, d # c PROVE Seen(session'[d]) = Seen(session[d])
    BY <2>1 DEF Committed, Seen, IInv, Session
  <2>2. Seen(session'[c]) = [batch |-> session[c].batch, answer |-> next.answer]
    BY DEF Committed, Seen
  <2>3. Calls' = [Calls EXCEPT ![c] = [batch |-> session[c].batch, answer |-> next.answer]]
    BY <2>1, <2>2 DEF Calls
  <2>4. [batch |-> session[c].batch, answer |-> next.answer]
          = [Calls[c] EXCEPT !.answer = next.answer]
    BY SeenAnswer
  <2> QED
    BY <2>3, <2>4
<1>5. Service!IsOpen(c)
  BY <1>1, SeenWriter DEF Service!IsOpen, Calls, Seen
<1> QED
  BY <1>1, <1>3, <1>4, <1>5, SeenWriter, ApplySeen

\* Every step is a step of the service or invisible to it.
LEMMA RefinedStep ==
  IInv /\ [TransactionsNext]_tvars => [Service!Next]_<<records, Calls>>
<1> SUFFICES ASSUME IInv, [TransactionsNext]_tvars
             PROVE  [Service!Next]_<<records, Calls>>
  OBVIOUS
<1>1. CASE UNCHANGED tvars
  BY <1>1 DEF tvars, Calls
<1>2. ASSUME NEW c \in Sessions, NEW batch \in Inputs, Call(c, batch)
      PROVE  Service!Next
  <2>1. session[c] = Quiet
    BY <1>2 DEF IInv, SessionInv, Call, Stands
  <2>2. Calls[c] = Service!NoCall
    BY <2>1 DEF Calls, Seen, Quiet, Service!NoCall
  <2> DEFINE s == [Quiet EXCEPT !.pc = "begin", !.batch = batch, !.attempt = 1]
  <2>3. Seen(s) = [batch |-> batch, answer |-> Unanswered]
    BY QuietIsSession DEF Seen, Session, Quiet
  <2>4. Calls' = [Calls EXCEPT ![c] = [batch |-> batch, answer |-> Unanswered]]
    BY <1>2, <2>3, SeenStep DEF Call, IInv
  <2>5. Service!Call(c, batch)
    BY <1>2, <2>2, <2>4 DEF Service!Call, Call, Calls, Seen
  <2> QED
    BY <2>5, TransactionsAssumption
    DEF Service!Next, Service!Batches, Service!ObsCoreUpsert, Batches, ObsCoreUpsert
<1>3. ASSUME NEW c \in Sessions, AnswerEarly(c)
      PROVE  Service!Answer(c, "rows") \/ Service!Answer(c, "duplicates")
  <2>1. /\ session[c].batch \in Batches /\ session[c].batch # NoBatch
        /\ session[c].answer = Unanswered
    BY <1>3, TransactionsAssumption DEF IInv, SessionInv, AnswerEarly, Stands
  <2>2. ASSUME NEW answer \in {"rows", "duplicates"},
               session' = [session EXCEPT ![c] = Concluded(c, answer)]
        PROVE  Calls' = [Calls EXCEPT ![c].answer = answer]
    <3>1. /\ Concluded(c, answer).batch = session[c].batch
          /\ Concluded(c, answer).answer = answer
      BY <2>1, ConcludedSession DEF Seen
    <3>2. CASE answer = "rows"
      BY <2>2, <3>1, <3>2, AnswerStep DEF IInv
    <3>3. CASE answer = "duplicates"
      BY <2>2, <3>1, <3>3, AnswerStep DEF IInv
    <3> QED
      BY <3>2, <3>3
  <2>3. Service!IsOpen(c)
    BY <2>1 DEF Service!IsOpen, Calls, Seen
  <2> QED
    BY <1>3, <2>2, <2>3, AnswerSeen DEF AnswerEarly
<1>4. ASSUME NEW c \in Sessions, Begin(c) \/ Take(c)
      PROVE  UNCHANGED <<records, Calls>>
  <2>1. PICK s : /\ session' = [session EXCEPT ![c] = s] /\ UNCHANGED records
                 /\ s.batch = session[c].batch /\ s.answer = session[c].answer
    BY <1>4 DEF Begin, Take, IInv, Session
  <2>2. Calls' = [Calls EXCEPT ![c] = Calls[c]]
    BY <2>1, SeenStep DEF Calls, Seen, IInv
  <2> QED
    BY <2>1, <2>2 DEF Calls
<1>5. ASSUME NEW c \in Sessions,
             SerializationFailure(c) \/ DeadlockFailure(c) \/ AttemptFails(c)
      PROVE  Service!Answer(c, "failed") \/ UNCHANGED <<records, Calls>>
  BY <1>5, RollBackSeen DEF SerializationFailure, DeadlockFailure, AttemptFails, HasMore,
                            IsDeadlocked, WaitsFor
<1>6. ASSUME NEW c \in Sessions, Commit(c) PROVE Service!Apply(c, "rows")
  <2>1. session[c].batch \in Batches
    BY <1>6, SeenWriter DEF Commit, HasWrittenAll
  <2>2. Concluded(c, "rows").batch = session[c].batch /\ Concluded(c, "rows").answer = "rows"
    BY <2>1, ConcludedSession DEF Seen
  <2> QED
    BY <1>6, <2>2, CommittedSeen DEF Commit
<1>7. ASSUME NEW c \in Sessions, CommitUnacknowledged(c)
      PROVE  \E answer \in Service!Answers \cup {Unanswered} : Service!Apply(c, answer)
  <2>1. session[c] \in Session /\ SessionInv(session[c]) /\ session[c].pc = "insert"
    BY <1>7 DEF IInv, CommitUnacknowledged, HasWrittenAll, Stands
  <2>2. Retried(c).batch = session[c].batch /\ Retried(c).answer \in {"failed", Unanswered}
    BY <2>1, RetriedSession
  <2>3. PICK next : next = Retried(c)
    OBVIOUS
  <2>4. PICK answer : answer = next.answer
    OBVIOUS
  <2>5. answer \in {"rows", "failed", Unanswered} /\ next.batch = session[c].batch
    BY <2>2, <2>3, <2>4
  <2>6. HasWrittenAll(c) /\ Committed(c, next)
    BY <1>7, <2>3 DEF CommitUnacknowledged, Committed
  <2>7. Service!Apply(c, answer)
    BY <2>4, <2>5, <2>6, CommittedSeen
  <2> QED
    BY <2>5, <2>7 DEF Service!Answers
<1>8. ASSUME NEW c \in Sessions, Return(c) PROVE Service!Return(c)
  <2>1. session[c].answer # Unanswered
    BY <1>8 DEF IInv, SessionInv, Return, Stands
  <2>2. Seen(Quiet) = Service!NoCall
    BY DEF Seen, Quiet, Service!NoCall
  <2>3. Calls' = [Calls EXCEPT ![c] = Service!NoCall]
    BY <1>8, <2>2, SeenStep DEF Return, IInv
  <2> QED
    BY <1>8, <2>1, <2>3 DEF Service!Return, Return, Calls, Seen
<1>9. /\ \A c \in Sessions : Service!Answer(c, "rows") \/ Service!Answer(c, "duplicates")
                              \/ Service!Answer(c, "failed") => Service!Next
      /\ \A c \in Sessions : Service!Apply(c, "rows") => Service!Next
      /\ \A c \in Sessions : Service!Return(c) => Service!Next
  BY DEF Service!Next, Service!Answers
<1>10. \A c \in Sessions :
         (\E answer \in Service!Answers \cup {Unanswered} : Service!Apply(c, answer))
           => Service!Next
  BY DEF Service!Next
<1> QED
  BY <1>1, <1>2, <1>3, <1>4, <1>5, <1>6, <1>7, <1>8, <1>9, <1>10
  DEF TransactionsNext, Continues, Advances

LEMMA RefinedInit == TransactionsInit => Service!Init
<1>1. Seen(Quiet) = Service!NoCall
  BY DEF Seen, Quiet, Service!NoCall
<1> QED
  BY <1>1 DEF TransactionsInit, Service!Init, Service!EmptyTable, EmptyTable, Seen

\* Whatever sessions, batches, contents and number of attempts: concurrent calls
\* of upsert_many, with row locks, deadlocks, conflicts and lost connections, are
\* calls that write their whole batch in one instant (storage/obscore.py).
THEOREM UpsertsAtomic == TransactionsSpec => AtomicUpserts
<1>1. TransactionsSpec => []IInv
  BY InitialStep, InductiveStep, PTL DEF TransactionsSpec
<1>2. IInv /\ [TransactionsNext]_tvars =>
        [Service!Next]_<<records, [c \in Sessions |-> [batch  |-> session[c].batch,
                                                       answer |-> session[c].answer]]>>
  BY RefinedStep DEF Calls, Seen
<1> QED
  BY <1>1, <1>2, RefinedInit, PTL DEF TransactionsSpec, AtomicUpserts, Service!Spec
=============================================================================
