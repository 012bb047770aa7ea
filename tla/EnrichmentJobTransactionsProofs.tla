------------------ MODULE EnrichmentJobTransactionsProofs -------------------
(***************************************************************************)
(* The methods of EnrichmentJobStore are atomic transactions, for any      *)
(* sessions, visits, arq ids, methods and number of attempts.              *)
(*                                                                         *)
(* The argument: a session that is about to commit is the only one for its *)
(* row and has not been overtaken, so what it has read is the current row; *)
(* its commit is then a transaction of the store on that row.              *)
(***************************************************************************)
EXTENDS EnrichmentJobTransactions, EnrichmentJobStoreProofs

\* A session in an attempt has an existing row to work on, or is to insert it, and
\* so has its snapshot; the snapshot is current unless the session has been
\* overtaken, and it is not, at the commit.
SessionInv(c) ==
  /\ session[c].pc \in {"begin", "statement", "commit"} =>
       /\ session[c].visit \in Visits /\ session[c].op \in Ops
       /\ session[c].op.method = "add_or_get" \/ Exists(session[c].visit)
  /\ session[c].pc \in {"statement", "commit"} =>
       /\ session[c].op.method = "add_or_get" \/ session[c].snap # NoRow
       /\ ~session[c].overtaken => session[c].snap = job[session[c].visit]
  /\ session[c].pc = "commit" =>
       ~session[c].overtaken /\ Writes(session[c].op, session[c].snap)

OneWriter ==
  \A c, d \in Sessions :
    /\ session[c].pc = "commit" /\ session[d].pc = "commit"
    /\ session[c].visit = session[d].visit
    => c = d

TInv == TransactionsTypeOK /\ (\A c \in Sessions : SessionInv(c)) /\ OneWriter
-----------------------------------------------------------------------------
LEMMA OpArguments ==
  ASSUME NEW op \in Ops
  PROVE  /\ op.method \in AllMethods
         /\ op.method = "set_arq_job_id" => op.with \in ArqIds
         /\ op.method = "mark_failed" => op.with \in ErrorCodes
<1>1. PICK method \in Methods : \E with \in Arguments(method) : op = Op(method, with)
  BY DEF Ops
<1>2. PICK with \in Arguments(method) : op = Op(method, with)
  BY <1>1
<1>3. op.method = method /\ op.with = with
  BY <1>2 DEF Op
<1>4. /\ method = "set_arq_job_id" => Arguments(method) = ArqIds
      /\ method = "mark_failed" => Arguments(method) \subseteq ErrorCodes
  BY TransactionsAssumption DEF Arguments
<1> QED
  BY <1>2, <1>3, <1>4, TransactionsAssumption

\* A write makes a row of a row, and only add_or_get makes one of nothing.
LEMMA WrittenRow ==
  ASSUME NEW op \in Ops, NEW row \in Row \cup {NoRow},
         op.method = "add_or_get" \/ row # NoRow
  PROVE  Written(op, row) \in Row
<1>1. CASE op.method = "add_or_get"
  <2>1. Written(op, row) = AddedOrGot(row)
    BY <1>1 DEF Written
  <2>2. AddedOrGot(row) \in Row
    BY NewRowColumns, RequeuedColumns DEF AddedOrGot
  <2> QED
    BY <2>1, <2>2
<1>2. CASE op.method # "add_or_get"
  <2>1. row \in Row
    BY <1>2
  <2>2. CASE op.method = "set_arq_job_id"
    BY <2>1, <2>2, OpArguments, QueuedAsColumns DEF Written
  <2>3. CASE op.method = "mark_queued"
    BY <2>1, <2>3, QueuedColumns DEF Written
  <2>4. CASE op.method = "mark_executing"
    BY <2>1, <2>4, ExecutingColumns DEF Written
  <2>5. CASE op.method = "mark_completed"
    BY <2>1, <2>5, AsCompletedColumns DEF Written
  <2>6. CASE op.method = "mark_failed"
    BY <2>1, <2>6, OpArguments, FailedColumns DEF Written
  <2> QED
    BY <1>2, <2>2, <2>3, <2>4, <2>5, <2>6, OpArguments DEF AllMethods
<1> QED
  BY <1>1, <1>2

(* The commit of an attempt that has read the current row is a transaction   *)
(* of the store.                                                             *)
LEMMA CommitIsTransaction ==
  ASSUME NEW v \in Visits, NEW op \in Ops,
         op.method = "add_or_get" \/ Exists(v), Writes(op, job[v]),
         job' = [job EXCEPT ![v] = Written(op, job[v])]
  PROVE  StoreNext
<1>1. CASE op.method = "add_or_get"
  <2>1. AddOrGet(v)
    BY <1>1 DEF AddOrGet, Written
  <2> QED
    BY <2>1 DEF StoreNext
<1>2. CASE op.method # "add_or_get"
  <2>1. Exists(v) /\ job[v].phase \in AllowedCurrent[op.method]
    BY <1>2 DEF Writes
  <2>2. CASE op.method = "set_arq_job_id"
    <3>1. op.with \in ArqIds /\ SetArqJobIdAndMarkQueued(v, op.with)
      BY <2>1, <2>2, OpArguments DEF SetArqJobIdAndMarkQueued, Transition, Written
    <3> QED
      BY <2>1, <3>1 DEF StoreNext
  <2>3. CASE op.method = "mark_queued"
    <3>1. MarkQueued(v)
      BY <2>1, <2>3 DEF MarkQueued, Transition, Written
    <3> QED
      BY <2>1, <3>1 DEF StoreNext
  <2>4. CASE op.method = "mark_executing"
    <3>1. MarkExecuting(v)
      BY <2>1, <2>4 DEF MarkExecuting, Transition, Written
    <3> QED
      BY <2>1, <3>1 DEF StoreNext
  <2>5. CASE op.method = "mark_completed"
    <3>1. MarkCompleted(v)
      BY <2>1, <2>5 DEF MarkCompleted, Transition, Written
    <3> QED
      BY <2>1, <3>1 DEF StoreNext
  <2>6. CASE op.method = "mark_failed"
    <3>1. op.with \in ErrorCodes /\ MarkFailed(v, op.with)
      BY <2>1, <2>6, OpArguments DEF MarkFailed, Transition, Written
    <3> QED
      BY <2>1, <3>1 DEF StoreNext
  <2> QED
    BY <1>2, <2>2, <2>3, <2>4, <2>5, <2>6, OpArguments DEF AllMethods
<1> QED
  BY <1>1, <1>2
-----------------------------------------------------------------------------
LEMMA QuietIsSession ==
  Quiet \in Session /\ Quiet.pc = "idle"
BY TransactionsAssumption DEF Quiet, Session

LEMMA ConcludedIsSession ==
  ASSUME NEW c \in Sessions, session[c] \in Session, NEW answer \in Answers
  PROVE  Concluded(c, answer) \in Session /\ Concluded(c, answer).pc = "returned"
<1>1. Quiet \in Session
  BY QuietIsSession
<1>2. Concluded(c, answer) \in Session
  BY <1>1 DEF Concluded, Session
<1> QED
  BY <1>1, <1>2 DEF Concluded, Session

LEMMA RetriedIsSession ==
  ASSUME NEW c \in Sessions, session[c] \in Session
  PROVE  /\ Retried(c) \in Session
         /\ \/ Retried(c).pc = "returned"
            \/ /\ Retried(c).pc = "begin"
               /\ Retried(c).visit = session[c].visit /\ Retried(c).op = session[c].op
<1> DEFINE s == session[c]
           again == [s EXCEPT !.pc = "begin", !.snap = NoRow, !.overtaken = FALSE,
                              !.attempt = @ + 1]
<1>1. CASE s.attempt < MaxAttempts
  <2>1. s.attempt + 1 \in 0 .. MaxAttempts
    BY <1>1, TransactionsAssumption DEF Session
  <2>2. again \in Session
    BY <2>1 DEF Session
  <2>3. again.pc = "begin" /\ again.visit = s.visit /\ again.op = s.op
    BY DEF Session
  <2>4. Retried(c) = again
    BY <1>1 DEF Retried
  <2> HIDE DEF again
  <2> QED
    BY <2>2, <2>3, <2>4
<1>2. CASE ~(s.attempt < MaxAttempts)
  <2>1. Retried(c) = Concluded(c, "failed")
    BY <1>2 DEF Retried
  <2>2. "failed" \in Answers
    BY DEF Answers
  <2> QED
    BY <2>1, <2>2, ConcludedIsSession
<1> QED
  BY <1>1, <1>2

(* A step of one session that leaves the table alone keeps the invariant if  *)
(* that session does.                                                        *)
LEMMA LocalStep ==
  ASSUME TInv, NEW c \in Sessions, NEW new \in Session,
         session' = [session EXCEPT ![c] = new], UNCHANGED job,
         SessionInv(c)',
         new.pc = "commit" =>
           \A d \in Sessions \ {c} :
             session[d].pc = "commit" => session[d].visit # new.visit
  PROVE  TInv'
<1>1. /\ session' \in [Sessions -> Session] /\ session'[c] = new
      /\ \A d \in Sessions \ {c} : session'[d] = session[d]
  BY DEF TInv, TransactionsTypeOK
<1>2. TransactionsTypeOK'
  BY <1>1 DEF TInv, TransactionsTypeOK, StoreTypeOK
<1>3. ASSUME NEW d \in Sessions, d # c
      PROVE  SessionInv(d)'
  BY <1>1, <1>3 DEF TInv, SessionInv, Exists
<1>4. OneWriter'
  BY <1>1 DEF TInv, OneWriter
<1> QED
  BY <1>2, <1>3, <1>4 DEF TInv

LEMMA CallKeeps ==
  ASSUME TInv, NEW c \in Sessions, NEW v \in Visits, NEW op \in Ops, Call(c, v, op)
  PROVE  TInv'
<1> DEFINE new == [Quiet EXCEPT !.pc = "begin", !.visit = v, !.op = op, !.attempt = 1]
<1>1. new \in Session
  <2>1. 1 \in 0 .. MaxAttempts
    BY TransactionsAssumption
  <2>2. \A s \in Session, n \in 0 .. MaxAttempts :
          [s EXCEPT !.pc = "begin", !.visit = v, !.op = op, !.attempt = n] \in Session
    BY DEF Session
  <2> QED
    BY <2>1, <2>2, QuietIsSession
<1>2. new.pc = "begin" /\ new.visit = v /\ new.op = op
  BY QuietIsSession DEF Session
<1>3. /\ session' = [session EXCEPT ![c] = new] /\ UNCHANGED job
      /\ op.method = "add_or_get" \/ Exists(v)
  BY DEF Call
<1> HIDE DEF new
<1>4. session'[c] = new
  BY <1>3 DEF TInv, TransactionsTypeOK
<1>5. SessionInv(c)'
  BY <1>2, <1>3, <1>4 DEF SessionInv, Exists
<1> QED
  BY <1>1, <1>2, <1>3, <1>5, LocalStep

LEMMA BeginKeeps ==
  ASSUME TInv, NEW c \in Sessions, Begin(c)
  PROVE  TInv'
<1> DEFINE s == session[c]
           new == [s EXCEPT !.pc = "statement", !.snap = job[s.visit]]
<1>1. s \in Session /\ SessionInv(c) /\ s.pc = "begin" /\ UNCHANGED job
  BY DEF TInv, TransactionsTypeOK, Begin, Stands
<1>2. s.visit \in Visits /\ job[s.visit] \in Row \cup {NoRow}
  BY <1>1 DEF SessionInv, TInv, TransactionsTypeOK, StoreTypeOK
<1>3. new \in Session
  BY <1>1, <1>2 DEF Session
<1>4. /\ new.pc = "statement" /\ new.visit = s.visit
      /\ new.op = s.op /\ new.snap = job[s.visit]
  BY <1>1 DEF Session
<1>5. session' = [session EXCEPT ![c] = new]
  BY DEF Begin
<1> HIDE DEF new
<1>6. session'[c] = new
  BY <1>5 DEF TInv, TransactionsTypeOK
<1>7. SessionInv(c)'
  BY <1>1, <1>4, <1>6 DEF SessionInv, Exists
<1> QED
  BY <1>1, <1>3, <1>4, <1>5, <1>7, LocalStep

\* A session that is over, or has given its attempt up.
LEMMA EndingKeeps ==
  ASSUME TInv, NEW c \in Sessions, NEW new \in Session, new.pc \in {"idle", "returned"},
         session' = [session EXCEPT ![c] = new], UNCHANGED job
  PROVE  TInv'
<1>1. session'[c] = new
  BY DEF TInv, TransactionsTypeOK
<1>2. SessionInv(c)'
  BY <1>1 DEF SessionInv
<1> QED
  BY <1>2, LocalStep

LEMMA RetryKeeps ==
  ASSUME TInv, NEW c \in Sessions, session[c].pc \in {"statement", "commit"},
         session' = [session EXCEPT ![c] = Retried(c)], UNCHANGED job
  PROVE  TInv'
<1>1. session[c] \in Session /\ SessionInv(c) /\ session'[c] = Retried(c)
  BY DEF TInv, TransactionsTypeOK
<1>2. SessionInv(c)'
  BY <1>1, RetriedIsSession DEF SessionInv, Exists
<1> QED
  BY <1>1, <1>2, RetriedIsSession, LocalStep

LEMMA WriteKeeps ==
  ASSUME TInv, NEW c \in Sessions, Write(c)
  PROVE  TInv'
<1> DEFINE s == session[c]
           new == [s EXCEPT !.pc = "commit"]
<1>1. /\ s \in Session /\ SessionInv(c) /\ s.pc = "statement" /\ UNCHANGED job
      /\ ~LosesRace(c) /\ Writes(s.op, s.snap) /\ ~Locked(s.visit)
  BY DEF TInv, TransactionsTypeOK, Write, Stands
<1>2. new \in Session
  BY <1>1 DEF Session
<1>3. /\ new.pc = "commit" /\ new.visit = s.visit /\ new.op = s.op
      /\ new.snap = s.snap /\ new.overtaken = s.overtaken
  BY <1>1 DEF Session
<1>4. session' = [session EXCEPT ![c] = new]
  BY DEF Write
<1> HIDE DEF new
<1>5. session'[c] = new
  BY <1>4 DEF TInv, TransactionsTypeOK
<1>6. ~s.overtaken
  BY <1>1 DEF LosesRace
<1>7. SessionInv(c)'
  BY <1>1, <1>3, <1>5, <1>6 DEF SessionInv, Exists
<1>8. \A d \in Sessions \ {c} :
        session[d].pc = "commit" => session[d].visit # new.visit
  BY <1>1, <1>3 DEF Locked, Stands
<1> QED
  BY <1>1, <1>2, <1>4, <1>7, <1>8, LocalStep

LEMMA ReadKeeps ==
  ASSUME TInv, NEW c \in Sessions, Read(c)
  PROVE  TInv'
<1> DEFINE s == session[c]
           answer == Answered(s.op, s.snap)
<1>1. /\ s \in Session /\ SessionInv(c) /\ s.pc = "statement" /\ UNCHANGED job
      /\ ~LosesRace(c) /\ ~Writes(s.op, s.snap)
      /\ session' = [session EXCEPT ![c] = Concluded(c, answer)]
  BY DEF TInv, TransactionsTypeOK, Read, Stands
<1>2. answer \in Answers
  <2>1. CASE answer = "rejected"
    BY <2>1 DEF Answers
  <2>2. CASE answer = s.snap.phase /\ s.snap \in Row
    BY <2>2 DEF Answers, Row
  <2>3. s.snap # NoRow
    <3>1. s.op.method # "add_or_get" => s.snap # NoRow
      BY <1>1 DEF SessionInv
    <3>2. s.op.method = "add_or_get" => s.snap # NoRow
      BY <1>1 DEF Writes
    <3> QED
      BY <3>1, <3>2
  <2> QED
    BY <1>1, <2>1, <2>2, <2>3 DEF Answered, Session
<1> QED
  BY <1>1, <1>2, ConcludedIsSession, EndingKeeps

(* A commit writes the row that was read, so the table makes a transaction of *)
(* the store; the sessions it overtakes are not about to commit.              *)
LEMMA CommittedKeeps ==
  ASSUME TInv, NEW c \in Sessions, session[c].pc = "commit", NEW next \in Session,
         Committed(c, next),
         \/ next.pc = "returned"
         \/ /\ next.pc = "begin"
            /\ next.visit = session[c].visit /\ next.op = session[c].op
  PROVE  TInv' /\ StoreNext
<1> DEFINE s == session[c]
           v == s.visit
           row == Written(s.op, s.snap)
<1>1. /\ SessionInv(c) /\ v \in Visits /\ s.op \in Ops
      /\ s.op.method = "add_or_get" \/ Exists(v)
      /\ s.snap = job[v] /\ Writes(s.op, s.snap)
  BY DEF TInv, SessionInv
<1>2. job \in [Visits -> Row \cup {NoRow}] /\ session \in [Sessions -> Session]
  BY DEF TInv, TransactionsTypeOK, StoreTypeOK
<1>3. /\ job' = [job EXCEPT ![v] = row]
      /\ session' = [d \in Sessions |-> IF d = c THEN next ELSE Overtaken(d, v)]
  BY DEF Committed
<1>4. StoreNext
  <2>1. job' = [job EXCEPT ![v] = Written(s.op, job[v])]
    BY <1>1, <1>3
  <2>2. Writes(s.op, job[v])
    BY <1>1
  <2> QED
    BY <1>1, <2>1, <2>2, CommitIsTransaction
<1>5. row \in Row
  <2>1. s.snap \in Row \cup {NoRow}
    BY <1>1, <1>2
  <2>2. s.op.method = "add_or_get" \/ s.snap # NoRow
    BY <1>1 DEF Exists
  <2> QED
    BY <1>1, <2>1, <2>2, WrittenRow
<1> HIDE DEF row
<1>6. /\ job' \in [Visits -> Row \cup {NoRow}]
      /\ \A u \in Visits \ {v} : job'[u] = job[u]
      /\ \A u \in Visits : Exists(u) => Exists(u)'
  BY <1>1, <1>2, <1>3, <1>5, NoRowAssumption DEF Exists
<1>7. ASSUME NEW d \in Sessions, d # c
      PROVE  /\ Overtaken(d, v) \in Session
             /\ Overtaken(d, v).pc = session[d].pc
             /\ Overtaken(d, v).visit = session[d].visit
             /\ Overtaken(d, v).op = session[d].op
             /\ Overtaken(d, v).snap = session[d].snap
             /\ session[d].visit # v => Overtaken(d, v) = session[d]
             /\ session[d].visit = v /\ session[d].pc = "statement" =>
                  Overtaken(d, v).overtaken
  <2>1. session[d] \in Session
    BY <1>2
  <2>2. CASE session[d].visit = v
    <3> DEFINE over == [session[d] EXCEPT !.overtaken = session[d].pc = "statement",
                                          !.disturbed = session[d].applied]
    <3>1. Overtaken(d, v) = over
      BY <2>2 DEF Overtaken, Stands
    <3>2. over \in Session
      <4>1. \A s2 \in Session, late, again \in BOOLEAN :
              [s2 EXCEPT !.overtaken = late, !.disturbed = again] \in Session
        BY DEF Session
      <4>2. session[d].applied \in BOOLEAN
        BY <2>1 DEF Session
      <4>3. (session[d].pc = "statement") \in BOOLEAN
        OBVIOUS
      <4> QED
        BY <2>1, <4>1, <4>2, <4>3
    <3>3. /\ over.pc = session[d].pc /\ over.visit = session[d].visit
          /\ over.op = session[d].op /\ over.snap = session[d].snap
          /\ over.overtaken = (session[d].pc = "statement")
      BY <2>1 DEF Session
    <3> HIDE DEF over
    <3> QED
      BY <2>2, <3>1, <3>2, <3>3
  <2>3. CASE session[d].visit # v
    BY <2>1, <2>3 DEF Overtaken
  <2> QED
    BY <2>2, <2>3
<1>8. session' \in [Sessions -> Session]
  BY <1>3, <1>7
<1>9. TransactionsTypeOK'
  BY <1>6, <1>8 DEF TransactionsTypeOK, StoreTypeOK
<1>10. ASSUME NEW d \in Sessions
       PROVE  SessionInv(d)'
  <2>1. CASE d = c
    <3>1. session'[d] = next
      BY <1>3, <2>1
    <3> QED
      BY <1>1, <1>6, <3>1 DEF SessionInv
  <2>2. CASE d # c
    <3>1. session'[d] = Overtaken(d, v) /\ SessionInv(d)
      BY <1>3, <2>2 DEF TInv
    <3>2. CASE session[d].visit = v
      <4>1. session[d].pc # "commit"
        BY <2>2, <3>2 DEF TInv, OneWriter
      <4>2. (session[d].pc = "statement") => session'[d].overtaken
        BY <1>7, <2>2, <3>1, <3>2
      <4>3. /\ session'[d].pc = session[d].pc /\ session'[d].visit = session[d].visit
            /\ session'[d].op = session[d].op /\ session'[d].snap = session[d].snap
        BY <1>7, <2>2, <3>1
      <4> QED
        BY <1>1, <1>6, <3>1, <4>1, <4>2, <4>3 DEF SessionInv
    <3>3. CASE session[d].visit # v
      <4>1. session'[d] = session[d]
        BY <1>7, <2>2, <3>1, <3>3
      <4> QED
        BY <1>6, <3>1, <3>3, <4>1 DEF SessionInv
    <3> QED
      BY <3>2, <3>3
  <2> QED
    BY <2>1, <2>2
<1>11. OneWriter'
  <2>1. ASSUME NEW d \in Sessions, session'[d].pc = "commit"
        PROVE  /\ d # c /\ session[d].pc = "commit"
               /\ session'[d].visit = session[d].visit
    <3>1. d # c
      BY <1>3, <2>1
    <3> QED
      BY <1>3, <1>7, <2>1, <3>1
  <2> QED
    BY <2>1 DEF TInv, OneWriter
<1> QED
  BY <1>4, <1>9, <1>10, <1>11 DEF TInv

LEMMA CommitKeeps ==
  ASSUME TInv, NEW c \in Sessions, Commit(c)
  PROVE  TInv' /\ StoreNext
<1> DEFINE answer == Written(session[c].op, session[c].snap).phase
<1>1. /\ session[c] \in Session /\ SessionInv(c) /\ session[c].pc = "commit"
      /\ Committed(c, Concluded(c, answer))
  BY DEF TInv, TransactionsTypeOK, Commit, Stands
<1>2. answer \in Answers
  <2>1. session[c].op \in Ops /\ session[c].snap \in Row \cup {NoRow}
    BY <1>1 DEF SessionInv, Session
  <2>2. session[c].op.method = "add_or_get" \/ session[c].snap # NoRow
    BY <1>1 DEF SessionInv
  <2>3. Written(session[c].op, session[c].snap) \in Row
    BY <2>1, <2>2, WrittenRow
  <2> QED
    BY <2>3 DEF Answers, Row
<1> HIDE DEF answer
<1> QED
  BY <1>1, <1>2, ConcludedIsSession, CommittedKeeps

LEMMA CommitUnacknowledgedKeeps ==
  ASSUME TInv, NEW c \in Sessions, CommitUnacknowledged(c)
  PROVE  TInv' /\ StoreNext
<1> DEFINE next == [Retried(c) EXCEPT !.applied = TRUE, !.disturbed = FALSE]
<1>1. session[c] \in Session /\ session[c].pc = "commit" /\ Committed(c, next)
  BY DEF TInv, TransactionsTypeOK, CommitUnacknowledged, Stands
<1>2. Retried(c) \in Session
  BY <1>1, RetriedIsSession
<1>3. \A s \in Session :
        LET marked == [s EXCEPT !.applied = TRUE, !.disturbed = FALSE] IN
          /\ marked \in Session
          /\ marked.pc = s.pc /\ marked.visit = s.visit /\ marked.op = s.op
  BY DEF Session
<1>4. /\ next \in Session /\ next.pc = Retried(c).pc
      /\ next.visit = Retried(c).visit /\ next.op = Retried(c).op
  BY <1>2, <1>3
<1> HIDE DEF next
<1> QED
  BY <1>1, <1>4, RetriedIsSession, CommittedKeeps
-----------------------------------------------------------------------------
LEMMA TInvInit ==
  ASSUME TransactionsInit
  PROVE  TInv
<1>1. \A c \in Sessions : session[c] = Quiet
  BY DEF TransactionsInit
<1>2. TransactionsTypeOK
  BY QuietIsSession DEF TransactionsInit, TransactionsTypeOK, StoreInit, StoreTypeOK
<1>3. \A c \in Sessions : SessionInv(c)
  BY <1>1, QuietIsSession DEF SessionInv
<1>4. OneWriter
  BY <1>1, QuietIsSession DEF OneWriter
<1> QED
  BY <1>2, <1>3, <1>4 DEF TInv

LEMMA TInvStep ==
  ASSUME TInv, [TransactionsNext]_tvars
  PROVE  TInv' /\ [StoreNext]_job
<1>1. CASE TransactionsNext
  <2> SUFFICES ASSUME NEW c \in Sessions,
                      \/ \E v \in Visits, op \in Ops : Call(c, v, op)
                      \/ Continues(c) \/ CommitUnacknowledged(c) \/ ConnectionLost(c)
               PROVE  TInv' /\ (StoreNext \/ UNCHANGED job)
    BY <1>1 DEF TransactionsNext
  <2>1. CASE \E v \in Visits, op \in Ops : Call(c, v, op)
    BY <2>1, CallKeeps DEF Call
  <2>2. CASE Begin(c)
    BY <2>2, BeginKeeps DEF Begin
  <2>3. CASE SerializationFailure(c)
    BY <2>3, RetryKeeps DEF SerializationFailure, Stands
  <2>4. CASE Write(c)
    BY <2>4, WriteKeeps DEF Write
  <2>5. CASE Read(c)
    BY <2>5, ReadKeeps DEF Read
  <2>6. CASE Commit(c)
    BY <2>6, CommitKeeps
  <2>7. CASE Return(c)
    BY <2>7, QuietIsSession, EndingKeeps DEF Return
  <2>8. CASE CommitUnacknowledged(c)
    BY <2>8, CommitUnacknowledgedKeeps
  <2>9. CASE ConnectionLost(c)
    BY <2>9, RetryKeeps DEF ConnectionLost
  <2> QED
    BY <2>1, <2>2, <2>3, <2>4, <2>5, <2>6, <2>7, <2>8, <2>9 DEF Continues
<1>2. CASE UNCHANGED tvars
  BY <1>2 DEF tvars, TInv, TransactionsTypeOK, StoreTypeOK, SessionInv, OneWriter, Exists
<1> QED
  BY <1>1, <1>2

(* The methods of the store are atomic: whatever the sessions, however their  *)
(* attempts interleave, lose races, lose connections and are made again, the  *)
(* table goes only through the transactions of EnrichmentJobStore.            *)
THEOREM TransactionsAtomic == TransactionsSpec => AtomicTransactions
<1>1. TransactionsInit => StoreInit
  BY DEF TransactionsInit
<1>2. TransactionsInit => TInv
  BY TInvInit
<1>3. TInv /\ [TransactionsNext]_tvars => TInv' /\ [StoreNext]_job
  BY TInvStep
<1> QED
  BY <1>1, <1>2, <1>3, PTL DEF TransactionsSpec, AtomicTransactions, StoreSpec

(* So rows stay consistent below the transactions too, where attempts of     *)
(* concurrent calls interleave, lose races, fail and are made again.         *)
THEOREM TransactionsKeepRowsConsistent == TransactionsSpec => []RowsConsistent
BY TransactionsAtomic, StoreKeepsRowsConsistent DEF AtomicTransactions

(* And no attempt, however stale its snapshot, rewrites a row that is over.  *)
THEOREM TransactionsKeepFinalRows == TransactionsSpec => FinalRowsStand
BY TransactionsAtomic, StoreKeepsFinalRows DEF AtomicTransactions
-----------------------------------------------------------------------------
\* The phase each guarded UPDATE leaves.
Target == [set_arq_job_id |-> "QUEUED", mark_queued |-> "QUEUED",
           mark_executing |-> "EXECUTING", mark_completed |-> "COMPLETED",
           mark_failed |-> "ERROR"]

\* The row shows the effect of op.
Shows(op, row) ==
  /\ row \in Row
  /\ IF op.method = "add_or_get" THEN row.phase # "ERROR"
                                 ELSE row.phase = Target[op.method]

LEMMA WrittenShows ==
  ASSUME NEW op \in Ops, NEW row \in Row \cup {NoRow},
         op.method = "add_or_get" \/ row # NoRow
  PROVE  Shows(op, Written(op, row))
<1>1. CASE op.method = "add_or_get"
  <2>1. Written(op, row) = AddedOrGot(row)
    BY <1>1 DEF Written
  <2>2. NewRow \in Row /\ NewRow.phase = "PENDING"
    BY NewRowColumns DEF NewRow
  <2>3. row \in Row => Requeued(row) \in Row /\ Requeued(row).phase = "QUEUED"
    BY RequeuedColumns, NewRowColumns
  <2>4. AddedOrGot(row) \in Row /\ AddedOrGot(row).phase # "ERROR"
    BY <2>2, <2>3 DEF AddedOrGot
  <2> QED
    BY <1>1, <2>1, <2>4 DEF Shows
<1>2. CASE op.method # "add_or_get"
  <2>1. row \in Row
    BY <1>2
  <2>2. CASE op.method = "set_arq_job_id"
    BY <2>1, <2>2, OpArguments, QueuedAsColumns DEF Written, Shows, Target
  <2>3. CASE op.method = "mark_queued"
    BY <2>1, <2>3, QueuedColumns DEF Written, Shows, Target
  <2>4. CASE op.method = "mark_executing"
    <3>1. Written(op, row) = Executing(row)
      BY <2>4 DEF Written
    <3>2. Written(op, row) \in Row /\ Written(op, row).phase = "EXECUTING"
      BY <2>1, <2>4, <3>1, ExecutingColumns
    <3>3. Target[op.method] = "EXECUTING"
      BY <2>4 DEF Target
    <3> QED
      BY <1>2, <3>2, <3>3 DEF Shows
  <2>5. CASE op.method = "mark_completed"
    <3>1. Written(op, row) = AsCompleted(row)
      BY <2>5 DEF Written
    <3>2. Written(op, row) \in Row /\ Written(op, row).phase = "COMPLETED"
      BY <2>1, <2>5, <3>1, AsCompletedColumns
    <3>3. Target[op.method] = "COMPLETED"
      BY <2>5 DEF Target
    <3> QED
      BY <1>2, <3>2, <3>3 DEF Shows
  <2>6. CASE op.method = "mark_failed"
    <3>1. Written(op, row) = Failed(row, op.with)
      BY <2>6 DEF Written
    <3>2. Written(op, row) \in Row /\ Written(op, row).phase = "ERROR"
      <4>1. PICK code : code = op.with
        OBVIOUS
      <4>2. code \in ErrorCodes
        BY <2>6, <4>1, OpArguments
      <4>3. Failed(row, code) \in Row /\ Failed(row, code).phase = "ERROR"
        BY <2>1, <4>2, FailedColumns
      <4> QED
        BY <3>1, <4>1, <4>3
    <3>3. Target[op.method] = "ERROR"
      BY <2>6 DEF Target
    <3> QED
      BY <1>2, <3>2, <3>3 DEF Shows
  <2> QED
    BY <1>2, <2>2, <2>3, <2>4, <2>5, <2>6, OpArguments DEF AllMethods
<1> QED
  BY <1>1, <1>2

(* An attempt that finds the effect of its own call answers the phase it      *)
(* finds, whether it writes the row again or not.                             *)
LEMMA ShownIsAnswered ==
  ASSUME NEW op \in Ops, NEW row, Shows(op, row)
  PROVE  /\ Writes(op, row) => Written(op, row).phase = row.phase
         /\ ~Writes(op, row) => Answered(op, row) = row.phase
<1>1. row \in Row /\ row # NoRow
  BY NoRowAssumption DEF Shows
<1>2. CASE op.method = "add_or_get"
  BY <1>1, <1>2 DEF Shows, Writes, Answered
<1>3. CASE op.method # "add_or_get"
  <2>1. row.phase = Target[op.method]
    BY <1>3 DEF Shows
  <2>2. Written(op, row).phase = Target[op.method]
    BY <1>1, <1>3, WrittenShows DEF Shows
  <2>3. row.phase \in AllowedCurrent[op.method] \cup IdempotentCurrent[op.method]
    <3>1. op.method \in AllMethods \ {"add_or_get"}
      BY <1>3, OpArguments
    <3> QED
      BY <2>1, <3>1 DEF AllMethods, Target, AllowedCurrent, IdempotentCurrent
  <2> QED
    BY <1>3, <2>1, <2>2, <2>3 DEF Writes, Answered
<1> QED
  BY <1>2, <1>3

\* While nobody else has written the row since a call took effect, the row shows
\* that effect, and so does the answer.
AnswerInv(c) ==
  /\ session[c].pc = "begin" => ~session[c].overtaken
  /\ session[c].applied /\ ~session[c].disturbed =>
       /\ session[c].pc \in {"begin", "statement", "commit"} =>
            ~session[c].overtaken /\ Shows(session[c].op, job[session[c].visit])
       /\ session[c].pc = "returned" =>
            session[c].answer \in {job[session[c].visit].phase, "failed"}

AInv == TInv /\ \A c \in Sessions : AnswerInv(c)

LEMMA AnswerLocalStep ==
  ASSUME AInv, TInv', NEW c \in Sessions, NEW new,
         session' = [session EXCEPT ![c] = new], UNCHANGED job, AnswerInv(c)'
  PROVE  AInv'
<1>1. ASSUME NEW d \in Sessions, d # c
      PROVE  AnswerInv(d)'
  <2>1. session'[d] = session[d] /\ AnswerInv(d)
    BY <1>1 DEF AInv, TInv, TransactionsTypeOK
  <2> QED
    BY <2>1 DEF AnswerInv, Shows
<1> QED
  BY <1>1 DEF AInv

\* What a session keeps of its call when it concludes or tries again.
LEMMA ConcludedFields ==
  ASSUME NEW c \in Sessions, session[c] \in Session, NEW answer \in Answers
  PROVE  /\ Concluded(c, answer).pc = "returned"
         /\ Concluded(c, answer).visit = session[c].visit
         /\ Concluded(c, answer).answer = answer
         /\ Concluded(c, answer).applied = session[c].applied
         /\ Concluded(c, answer).disturbed = session[c].disturbed
<1>1. Quiet \in Session
  BY QuietIsSession
<1> QED
  BY <1>1 DEF Concluded, Session

LEMMA RetriedFields ==
  ASSUME NEW c \in Sessions, session[c] \in Session
  PROVE  /\ Retried(c).visit = session[c].visit
         /\ Retried(c).applied = session[c].applied
         /\ Retried(c).disturbed = session[c].disturbed
         /\ \/ Retried(c).pc = "returned" /\ Retried(c).answer = "failed"
            \/ /\ Retried(c).pc = "begin" /\ Retried(c).op = session[c].op
               /\ Retried(c).overtaken = FALSE
<1>1. CASE session[c].attempt < MaxAttempts
  BY <1>1 DEF Retried, Session
<1>2. CASE ~(session[c].attempt < MaxAttempts)
  BY <1>2, ConcludedFields DEF Retried, Answers
<1> QED
  BY <1>1, <1>2

LEMMA CallAnswers ==
  ASSUME AInv, TInv', NEW c \in Sessions, NEW v \in Visits, NEW op \in Ops,
         Call(c, v, op)
  PROVE  AInv'
<1> DEFINE new == [Quiet EXCEPT !.pc = "begin", !.visit = v, !.op = op, !.attempt = 1]
<1>1. session' = [session EXCEPT ![c] = new] /\ UNCHANGED job
  BY DEF Call
<1>2. ~new.overtaken /\ ~new.applied /\ new.pc = "begin"
  BY QuietIsSession DEF Quiet, Session
<1> HIDE DEF new
<1>3. session'[c] = new
  BY <1>1 DEF AInv, TInv, TransactionsTypeOK
<1>4. AnswerInv(c)'
  BY <1>2, <1>3 DEF AnswerInv
<1> QED
  BY <1>1, <1>4, AnswerLocalStep

LEMMA BeginAnswers ==
  ASSUME AInv, TInv', NEW c \in Sessions, Begin(c)
  PROVE  AInv'
<1> DEFINE s == session[c]
           new == [s EXCEPT !.pc = "statement", !.snap = job[s.visit]]
<1>1. s \in Session /\ AnswerInv(c) /\ s.pc = "begin" /\ UNCHANGED job
  BY DEF AInv, TInv, TransactionsTypeOK, Begin, Stands
<1>2. /\ new.pc = "statement" /\ new.visit = s.visit /\ new.op = s.op
      /\ new.overtaken = s.overtaken /\ new.applied = s.applied
      /\ new.disturbed = s.disturbed
  BY <1>1 DEF Session
<1>3. session' = [session EXCEPT ![c] = new]
  BY DEF Begin
<1> HIDE DEF new
<1>4. session'[c] = new
  BY <1>3 DEF AInv, TInv, TransactionsTypeOK
<1>5. AnswerInv(c)'
  BY <1>1, <1>2, <1>4 DEF AnswerInv, Shows
<1> QED
  BY <1>1, <1>3, <1>5, AnswerLocalStep

LEMMA RetryAnswers ==
  ASSUME AInv, TInv', NEW c \in Sessions, session[c].pc \in {"statement", "commit"},
         session' = [session EXCEPT ![c] = Retried(c)], UNCHANGED job
  PROVE  AInv'
<1>1. session[c] \in Session /\ AnswerInv(c) /\ session'[c] = Retried(c)
  BY DEF AInv, TInv, TransactionsTypeOK
<1>2. AnswerInv(c)'
  BY <1>1, RetriedFields DEF AnswerInv, Shows
<1> QED
  BY <1>2, AnswerLocalStep

LEMMA WriteAnswers ==
  ASSUME AInv, TInv', NEW c \in Sessions, Write(c)
  PROVE  AInv'
<1> DEFINE s == session[c]
           new == [s EXCEPT !.pc = "commit"]
<1>1. s \in Session /\ AnswerInv(c) /\ s.pc = "statement" /\ UNCHANGED job
  BY DEF AInv, TInv, TransactionsTypeOK, Write, Stands
<1>2. /\ new.pc = "commit" /\ new.visit = s.visit /\ new.op = s.op
      /\ new.overtaken = s.overtaken /\ new.applied = s.applied
      /\ new.disturbed = s.disturbed
  BY <1>1 DEF Session
<1>3. session' = [session EXCEPT ![c] = new]
  BY DEF Write
<1> HIDE DEF new
<1>4. session'[c] = new
  BY <1>3 DEF AInv, TInv, TransactionsTypeOK
<1>5. AnswerInv(c)'
  BY <1>1, <1>2, <1>4 DEF AnswerInv, Shows
<1> QED
  BY <1>1, <1>3, <1>5, AnswerLocalStep

LEMMA ReadAnswers ==
  ASSUME AInv, TInv', NEW c \in Sessions, Read(c)
  PROVE  AInv'
<1> DEFINE s == session[c]
           new == Concluded(c, Answered(s.op, s.snap))
<1>1. /\ s \in Session /\ SessionInv(c) /\ AnswerInv(c) /\ s.pc = "statement"
      /\ UNCHANGED job /\ ~Writes(s.op, s.snap) /\ session' = [session EXCEPT ![c] = new]
  BY DEF AInv, TInv, TransactionsTypeOK, Read, Stands
<1>2. Quiet \in Session
  BY QuietIsSession
<1>3. /\ new.pc = "returned" /\ new.visit = s.visit
      /\ new.answer = Answered(s.op, s.snap)
      /\ new.applied = s.applied /\ new.disturbed = s.disturbed
  BY <1>2 DEF Concluded, Session
<1>4. s.applied /\ ~s.disturbed => Answered(s.op, s.snap) = job[s.visit].phase
  <2> SUFFICES ASSUME s.applied, ~s.disturbed
               PROVE  Answered(s.op, s.snap) = job[s.visit].phase
    OBVIOUS
  <2>1. s.op \in Ops /\ Shows(s.op, job[s.visit]) /\ s.snap = job[s.visit]
    BY <1>1 DEF AnswerInv, SessionInv
  <2> QED
    BY <1>1, <2>1, ShownIsAnswered
<1> HIDE DEF new
<1>5. session'[c] = new
  BY <1>1 DEF AInv, TInv, TransactionsTypeOK
<1>6. AnswerInv(c)'
  BY <1>1, <1>3, <1>4, <1>5 DEF AnswerInv
<1> QED
  BY <1>1, <1>6, AnswerLocalStep

LEMMA ReturnAnswers ==
  ASSUME AInv, TInv', NEW c \in Sessions, Return(c)
  PROVE  AInv'
<1>1. session' = [session EXCEPT ![c] = Quiet] /\ UNCHANGED job
  BY DEF Return
<1>2. session'[c] = Quiet
  BY <1>1 DEF AInv, TInv, TransactionsTypeOK
<1>3. AnswerInv(c)'
  BY <1>2 DEF AnswerInv, Quiet
<1> QED
  BY <1>1, <1>3, AnswerLocalStep

\* A commit changes one row; whoever else relied on that row is disturbed.
LEMMA CommittedAnswers ==
  ASSUME AInv, TInv', NEW c \in Sessions, session[c].pc = "commit", NEW next,
         Committed(c, next), AnswerInv(c)'
  PROVE  AInv'
<1> DEFINE v == session[c].visit
<1>1. /\ job' = [job EXCEPT ![v] = Written(session[c].op, session[c].snap)]
      /\ session' = [d \in Sessions |-> IF d = c THEN next ELSE Overtaken(d, v)]
  BY DEF Committed
<1>2. ASSUME NEW d \in Sessions, d # c
      PROVE  AnswerInv(d)'
  <2>1. session[d] \in Session /\ AnswerInv(d) /\ session'[d] = Overtaken(d, v)
    BY <1>1, <1>2 DEF AInv, TInv, TransactionsTypeOK
  <2>2. CASE session[d].visit = v
    <3> DEFINE over == [session[d] EXCEPT !.overtaken = session[d].pc = "statement",
                                          !.disturbed = session[d].applied]
    <3>1. session'[d] = over
      BY <2>1, <2>2 DEF Overtaken, Stands
    <3>2. /\ over.pc = session[d].pc /\ over.applied = session[d].applied
          /\ over.disturbed = session[d].applied
          /\ over.overtaken = (session[d].pc = "statement")
      BY <2>1 DEF Session
    <3> HIDE DEF over
    <3>3. ~(session'[d].applied /\ ~session'[d].disturbed)
      BY <3>1, <3>2
    <3>4. session'[d].pc = "begin" => ~session'[d].overtaken
      BY <3>1, <3>2
    <3> QED
      BY <3>3, <3>4 DEF AnswerInv
  <2>3. CASE session[d].visit # v
    <3>1. session'[d] = session[d]
      BY <2>1, <2>3 DEF Overtaken
    <3>2. job'[session[d].visit] = job[session[d].visit]
      BY <1>1, <2>3 DEF AInv, TInv, TransactionsTypeOK, StoreTypeOK
    <3> QED
      BY <2>1, <3>1, <3>2 DEF AnswerInv, Shows
  <2> QED
    BY <2>2, <2>3
<1> QED
  BY <1>2 DEF AInv

LEMMA OwnCommit ==
  ASSUME AInv, NEW c \in Sessions, session[c].pc = "commit", NEW next, Committed(c, next)
  PROVE  /\ session'[c] = next
         /\ job'[session[c].visit] = Written(session[c].op, session[c].snap)
         /\ Shows(session[c].op, Written(session[c].op, session[c].snap))
<1>1. /\ session[c].visit \in Visits /\ session[c].op \in Ops
      /\ session[c].snap \in Row \cup {NoRow}
      /\ session[c].op.method = "add_or_get" \/ session[c].snap # NoRow
  BY DEF AInv, TInv, SessionInv, TransactionsTypeOK, Session
<1>2. Shows(session[c].op, Written(session[c].op, session[c].snap))
  BY <1>1, WrittenShows
<1> QED
  BY <1>1, <1>2 DEF Committed, AInv, TInv, TransactionsTypeOK, StoreTypeOK

LEMMA CommitAnswers ==
  ASSUME AInv, TInv', NEW c \in Sessions, Commit(c)
  PROVE  AInv'
<1> DEFINE row == Written(session[c].op, session[c].snap)
           next == Concluded(c, row.phase)
<1>1. session[c].pc = "commit" /\ Committed(c, next)
  BY DEF Commit, Stands
<1>2. Quiet \in Session
  BY QuietIsSession
<1>3. next.pc = "returned" /\ next.visit = session[c].visit /\ next.answer = row.phase
  BY <1>2 DEF Concluded, Session
<1>4. session'[c] = next /\ job'[session[c].visit] = row
  BY <1>1, OwnCommit
<1> HIDE DEF next, row
<1>5. AnswerInv(c)'
  BY <1>3, <1>4 DEF AnswerInv
<1> QED
  BY <1>1, <1>5, CommittedAnswers

LEMMA CommitUnacknowledgedAnswers ==
  ASSUME AInv, TInv', NEW c \in Sessions, CommitUnacknowledged(c)
  PROVE  AInv'
<1> DEFINE row == Written(session[c].op, session[c].snap)
           next == [Retried(c) EXCEPT !.applied = TRUE, !.disturbed = FALSE]
<1>1. session[c] \in Session /\ session[c].pc = "commit" /\ Committed(c, next)
  BY DEF AInv, TInv, TransactionsTypeOK, CommitUnacknowledged, Stands
<1>2. Retried(c) \in Session
  BY <1>1, RetriedIsSession
<1>3. /\ next.pc = Retried(c).pc /\ next.visit = Retried(c).visit
      /\ next.op = Retried(c).op /\ next.answer = Retried(c).answer
      /\ next.overtaken = Retried(c).overtaken
  BY <1>2 DEF Session
<1>4. /\ session'[c] = next /\ job'[session[c].visit] = row
      /\ Shows(session[c].op, row)
  BY <1>1, OwnCommit
<1> HIDE DEF next, row
<1>5. AnswerInv(c)'
  <2>1. /\ next.visit = session[c].visit
        /\ \/ next.pc = "returned" /\ next.answer = "failed"
           \/ next.pc = "begin" /\ next.op = session[c].op /\ next.overtaken = FALSE
    BY <1>1, <1>3, RetriedFields
  <2>2. Shows(session'[c].op, job'[session'[c].visit]) \/ next.pc = "returned"
    BY <1>4, <2>1
  <2>3. Shows(session[c].op, job[session[c].visit])' <=>
          Shows(session'[c].op, job'[session'[c].visit])
    BY DEF Shows
  <2> QED
    BY <1>4, <2>1, <2>2, <2>3 DEF AnswerInv
<1> QED
  BY <1>1, <1>5, CommittedAnswers

LEMMA AInvStep ==
  ASSUME AInv, [TransactionsNext]_tvars
  PROVE  AInv'
<1>1. TInv'
  BY TInvStep DEF AInv
<1>2. CASE TransactionsNext
  <2> SUFFICES ASSUME NEW c \in Sessions,
                      \/ \E v \in Visits, op \in Ops : Call(c, v, op)
                      \/ Continues(c) \/ CommitUnacknowledged(c) \/ ConnectionLost(c)
               PROVE  AInv'
    BY <1>2 DEF TransactionsNext
  <2>1. CASE \E v \in Visits, op \in Ops : Call(c, v, op)
    BY <1>1, <2>1, CallAnswers
  <2>2. CASE Begin(c)
    BY <1>1, <2>2, BeginAnswers
  <2>3. CASE SerializationFailure(c)
    BY <1>1, <2>3, RetryAnswers DEF SerializationFailure, Stands
  <2>4. CASE Write(c)
    BY <1>1, <2>4, WriteAnswers
  <2>5. CASE Read(c)
    BY <1>1, <2>5, ReadAnswers
  <2>6. CASE Commit(c)
    BY <1>1, <2>6, CommitAnswers
  <2>7. CASE Return(c)
    BY <1>1, <2>7, ReturnAnswers
  <2>8. CASE CommitUnacknowledged(c)
    BY <1>1, <2>8, CommitUnacknowledgedAnswers
  <2>9. CASE ConnectionLost(c)
    BY <1>1, <2>9, RetryAnswers DEF ConnectionLost
  <2> QED
    BY <2>1, <2>2, <2>3, <2>4, <2>5, <2>6, <2>7, <2>8, <2>9 DEF Continues
<1>3. CASE UNCHANGED tvars
  BY <1>1, <1>3 DEF tvars, AInv, AnswerInv, Shows
<1> QED
  BY <1>2, <1>3

(* A call that was applied and is made again answers the phase it gave the    *)
(* row, for any sessions, methods and attempts, unless somebody else has      *)
(* written the row since.                                                     *)
THEOREM RepeatedCallsConsistent == TransactionsSpec => []RepeatedCallsAgree
<1>1. TransactionsInit => AInv
  <2> SUFFICES ASSUME TransactionsInit PROVE AInv
    OBVIOUS
  <2>1. \A c \in Sessions : session[c] = Quiet
    BY DEF TransactionsInit
  <2>2. \A c \in Sessions : AnswerInv(c)
    BY <2>1 DEF AnswerInv, Quiet
  <2> QED
    BY <2>2, TInvInit DEF AInv
<1>2. AInv /\ [TransactionsNext]_tvars => AInv'
  BY AInvStep
<1>3. AInv => RepeatedCallsAgree
  BY DEF AInv, AnswerInv, RepeatedCallsAgree, Stands
<1> QED
  BY <1>1, <1>2, <1>3, PTL DEF TransactionsSpec
=============================================================================
