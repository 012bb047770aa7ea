---------------------- MODULE EnrichmentJobStoreProofs ----------------------
(***************************************************************************)
(* The enrichment_job table keeps its shape and its rows their story under *)
(* every sequence of its transactions, for any set of visits.              *)
(***************************************************************************)
EXTENDS EnrichmentJobStore, TLAPS

(* A guarded UPDATE leaves every other row alone, and this one too when its  *)
(* WHERE clause does not match.                                              *)
LEMMA TransitionEffect ==
  ASSUME StoreTypeOK, NEW v \in Visits, NEW op, NEW new \in Row,
         Transition(op, v, new)
  PROVE  /\ StoreTypeOK'
         /\ \A u \in Visits \ {v} : job'[u] = job[u]
         /\ job[v].phase \in AllowedCurrent[op] => job'[v] = new
         /\ job[v].phase \notin AllowedCurrent[op] => job'[v] = job[v]
<1>1. CASE job[v].phase \in AllowedCurrent[op]
  <2>1. job' = [job EXCEPT ![v] = new]
    BY <1>1 DEF Transition
  <2> QED
    BY <1>1, <2>1 DEF StoreTypeOK
<1>2. CASE job[v].phase \notin AllowedCurrent[op]
  <2>1. job' = job
    BY <1>2 DEF Transition
  <2> QED
    BY <1>2, <2>1 DEF StoreTypeOK
<1> QED
  BY <1>1, <1>2

LEMMA AllowedPhases ==
  /\ AllowedCurrent["set_arq_job_id"] = {"PENDING", "QUEUED"}
  /\ AllowedCurrent["mark_queued"] = {"PENDING"}
  /\ AllowedCurrent["mark_executing"] = {"PENDING", "QUEUED"}
  /\ AllowedCurrent["mark_completed"] = {"EXECUTING"}
  /\ AllowedCurrent["mark_failed"] = OpenPhases
BY DEF AllowedCurrent, OpenPhases

(* The rows the transactions write, column by column.                        *)
LEMMA RowColumns ==
  ASSUME NEW row \in Row
  PROVE  row = [phase |-> row.phase, error_code |-> row.error_code,
                arq_job_id |-> row.arq_job_id,
                started_at |-> row.started_at, completed_at |-> row.completed_at]
BY DEF Row

LEMMA NewRowColumns ==
  /\ NewRow \in Row
  /\ [NewRow EXCEPT !.phase = "QUEUED"] \in Row
  /\ [NewRow EXCEPT !.phase = "QUEUED"] =
       [phase |-> "QUEUED", error_code |-> None, arq_job_id |-> None,
        started_at |-> FALSE, completed_at |-> FALSE]
<1>1. NewRow \in Row
  BY DEF NewRow, Row, Phases
<1>2. [NewRow EXCEPT !.phase = "QUEUED"] \in Row
  BY <1>1 DEF Row, Phases
<1>3. /\ [NewRow EXCEPT !.phase = "QUEUED"].phase = "QUEUED"
      /\ [NewRow EXCEPT !.phase = "QUEUED"].error_code = None
      /\ [NewRow EXCEPT !.phase = "QUEUED"].arq_job_id = None
      /\ [NewRow EXCEPT !.phase = "QUEUED"].started_at = FALSE
      /\ [NewRow EXCEPT !.phase = "QUEUED"].completed_at = FALSE
  BY <1>1 DEF NewRow, Row
<1> QED
  BY <1>1, <1>2, <1>3, RowColumns

LEMMA RequeuedColumns ==
  ASSUME NEW row \in Row
  PROVE  Requeued(row) \in Row /\ Requeued(row) = [NewRow EXCEPT !.phase = "QUEUED"]
<1>1. Requeued(row) \in Row
  BY DEF Requeued, Row, Phases
<1>2. /\ Requeued(row).phase = "QUEUED"
      /\ Requeued(row).error_code = None
      /\ Requeued(row).arq_job_id = None
      /\ Requeued(row).started_at = FALSE
      /\ Requeued(row).completed_at = FALSE
  BY DEF Requeued, Row
<1> QED
  BY <1>1, <1>2, RowColumns, NewRowColumns

LEMMA QueuedAsColumns ==
  ASSUME NEW row \in Row, NEW a \in ArqIds
  PROVE  /\ QueuedAs(row, a) \in Row
         /\ QueuedAs(row, a).phase = "QUEUED"
         /\ QueuedAs(row, a).error_code = row.error_code
         /\ QueuedAs(row, a).arq_job_id = a
         /\ QueuedAs(row, a).started_at = row.started_at
         /\ QueuedAs(row, a).completed_at = row.completed_at
<1>1. QueuedAs(row, a) \in Row
  BY DEF QueuedAs, Row, Phases
<1> QED
  BY <1>1 DEF QueuedAs, Row

LEMMA QueuedColumns ==
  ASSUME NEW row \in Row
  PROVE  /\ Queued(row) \in Row
         /\ Queued(row).phase = "QUEUED"
         /\ Queued(row).error_code = row.error_code
         /\ Queued(row).arq_job_id = row.arq_job_id
         /\ Queued(row).started_at = row.started_at
         /\ Queued(row).completed_at = row.completed_at
<1>1. Queued(row) \in Row
  BY DEF Queued, Row, Phases
<1> QED
  BY <1>1 DEF Queued, Row

LEMMA ExecutingColumns ==
  ASSUME NEW row \in Row
  PROVE  /\ Executing(row) \in Row
         /\ Executing(row).phase = "EXECUTING"
         /\ Executing(row).error_code = None
         /\ Executing(row).arq_job_id = row.arq_job_id
         /\ Executing(row).started_at = TRUE
         /\ Executing(row).completed_at = row.completed_at
<1>1. Executing(row) \in Row
  BY DEF Executing, Row, Phases
<1> QED
  BY <1>1 DEF Executing, Row

LEMMA AsCompletedColumns ==
  ASSUME NEW row \in Row
  PROVE  /\ AsCompleted(row) \in Row
         /\ AsCompleted(row).phase = "COMPLETED"
         /\ AsCompleted(row).error_code = row.error_code
         /\ AsCompleted(row).arq_job_id = row.arq_job_id
         /\ AsCompleted(row).started_at = TRUE
         /\ AsCompleted(row).completed_at = TRUE
<1>1. AsCompleted(row) \in Row
  BY DEF AsCompleted, Row, Phases
<1> QED
  BY <1>1 DEF AsCompleted, Row

LEMMA FailedColumns ==
  ASSUME NEW row \in Row, NEW code \in ErrorCodes
  PROVE  /\ Failed(row, code) \in Row
         /\ Failed(row, code).phase = "ERROR"
         /\ Failed(row, code).error_code = code
         /\ Failed(row, code).arq_job_id = row.arq_job_id
         /\ Failed(row, code).started_at = TRUE
         /\ Failed(row, code).completed_at = TRUE
<1>1. Failed(row, code) \in Row
  BY DEF Failed, Row, Phases
<1> QED
  BY <1>1 DEF Failed, Row

(* What one transaction can make of the row it touches.                      *)
RowStep(row, new) ==
  \/ new = row
  \/ new = AddedOrGot(row)
  \/ /\ row \in Row
     /\ \/ /\ row.phase \in {"PENDING", "QUEUED"}
           /\ \E a \in ArqIds : new = QueuedAs(row, a)
        \/ row.phase = "PENDING" /\ new = Queued(row)
        \/ row.phase \in {"PENDING", "QUEUED"} /\ new = Executing(row)
        \/ row.phase = "EXECUTING" /\ new = AsCompleted(row)
        \/ /\ row.phase \in OpenPhases
           /\ \E code \in ErrorCodes : new = Failed(row, code)

LEMMA AddOrGetEffect ==
  ASSUME StoreTypeOK, NEW v \in Visits, AddOrGet(v)
  PROVE  /\ StoreTypeOK'
         /\ \A u \in Visits \ {v} : job'[u] = job[u]
         /\ job'[v] = AddedOrGot(job[v])
         /\ job'[v] \in Row
<1>1. AddedOrGot(job[v]) \in Row
  BY NewRowColumns, RequeuedColumns DEF StoreTypeOK, AddedOrGot
<1>2. job' = [job EXCEPT ![v] = AddedOrGot(job[v])]
  BY DEF AddOrGet
<1> QED
  BY <1>1, <1>2 DEF StoreTypeOK

(* Every transaction keeps the table typed and moves at most one row, by a   *)
(* RowStep.                                                                  *)
LEMMA StoreStepEffect ==
  ASSUME StoreTypeOK, StoreNext
  PROVE  /\ StoreTypeOK'
         /\ \A v \in Visits : RowStep(job[v], job'[v])
         /\ \E v \in Visits : \A u \in Visits \ {v} : job'[u] = job[u]
<1>1. PICK v \in Visits :
        \/ AddOrGet(v)
        \/ /\ Exists(v)
           /\ \/ \E a \in ArqIds : SetArqJobIdAndMarkQueued(v, a)
              \/ MarkQueued(v)
              \/ MarkExecuting(v)
              \/ MarkCompleted(v)
              \/ \E code \in ErrorCodes : MarkFailed(v, code)
  BY DEF StoreNext
<1> SUFFICES /\ StoreTypeOK'
             /\ \A u \in Visits \ {v} : job'[u] = job[u]
             /\ RowStep(job[v], job'[v])
  BY DEF RowStep
<1>2. CASE AddOrGet(v)
  BY <1>2, AddOrGetEffect DEF RowStep
<1>3. ASSUME Exists(v)
      PROVE  job[v] \in Row
  BY <1>3 DEF Exists, StoreTypeOK
<1>4. ASSUME Exists(v), NEW a \in ArqIds, SetArqJobIdAndMarkQueued(v, a)
      PROVE  /\ StoreTypeOK'
             /\ \A u \in Visits \ {v} : job'[u] = job[u]
             /\ RowStep(job[v], job'[v])
  <2>1. job[v] \in Row /\ QueuedAs(job[v], a) \in Row
    BY <1>3, <1>4, QueuedAsColumns
  <2> QED
    BY <1>4, <2>1, TransitionEffect, AllowedPhases DEF SetArqJobIdAndMarkQueued, RowStep
<1>5. CASE Exists(v) /\ MarkQueued(v)
  <2>1. job[v] \in Row /\ Queued(job[v]) \in Row
    BY <1>3, <1>5, QueuedColumns
  <2> QED
    BY <1>5, <2>1, TransitionEffect, AllowedPhases DEF MarkQueued, RowStep
<1>6. CASE Exists(v) /\ MarkExecuting(v)
  <2>1. job[v] \in Row /\ Executing(job[v]) \in Row
    BY <1>3, <1>6, ExecutingColumns
  <2> QED
    BY <1>6, <2>1, TransitionEffect, AllowedPhases DEF MarkExecuting, RowStep
<1>7. CASE Exists(v) /\ MarkCompleted(v)
  <2>1. job[v] \in Row /\ AsCompleted(job[v]) \in Row
    BY <1>3, <1>7, AsCompletedColumns
  <2> QED
    BY <1>7, <2>1, TransitionEffect, AllowedPhases DEF MarkCompleted, RowStep
<1>8. ASSUME Exists(v), NEW code \in ErrorCodes, MarkFailed(v, code)
      PROVE  /\ StoreTypeOK'
             /\ \A u \in Visits \ {v} : job'[u] = job[u]
             /\ RowStep(job[v], job'[v])
  <2>1. job[v] \in Row /\ Failed(job[v], code) \in Row
    BY <1>3, <1>8, FailedColumns
  <2> QED
    BY <1>8, <2>1, TransitionEffect, AllowedPhases DEF MarkFailed, RowStep
<1> QED
  BY <1>1, <1>2, <1>4, <1>5, <1>6, <1>7, <1>8

(* A RowStep keeps a row consistent, and leaves a final row alone or wipes a *)
(* failed one to queue it again.                                             *)
LEMMA RowStepConsistent ==
  ASSUME NEW row \in Row \cup {NoRow}, NEW new \in Row,
         row # NoRow => RowConsistent(row), RowStep(row, new)
  PROVE  RowConsistent(new)
<1>1. RowConsistent(NewRow)
  BY DEF RowConsistent, NewRow
<1>2. CASE new = row
  BY <1>2, NoRowAssumption
<1>3. CASE new = AddedOrGot(row)
  <2>1. RowConsistent([NewRow EXCEPT !.phase = "QUEUED"])
    BY DEF RowConsistent, NewRow
  <2> QED
    BY <1>1, <1>3, <2>1, RequeuedColumns DEF AddedOrGot
<1>4. ASSUME row \in Row, row.phase \in {"PENDING", "QUEUED"},
             NEW a \in ArqIds, new = QueuedAs(row, a)
      PROVE  RowConsistent(new)
  BY <1>4, QueuedAsColumns, NoRowAssumption DEF RowConsistent
<1>5. CASE row \in Row /\ row.phase = "PENDING" /\ new = Queued(row)
  BY <1>5, QueuedColumns, NoRowAssumption DEF RowConsistent
<1>6. CASE row \in Row /\ row.phase \in {"PENDING", "QUEUED"} /\ new = Executing(row)
  BY <1>6, ExecutingColumns, NoRowAssumption DEF RowConsistent
<1>7. CASE row \in Row /\ row.phase = "EXECUTING" /\ new = AsCompleted(row)
  BY <1>7, AsCompletedColumns, NoRowAssumption DEF RowConsistent
<1>8. ASSUME row \in Row, NEW code \in ErrorCodes, new = Failed(row, code)
      PROVE  RowConsistent(new)
  BY <1>8, FailedColumns, StoreAssumption DEF RowConsistent
<1> QED
  BY <1>2, <1>3, <1>4, <1>5, <1>6, <1>7, <1>8 DEF RowStep

\* A row stays a row.
LEMMA RowStepStays ==
  ASSUME NEW row \in Row, NEW new, RowStep(row, new)
  PROVE  new \in Row
<1>1. AddedOrGot(row) \in Row
  BY RequeuedColumns, NewRowColumns DEF AddedOrGot
<1>2. CASE new \in {row, AddedOrGot(row)}
  BY <1>1, <1>2
<1>3. ASSUME NEW a \in ArqIds, new = QueuedAs(row, a)
      PROVE  new \in Row
  BY <1>3, QueuedAsColumns
<1>4. CASE new \in {Queued(row), Executing(row), AsCompleted(row)}
  BY <1>4, QueuedColumns, ExecutingColumns, AsCompletedColumns
<1>5. ASSUME NEW code \in ErrorCodes, new = Failed(row, code)
      PROVE  new \in Row
  BY <1>5, FailedColumns
<1> QED
  BY <1>2, <1>3, <1>4, <1>5 DEF RowStep

LEMMA RowStepFinal ==
  ASSUME NEW row \in Row, row.phase \notin OpenPhases, NEW new, RowStep(row, new)
  PROVE  new = row \/ (row.phase = "ERROR" /\ new = [NewRow EXCEPT !.phase = "QUEUED"])
<1>1. row # NoRow
  BY NoRowAssumption
<1>2. CASE new = AddedOrGot(row)
  BY <1>1, <1>2, RequeuedColumns DEF AddedOrGot
<1> QED
  BY <1>2 DEF RowStep, OpenPhases

-----------------------------------------------------------------------------
StoreInv == StoreTypeOK /\ RowsConsistent

LEMMA StoreInvInit == StoreInit => StoreInv
BY DEF StoreInit, StoreInv, StoreTypeOK, RowsConsistent, Exists

LEMMA StoreInvStep == StoreInv /\ [StoreNext]_job => StoreInv'
<1> SUFFICES ASSUME StoreInv, [StoreNext]_job
             PROVE  StoreInv'
  OBVIOUS
<1>1. CASE UNCHANGED job
  BY <1>1 DEF StoreInv, StoreTypeOK, RowsConsistent, Exists
<1>2. CASE StoreNext
  <2>1. StoreTypeOK' /\ \A v \in Visits : RowStep(job[v], job'[v])
    BY <1>2, StoreStepEffect DEF StoreInv
  <2>2. ASSUME NEW v \in Visits, Exists(v)'
        PROVE  RowConsistent(job'[v])
    <3>1. job[v] \in Row \cup {NoRow} /\ job'[v] \in Row
      BY <2>1, <2>2 DEF StoreInv, StoreTypeOK, Exists
    <3>2. job[v] # NoRow => RowConsistent(job[v])
      BY DEF StoreInv, RowsConsistent, Exists
    <3> QED
      BY <2>1, <2>2, <3>1, <3>2, RowStepConsistent DEF Exists
  <2> QED
    BY <2>1, <2>2 DEF StoreInv, RowsConsistent
<1> QED
  BY <1>1, <1>2

(* For any visits, arq ids and sequence of transactions, the columns of a    *)
(* row tell one story.                                                       *)
THEOREM StoreKeepsRowsConsistent == StoreSpec => []RowsConsistent
<1>1. StoreInv => RowsConsistent
  BY DEF StoreInv
<1> QED
  BY <1>1, StoreInvInit, StoreInvStep, PTL DEF StoreSpec

(* For any visits, arq ids and sequence of transactions, a row that is over  *)
(* stands until a failed visit is registered again.                          *)
THEOREM StoreKeepsFinalRows == StoreSpec => FinalRowsStand
<1>1. StoreInv /\ [StoreNext]_job =>
        [\A v \in Visits : Exists(v) /\ job[v].phase \notin OpenPhases =>
           \/ job'[v] = job[v]
           \/ job[v].phase = "ERROR" /\ job'[v] = [NewRow EXCEPT !.phase = "QUEUED"]]_job
  <2> SUFFICES ASSUME StoreInv, StoreNext,
                      NEW v \in Visits, Exists(v), job[v].phase \notin OpenPhases
               PROVE  \/ job'[v] = job[v]
                      \/ job[v].phase = "ERROR" /\ job'[v] = [NewRow EXCEPT !.phase = "QUEUED"]
    OBVIOUS
  <2>1. RowStep(job[v], job'[v])
    BY StoreStepEffect DEF StoreInv
  <2>2. job[v] \in Row
    BY DEF StoreInv, StoreTypeOK, Exists
  <2> QED
    BY <2>1, <2>2, RowStepFinal
<1> QED
  BY <1>1, StoreInvInit, StoreInvStep, PTL DEF StoreSpec, FinalRowsStand
-----------------------------------------------------------------------------
(* What the transactions do to the entries of VisitLedger, row by row: the   *)
(* lemmas the refinements of the systems that use the store rest on.         *)

LEMMA LedgerPhases ==
  /\ LedgerStatus["PENDING"] = "waiting"   /\ LedgerStatus["QUEUED"] = "waiting"
  /\ LedgerStatus["EXECUTING"] = "working" /\ LedgerStatus["COMPLETED"] = "done"
  /\ LedgerStatus["ERROR"] = "failed"
BY DEF LedgerStatus

AnEntry(status, error) == [status |-> status, error |-> error]

LEMMA RowEntry ==
  ASSUME NEW row \in Row
  PROVE  /\ EntryOf(row).status = LedgerStatus[row.phase]
         /\ EntryOf(row) = AnEntry(LedgerStatus[row.phase], row.error_code)
         /\ EntryOf(row).status # "absent"
<1>1. EntryOf(row) = AnEntry(LedgerStatus[row.phase], row.error_code)
  BY NoRowAssumption DEF EntryOf, AnEntry
<1>2. EntryOf(row).status = LedgerStatus[row.phase]
  BY <1>1 DEF AnEntry
<1>3. LedgerStatus[row.phase] # "absent"
  BY LedgerPhases DEF Row, Phases
<1> QED
  BY <1>1, <1>2, <1>3

\* The moves of an entry: accepted, reopened, begun, finished, failed.
EntryStep(row, new) ==
  \/ EntryOf(new) = EntryOf(row)
  \/ EntryOf(row).status \in {"absent", "failed"} /\ EntryOf(new) = AnEntry("waiting", None)
  \/ EntryOf(row).status = "waiting" /\ EntryOf(new) = AnEntry("working", None)
  \/ /\ EntryOf(row).status = "working" /\ EntryOf(new) = AnEntry("done", None)
     /\ row \in Row /\ new \in Row /\ row.phase = "EXECUTING" /\ new.phase = "COMPLETED"
  \/ /\ EntryOf(row).status \in {"waiting", "working"}
     /\ \E code \in ErrorCodes : EntryOf(new) = AnEntry("failed", code)

(* A transaction moves the entry of a consistent row as the ledger allows:   *)
(* the columns say which step of the ledger it is.                           *)
LEMMA RowStepEntry ==
  ASSUME NEW row \in Row \cup {NoRow}, NEW new \in Row \cup {NoRow},
         row \in Row => RowConsistent(row), new \in Row => RowConsistent(new),
         RowStep(row, new)
  PROVE  EntryStep(row, new)
<1>1. CASE new = row
  BY <1>1 DEF EntryStep
<1>2. CASE row = NoRow /\ new = NewRow
  <2>1. EntryOf(row).status = "absent"
    BY <1>2 DEF EntryOf
  <2>2. new \in Row /\ new.phase = "PENDING" /\ new.error_code = None
    BY <1>2, NewRowColumns DEF NewRow
  <2> QED
    BY <2>1, <2>2, RowEntry, LedgerPhases DEF EntryStep
<1>3. CASE row \in Row /\ row.phase = "ERROR" /\ new = Requeued(row)
  <2>1. new \in Row /\ new.phase = "QUEUED" /\ new.error_code = None
    BY <1>3, RequeuedColumns, NewRowColumns
  <2> QED
    BY <1>3, <2>1, RowEntry, LedgerPhases DEF EntryStep
<1>4. CASE /\ row \in Row /\ row.phase \in {"PENDING", "QUEUED"}
           /\ new \in Row /\ new.phase = "QUEUED" /\ new.error_code = row.error_code
  BY <1>4, RowEntry, LedgerPhases DEF EntryStep
<1>5. CASE row \in Row /\ row.phase \in {"PENDING", "QUEUED"} /\ new = Executing(row)
  <2>1. new \in Row /\ new.phase = "EXECUTING" /\ new.error_code = None
    BY <1>5, ExecutingColumns
  <2> QED
    BY <1>5, <2>1, RowEntry, LedgerPhases DEF EntryStep
<1>6. CASE row \in Row /\ row.phase = "EXECUTING" /\ new = AsCompleted(row)
  <2>1. AsCompleted(row) \in Row /\ AsCompleted(row).phase = "COMPLETED"
    BY <1>6, AsCompletedColumns
  <2>2. new \in Row /\ new.phase = "COMPLETED"
    BY <1>6, <2>1
  <2>3. new.error_code = None
    BY <2>2 DEF RowConsistent
  <2> QED
    BY <1>6, <2>2, <2>3, RowEntry, LedgerPhases DEF EntryStep
<1>7. ASSUME row \in Row, row.phase \in OpenPhases,
             NEW code \in ErrorCodes, new = Failed(row, code)
      PROVE  EntryStep(row, new)
  <2>1. /\ Failed(row, code) \in Row /\ Failed(row, code).phase = "ERROR"
        /\ Failed(row, code).error_code = code
    BY <1>7, FailedColumns
  <2>2. EntryOf(new) = AnEntry("failed", code)
    BY <1>7, <2>1, RowEntry, LedgerPhases
  <2>3. EntryOf(row).status \in {"waiting", "working"}
    BY <1>7, RowEntry, LedgerPhases DEF OpenPhases
  <2> QED
    BY <2>2, <2>3 DEF EntryStep
<1>8. CASE new = AddedOrGot(row)
  <2>1. CASE row = NoRow
    BY <1>2, <1>8, <2>1 DEF AddedOrGot
  <2>2. CASE row \in Row /\ row.phase = "ERROR"
    BY <1>3, <1>8, <2>2, NoRowAssumption DEF AddedOrGot
  <2>3. CASE row \in Row /\ row.phase # "ERROR"
    BY <1>1, <1>8, <2>3, NoRowAssumption DEF AddedOrGot
  <2> QED
    BY <2>1, <2>2, <2>3
<1>9. ASSUME row \in Row, row.phase \in {"PENDING", "QUEUED"},
             NEW a \in ArqIds, new = QueuedAs(row, a)
      PROVE  EntryStep(row, new)
  BY <1>4, <1>9, QueuedAsColumns
<1>10. CASE row \in Row /\ row.phase = "PENDING" /\ new = Queued(row)
  BY <1>4, <1>10, QueuedColumns
<1> QED
  BY <1>1, <1>5, <1>6, <1>7, <1>8, <1>9, <1>10 DEF RowStep

(* A transaction moves at most one account, by such a step.                  *)
LEMMA StoreStepEntry ==
  ASSUME StoreInv, StoreInv', [StoreNext]_job
  PROVE  \/ UNCHANGED Account
         \/ \E v \in Visits : /\ Account' = [Account EXCEPT ![v] = EntryOf(job'[v])]
                             /\ Account[v] = EntryOf(job[v])
                             /\ EntryStep(job[v], job'[v])
<1>1. CASE UNCHANGED job
  BY <1>1 DEF Account
<1>2. CASE StoreNext
  <2>1. PICK v \in Visits : \A u \in Visits \ {v} : job'[u] = job[u]
    BY <1>2, StoreStepEffect DEF StoreInv
  <2>2. RowStep(job[v], job'[v])
    BY <1>2, StoreStepEffect DEF StoreInv
  <2>3. /\ job[v] \in Row \cup {NoRow} /\ job'[v] \in Row \cup {NoRow}
        /\ job[v] \in Row => RowConsistent(job[v])
        /\ job'[v] \in Row => RowConsistent(job'[v])
    BY NoRowAssumption DEF StoreInv, StoreTypeOK, RowsConsistent, Exists
  <2>4. EntryStep(job[v], job'[v])
    BY <2>2, <2>3, RowStepEntry
  <2>5. Account' = [Account EXCEPT ![v] = EntryOf(job'[v])]
    BY <2>1 DEF Account
  <2>6. Account[v] = EntryOf(job[v])
    BY DEF Account
  <2> QED
    BY <2>4, <2>5, <2>6
<1> QED
  BY <1>1, <1>2
=============================================================================
