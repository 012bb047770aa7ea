CONSTANTS
  None = None
  NoRow = NoRow
  Visits = {v1}
  ArqIds = {a1}
  Sessions = {s1, s2}
  Methods = {"add_or_get", "set_arq_job_id", "mark_queued", "mark_executing", "mark_completed", "mark_failed"}
  Codes = {"JobAborted", "RetriesExhausted"}
  MaxAttempts = 2
SPECIFICATION TransactionsFairSpec
INVARIANTS
  RowsConsistent
  RepeatedCallsAgree
PROPERTIES
  FinalRowsStand
  AtomicTransactions
  CallsReturn
