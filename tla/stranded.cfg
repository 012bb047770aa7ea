CONSTANTS
  None = None
  NoRow = NoRow
  Visits = {v1}
  ArqIds = {a1, a2}
  Requests = {r1, r2}
  MaxTries = 2
  Calls = {"register", "get", "abort"}
  Faults = {"recoverable_crash", "enqueue_unanswered", "id_not_recorded", "abort_timeout"}
SPECIFICATION Spec
SYMMETRY Symmetry
INVARIANTS
  NoVisitIsStranded
  CompletedAnswerIsTrue
