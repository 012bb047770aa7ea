CONSTANTS
  None = None
  NoRow = NoRow
  Visits = {v1}
  ArqIds = {a1, a2}
  Requests = {r1, r2}
  MaxTries = 2
  Calls = {"register", "get", "abort"}
  Faults = {"retry", "timeout", "enqueue_error", "abort_timeout", "redis_error", "database_error"}
SPECIFICATION SerialSpec
SYMMETRY Symmetry
INVARIANTS
  OneAttempt
  OverlayIsLive
  AbortStopsTheWork
