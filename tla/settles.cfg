CONSTANTS
  None = None
  NoRow = NoRow
  Visits = {v1}
  ArqIds = {a1, a2}
  Requests = {r1, r2}
  MaxTries = 2
  Calls = {"register", "abort"}
  Faults = {"recoverable_crash"}
SPECIFICATION FairSpec
INVARIANTS
  NoVisitIsLost
PROPERTIES
  VisitsSettle
