CONSTANTS
  None = None
  NoRow = NoRow
  Visits = {v1}
  ArqIds = {a1, a2}
  Requests = {r1}
  MaxTries = 2
  Calls = {"register", "abort"}
  Faults = {}
SPECIFICATION Spec
INVARIANTS
  AbortFindsTheJob
