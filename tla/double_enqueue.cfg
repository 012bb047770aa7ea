CONSTANTS
  None = None
  NoRow = NoRow
  Visits = {v1}
  ArqIds = {a1, a2}
  Requests = {r1, r2}
  MaxTries = 2
  Calls = {"register"}
  Faults = {}
SPECIFICATION Spec
INVARIANTS
  OneAttempt
