CONSTANTS
  None = None
  NoRow = NoRow
  Visits = {v1}
  ArqIds = {a1, a2}
  Requests = {r1, r2}
  MaxTries = 2
  Calls = {"register", "abort"}
  Faults = {"worker_crash", "api_crash", "shutdown"}
SPECIFICATION Spec
SYMMETRY Symmetry
INVARIANTS
  TypeOK
  SuccessIsDurable
  AbortStopsTheWork
PROPERTIES
  ImplementsLedger
  JobsWearOut
