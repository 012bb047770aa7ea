CONSTANTS
  None = None
  NoRow = NoRow
  Shared = Shared
  Visits = {v1}
  ArqIds = {}
  Datasets = {d1, d2}
  Matching = {d1, d2}
  Payloads = {{d1}, {d2}}
  Runs = {n1}
SPECIFICATION ExportSpec
INVARIANTS
  DatasetsPersisted
