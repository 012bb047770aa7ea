CONSTANTS
  None = None
  NoRow = NoRow
  Shared = Shared
  Visits = {v1, v2}
  ArqIds = {}
  Datasets = {d1, d2, d3}
  Matching = {d1, d2}
  Payloads = {{d1}, {d2, d3}, {d3}}
  Runs = {n1, n2}
SPECIFICATION ExportSpec
SYMMETRY RunSymmetry
INVARIANTS
  CompletedIsExported
  OnlyRegisteredExported
PROPERTIES
  ExportsImplementLedger
