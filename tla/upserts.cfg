CONSTANTS
  NoRecord = NoRecord
  NoBatch = NoBatch
  Unanswered = Unanswered
  ObsIds = {i1, i2}
  Contents = {x1, x2}
  Sessions = {s1, s2}
  Inputs <- UniformBatches
  MaxBatch = 2
  MaxAttempts = 2
SPECIFICATION TransactionsFairSpec
PROPERTIES
  AtomicUpserts
  UpsertsReturn
