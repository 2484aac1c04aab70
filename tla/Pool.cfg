SPECIFICATION Spec
CONSTANTS
  Jobs = {j1, j2, j3}
  Workers = {w1, w2, w3}
  Max = 2
  NoJob = NoJob
  NoWorker = NoWorker
INVARIANTS PoolIsExact JobsAreKept
PROPERTY AcceptedRuns
