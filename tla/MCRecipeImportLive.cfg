\* The default deployment: one worker.
SPECIFICATION FairSpec
CONSTANTS
  NumJobs = 2
  Workers = {w1}
  Admins = {a1}
  QueueDepth = 1
  MaxEdits = 1
  MaxRetries = 1
  MaxRestarts = 1
  MaxFaults = 1
  NoJob = NoJob
INVARIANTS WorkersConsistent
PROPERTIES JobSettles
