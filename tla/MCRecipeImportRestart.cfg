\* A restart that comes soon after a claim.
SPECIFICATION FairSpec
CONSTANTS
  NumJobs = 1
  Workers = {w1}
  Admins = {a1}
  QueueDepth = 1
  MaxEdits = 0
  MaxRetries = 0
  MaxRestarts = 1
  MaxFaults = 0
  NoJob = NoJob
PROPERTY OrphansRecovered
