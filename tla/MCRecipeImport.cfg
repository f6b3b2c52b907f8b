\* Two workers, two admins, safety.
SPECIFICATION Spec
CONSTANTS
  NumJobs = 2
  Workers = {w1, w2}
  Admins = {a1, a2}
  QueueDepth = 1
  MaxEdits = 1
  MaxRetries = 1
  MaxRestarts = 1
  MaxFaults = 0
  NoJob = NoJob
SYMMETRY MCSymmetry
INVARIANTS OneRecipePerImport HumanApproved
PROPERTIES FollowsLifecycle ReviewKept
