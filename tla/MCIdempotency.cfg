\* The deployment rule LeaseCoversExecution holds: 5 >= 1 + 1 + 2 + 1, 2 >= 1.
CONSTANTS
  r1 = r1
  r2 = r2
  r3 = r3
  h1 = h1
  h2 = h2
  None = None
  Requests <- MCRequests
  Hashes <- MCHashes
  HashOf <- MCHashOf
  InFlightTTL = 5
  WaitTimeout = 1
  ExecTimeout = 2
  SettleTimeout = 1
  KeyTTL = 2
  MaxClaims = 2
  MaxFaults = 1
SPECIFICATION FairSpec
INVARIANTS
  ClaimExclusive
  ReplayFaithful
PROPERTIES
  StoredResponseKept
  NoSecondExecution
  Answered
