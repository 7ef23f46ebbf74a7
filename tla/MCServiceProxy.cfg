CONSTANTS
  c1 = c1
  c2 = c2
  Callers <- MCCallers
  Advices <- MCAdvices
  SpecAttempts = 2
  TTL = 1
  MaxPuts = 1
SPECIFICATION FairSpec
INVARIANTS SettledOnce RejectedUntouched AuditTruthful
PROPERTIES FreshEntryKept EventuallyFresh
