CONSTANTS
  c1 = c1
  c2 = c2
  c3 = c3
  Callers <- MCCallers
  SpecFailureThreshold = 2
  SpecResetTimeout = 2
  SpecHalfOpenMax = 0
SPECIFICATION FairSpec

PROPERTY HalfOpenResolves
