CONSTANTS
  c1 = c1
  c2 = c2
  c3 = c3
  c4 = c4
  Callers <- MCCallers
  SpecMaxConcurrent = 2
  MaxWaits <- MCMaxWaits
SPECIFICATION FairSpec
INVARIANT SlotsHeld
PROPERTIES NoOvertaking WaitEnds
