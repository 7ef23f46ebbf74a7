CONSTANTS
  SpecLimit = 3
  SpecPeriod = 7
  SpecBurst = 4
  SecondInTicks = 5
  MaxIdle = 12
SPECIFICATION FairSpec
PROPERTIES ImplementsLeakyBucket EventuallyGranted
