SPECIFICATION FairSpec
CONSTANTS
  MaxSeq = 4
  Retained = 2
  MaxFutile = 3
  MaxGen = 2
INVARIANTS StreamSound
PROPERTIES ImplementsOutputLog EndReachesCaller
CHECK_DEADLOCK FALSE
