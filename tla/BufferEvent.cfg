SPECIFICATION Spec
CONSTANTS
  A = A
  B = B
  NoBev = NoBev
  Bevs <- MCBevs
  Programs <- MCPrograms
  MaxLag = 2
  MaxBatch = 2
  MaxLength = 4
  MaxSingle = 2
INVARIANTS
  
  PollingAgrees
  
  LimitsHold
CHECK_DEADLOCK FALSE
