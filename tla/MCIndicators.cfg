CONSTANTS
  Bar <- MCBar
  SmaPeriod = 3
  RsiPeriod = 2
  IntRange = 8
  MaxUpdates = 5
SPECIFICATION Spec
INVARIANTS SmaIsWindowAverage  
