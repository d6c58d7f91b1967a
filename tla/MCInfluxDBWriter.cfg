CONSTANTS
  Caller = {c1, c2}
  BATCH_SIZE = 2
  Husk = Husk
  BatchSizes <- MCBatchSizes
  MaxPoints = 4
  MaxFailures = 2
SPECIFICATION Spec
SYMMETRY CallerSymmetry
INVARIANTS LossNeedsABadClient BufferStaysBounded BatchIsPersisted
