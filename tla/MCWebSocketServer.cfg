CONSTANTS
  Conn = {k1, k2}
  Id = {i1, i2}
  Ticker = {A, B}
  MaxStarts = 2
SPECIFICATION FairSpec
INVARIANTS  JoinedIfBound
PROPERTY StopReturns
\* The process ends, and stop() may wait for ever: StopReturns says when.
CHECK_DEADLOCK FALSE
