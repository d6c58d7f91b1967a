CONSTANTS
  Capacity = 2
  DrainMax = 1
  MaxTicks = 3
  Conn = {k1}
  Id = {i1}
  Ticker = {}
SPECIFICATION FairSpec
INVARIANT NothingLeftBehind
PROPERTIES   BufferedTicksLeave
\* The process ends, and may hang: the properties say when.
CHECK_DEADLOCK FALSE
