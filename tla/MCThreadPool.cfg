CONSTANTS
  Worker = {w1, w2, w3}
  Submitter = {s1, s2}
  NoThread = NoThread
  MaxTasks = 4
SPECIFICATION FairSpec
INVARIANTS FifoExactlyOnce NoTaskDropped
PROPERTIES ImplementsService EveryTaskRuns ReturnsUnlessCaught
