CONSTANTS
  A = A
  p1 = p1
  Publisher = {t1, t2}
  Key = {A}
  Content = {"tick"}
  Traffic <- MCTraffic
  Partition = {p1}
  PartitionOf <- MCPartitionOf
  QueueLimit = 2
  MaxFailures = 1
SPECIFICATION FairSpec
PROPERTY QueueMakesRoom
\* The producer may be gone, or left alone.
CHECK_DEADLOCK FALSE
