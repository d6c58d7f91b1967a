CONSTANTS
  A = A
  B = B
  p1 = p1
  p2 = p2
  Instance = {i1, i2}
  Nobody = Nobody
  Publisher = {t1}
  Key = {A, B}
  Content = {"tick", "malformed", "poison"}
  Traffic <- MCTraffic
  Partition = {p1, p2}
  PartitionOf <- MCPartitionOf
  QueueLimit = 2
  MaxFailures = 1
  MaxEvents = 1
  MaxFaults = 1
SPECIFICATION FairSpec
INVARIANTS NothingSkipped LossNeedsACrash ReceivedInOrder
PROPERTIES EveryTickArrives ReplaysNeedAFault
\* All messages may have been consumed and no fault be left.
CHECK_DEADLOCK FALSE
