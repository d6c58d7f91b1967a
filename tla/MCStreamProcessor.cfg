CONSTANTS
  Ticker = {A, B}
  Worker = {w1, w2}
  Period = 2
  MaxTicks = 3
SPECIFICATION FairSpec
INVARIANTS   ProducerOutlivesTasks PublishedInOrder 
 
