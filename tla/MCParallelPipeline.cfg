CONSTANTS
  s1 = s1
  a1 = a1
  a2 = a2
  Worker = {w1, w2}
  SyncBatch = {s1}
  AsyncBatch = {a1, a2}
  A = A
  B = B
  Ticker = {A, B}
  NoTicker = NoTicker
  BadTicker = BadTicker
  Whole = Whole
  Content <- MCContent
SPECIFICATION FairSpec
INVARIANT OneResultPerSymbol
 
\* Nobody has to call, and a starved pool stands still: EndsUnlessStarved
\* says when the system may stop.
CHECK_DEADLOCK FALSE
