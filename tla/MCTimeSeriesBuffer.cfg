CONSTANTS
  Tick = {t1, t2}
  Null = Null
  Capacity = 3
  MaxItems <- MCMaxItems
  MaxPushes = 7
SPECIFICATION Spec
INVARIANTS HoldsNewest LossIsCounted
PROPERTY ImplementsQueue
