CONSTANTS
  None = None
  c1 = c1
  Card <- MCCard
  Nulls <- MCNulls
  Interval = 1
  MaxPut = 2
  Total = 5
SPECIFICATION LazySpec
PROPERTY EveryFailureDelays
