SPECIFICATION FairSpec
CONSTANTS
  a = a
  b = b
  c = c
  Item = {a, b}
  Edges <- Pair
  Blocks <- None
  Caller = {k1}
  Sweep = sweep
  Ops = {"dispatch"}
  Overlap = FALSE
  MaxDeaths = 2
CHECK_DEADLOCK FALSE
PROPERTIES RolloutSettles
