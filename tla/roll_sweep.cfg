SPECIFICATION Spec
CONSTANTS
  a = a
  b = b
  c = c
  Item = {a, b, c}
  Edges <- Join
  Blocks <- None
  Caller = {k1}
  Sweep = sweep
  Ops = {"resume", "user"}
  Overlap = TRUE
  MaxDeaths = 0
CHECK_DEADLOCK FALSE
INVARIANTS NoneWaitsInVain
