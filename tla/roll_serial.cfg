SPECIFICATION Spec
CONSTANTS
  a = a
  b = b
  c = c
  Item = {a, b}
  Edges <- Pair
  Blocks <- Pair
  Caller = {k1}
  Sweep = sweep
  Ops = {"dispatch", "halt", "cancel", "resume", "reset", "user"}
  Overlap = FALSE
  MaxDeaths = 1
CHECK_DEADLOCK FALSE
INVARIANTS ClosedIsDone
PROPERTIES HealRepairs
