SPECIFICATION Spec
CONSTANTS
  a = a
  b = b
  c = c
  Item = {a, b}
  Edges <- Pair
  Blocks <- Pair
  Caller = {k1}
  Sweep = sweep
  Ops = {"dispatch", "halt", "cancel", "reset"}
  Overlap = TRUE
  MaxDeaths = 0
CHECK_DEADLOCK FALSE
INVARIANTS OrderKept StoppedIsQuiet
PROPERTIES ImplementsContract OutcomeYieldsToStale
