\* Two build runs of one item, one of them pinned, dispatched in any overlap.
SPECIFICATION Spec
CONSTANTS
  r1 = r1
  r2 = r2
  i1 = i1
  Run = {r1, r2}
  Item = {i1}
  Host = {h1}
  NoHost = NoHost
  ItemOf <- MCItemOf
  ModeOf <- MCBuild
  Pinned = {r2}
  MaxRestarts = 1
  Cancels = {}
  DbFaults = {r1}
INVARIANTS OneActiveUnlessRaced
PROPERTIES NoStrandedItem
CHECK_DEADLOCK FALSE
