\* One manage run, no database faults.
SPECIFICATION Spec
CONSTANTS
  r1 = r1
  r2 = r2
  i1 = i1
  Run = {r1}
  Item = {i1}
  Host = {h1, h2}
  NoHost = NoHost
  ItemOf <- MCItemOf
  ModeOf <- MCManage
  Pinned = {}
  MaxRestarts = 2
  Cancels = {r1}
  DbFaults = {}
INVARIANTS RunningIsOwned
PROPERTIES ImplementsContract
CHECK_DEADLOCK FALSE
