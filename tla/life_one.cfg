\* One auto-routed plan run with everything that can happen to it.
SPECIFICATION Spec
CONSTANTS
  r1 = r1
  r2 = r2
  i1 = i1
  Run = {r1}
  Item = {i1}
  Host = {h1, h2}
  NoHost = NoHost
  ItemOf <- MCItemOf
  ModeOf <- MCPlan
  Pinned = {}
  MaxRestarts = 2
  Cancels = {r1}
  DbFaults = {r1}
INVARIANTS HandleFollowsStatus SingleLaunch SuccessIsEarned
PROPERTIES ReaperYields UngatedIsExcused NeverLaunchedOnceEnded RunningEnds
CHECK_DEADLOCK FALSE
