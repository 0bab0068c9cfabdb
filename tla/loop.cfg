SPECIFICATION MCSpec
CONSTANTS
  h1 = h1
  h2 = h2
  l1 = l1
  Host = {h1, h2}
  Label = {l1}
  Nil = Nil
  Legacy = h1
  Need = {l1}
  Caller = {c1, c2}
  Mixes <- MCMixes
  MaxRuns = 3
  MaxCalls = 2
  MaxChanges = 1
  MaxFaults = 1
CHECK_DEADLOCK FALSE
INVARIANTS LoopInv StopReachesChildren
PROPERTIES DrainHolds CancelledIsFinal RunsAreRouted
