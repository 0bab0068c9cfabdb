SPECIFICATION FairSpec
CONSTANTS
  a = a
  b = b
  c = c
  Item = {a, b, c}
  Project = {"home", "other"}
  Name <- MCName
  File <- MCFile
  Nil = Nil
  Mixes <- MCMixes
INVARIANTS BuildsAreSafe PlanInv AccountsAgree
PROPERTIES PlansFinish
CHECK_DEADLOCK FALSE
