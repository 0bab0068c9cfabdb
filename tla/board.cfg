SPECIFICATION MCSpec
CONSTANTS
  u1 = u1
  u2 = u2
  u3 = u3
  m1 = m1
  m2 = m2
  m3 = m3
  w1 = w1
  p1 = p1
  p2 = p2
  User = {u1, u2, u3}
  Project = {p1, p2}
  Item = {i1, i2, i3}
  Owner <- MCOwner
  Child = {k1}
  File = {f1, f2}
  Agent = {a1, a2}
  Address = {m1, m2, m3}
  Home <- MCHome
  Word = {w1, w2}
  Token = {t1, t2}
  Link = {l1}
  Key = {y1, y2}
  Nil = Nil
  Caller = {c1, c2}
  Mixes <- MCMixes
  MaxCalls = 3
  MaxCrashes = 1
SYMMETRY Symmetry
CHECK_DEADLOCK FALSE
INVARIANTS AccountsInv Coherent FilesMatchRows RulesAreRaced
PROPERTIES CredentialsKept HalfDeletionsAreExcused UndisturbedUpdatesStand
