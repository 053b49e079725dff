SPECIFICATION Spec
CONSTANTS
  Txn = {t1, t2}
  Session = {s1, s2}
  WorkspaceKey = {w1, w2}
  CommandKey = {c1, c2}
  MessageId = {m1}
  MaxRevision = 0
  None = None
  Refused = Refused
  t1 = t1
  t2 = t2
  s1 = s1
  s2 = s2
  c1 = c1
  c2 = c2
  w1 = w1
  w2 = w2
  m1 = m1
SYMMETRY Symmetry
INVARIANT NoDeadlock
PROPERTIES
  ActsAtMostOnce
  WorkspaceCreatedOnce
