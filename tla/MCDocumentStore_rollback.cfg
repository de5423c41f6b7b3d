SPECIFICATION Spec
CONSTANTS
  p = p
  q = q
  a = a
  b = b
  v = v
  w = w
  Keys = {a, b}
  Values = {v}
  NoValue = NoValue
  Detached = {}
  Documents <- TwoKeys
  Missing = Missing
  Malformed = Malformed
  Valid <- AnyTwoKeys
  Procs = {p, q}
  Links = {}
  Targets = {t}
  Inodes = {i, j}
  Modes = {m600}
  Private = m600
  Kinds <- StagerKinds
  Requests <- StagerRequests
  Hazards = {"fault"}
  None = None
SYMMETRY InodesOnly
INVARIANT TypeOK
PROPERTY RollbackUndoesStage
PROPERTY IsAtomic
