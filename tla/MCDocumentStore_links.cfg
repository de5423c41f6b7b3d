SPECIFICATION Spec
CONSTANTS
  p = p
  q = q
  a = a
  b = b
  v = v
  w = w
  Keys = {a}
  Values = {v}
  NoValue = NoValue
  Detached = {}
  Documents <- OneKey
  Missing = Missing
  Malformed = Malformed
  Valid <- AnyOneKey
  Procs = {p}
  Links = {l}
  Targets = {t, u}
  Inodes = {i, j, k}
  Modes = {m600}
  Private = m600
  Kinds <- AllKinds
  Requests <- OneKeyRequests
  Hazards = {"relink"}
  None = None
SYMMETRY InodesOnly
PROPERTY RollbackUndoesStage
PROPERTY WriteFollowsLink
