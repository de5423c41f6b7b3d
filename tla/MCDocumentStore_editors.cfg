SPECIFICATION Spec
CONSTANTS
  p = p
  q = q
  a = a
  b = b
  v = v
  w = w
  Keys = {a, b}
  Values = {v}
  NoValue = NoValue
  Detached = {}
  Documents <- Nested
  Missing = Missing
  Malformed = Malformed
  Valid <- AnyNested
  Procs = {p}
  Links = {}
  Targets = {t}
  Inodes = {i, j, k}
  Modes = {m600, m644}
  Private = m600
  Kinds <- StageKinds
  Requests <- OneKeyRequests
  Hazards = {"write", "replace", "delete", "chmod"}
  None = None
SYMMETRY InodesOnly
PROPERTY RollbackUndoesStage
PROPERTY PermissionsPreserved
PROPERTY NoLostUpdate
PROPERTY NothingIsRewritten
