SPECIFICATION Spec
CONSTANTS
  p = p
  q = q
  a = a
  b = b
  v = v
  w = w
  Keys = {a}
  Values = {v}
  NoValue = NoValue
  Detached = {}
  Documents <- OneKey
  Missing = Missing
  Malformed = Malformed
  Valid <- AnyOneKey
  Procs = {p, q}
  Links = {}
  Targets = {t}
  Inodes = {i, j}
  Modes = {m600}
  Private = m600
  Kinds <- StagerKinds
  Requests <- OneKeyRequests
  Hazards = {"power", "fault"}
  None = None
SYMMETRY InodesOnly
INVARIANT AckedSurvives
