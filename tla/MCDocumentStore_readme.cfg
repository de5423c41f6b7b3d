SPECIFICATION Spec
CONSTANTS
  p = p
  q = q
  a = a
  b = b
  v = v
  w = w
  Keys = {a}
  Values = {v}
  NoValue = NoValue
  Detached = {}
  Documents <- OneKey
  Missing = Missing
  Malformed = Malformed
  Valid <- AnyOneKey
  Procs = {p}
  Links = {}
  Targets = {t}
  Inodes = {i, j}
  Modes = {m600}
  Private = m600
  Kinds <- AllKinds
  Requests <- OneKeyRequests
  Hazards = {"write"}
  None = None
SYMMETRY InodesOnly
PROPERTY RefusalIsRevisionChanged
