SPECIFICATION Spec
CONSTANTS
  p = p
  q = q
  a = a
  b = b
  v = v
  w = w
  Keys = {a, b}
  Values = {v, w}
  NoValue = NoValue
  Detached = {w}
  Documents <- Mixed
  Missing = Missing
  Malformed = Malformed
  Valid <- AnyMixed
  Procs = {p, q}
  Links = {l}
  Targets = {t}
  Inodes = {i, j}
  Modes = {m600}
  Private = m600
  Kinds <- SaversKinds
  Requests <- SaversRequests
  Hazards = {"crash", "fault"}
  None = None
SYMMETRY WritersAndInodes
INVARIANT LockExclusion
INVARIANT NobodyWaitsInVain
INVARIANT StatusTellsTheTruth
PROPERTY NoLostUpdate
PROPERTY IsAtomic
