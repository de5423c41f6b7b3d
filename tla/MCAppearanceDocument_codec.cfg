SPECIFICATION Spec
CONSTANTS
  p = p
  q = q
  Absent = Absent
  Missing = Missing
  Malformed = Malformed
  Failed = Failed
  None = None
  Bytes <- MCBytes
  IllFormed = {"latin1"}
  Unescaped = {"escape"}
  Others <- MCOthers
  Procs = {p, q}
  Kinds <- Writers
  Initial <- MCInitial
  Staged <- MCStaged
  Appearances <- WithControl
  Edited <- MCEdited
  MaxCalls = 1
  MaxChanges = 0
INVARIANT StandsForWhatWasMeant
CHECK_DEADLOCK FALSE
