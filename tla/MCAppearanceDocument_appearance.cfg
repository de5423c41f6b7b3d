SPECIFICATION Spec
CONSTANTS
  p = p
  q = q
  Absent = Absent
  Missing = Missing
  Malformed = Malformed
  Failed = Failed
  None = None
  Bytes <- MCBytes
  IllFormed = {"latin1"}
  Unescaped = {}
  Others <- MCOthers
  Procs = {p, q}
  Kinds <- Mixed
  Initial <- MCInitial
  Staged <- MCStaged
  Appearances <- MCAppearances
  Edited <- MCEdited
  MaxCalls = 1
  MaxChanges = 2
INVARIANT TypeOK
INVARIANT StandsForWhatWasMeant
INVARIANT LoadIsOneLook
PROPERTY UnsupportedIsKept
PROPERTY UpgradesWhatItSaw
CHECK_DEADLOCK FALSE
